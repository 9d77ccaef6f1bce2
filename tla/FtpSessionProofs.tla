-------------------------- MODULE FtpSessionProofs --------------------------
(***************************************************************************)
(* FtpSession for any clients, files and passwords, any number of requests *)
(* and with or without the deletes that kill a process.                    *)
(*                                                                         *)
(* The server talks to one client, and what the two have agreed on is in   *)
(* their places in the code and in the two streams: Dialogue lists the     *)
(* ways in which these four fit together.  Nobody else is ever served.     *)
(***************************************************************************)
EXTENDS FtpSession, Integers, TLAPS

(* The request that the client has written at each of its readDgrams; at   *)
(* getFile it has written none.                                            *)
RequestAt == [open |-> "OPEN_CONN_REQUEST", auth |-> "AUTH_REQUEST",
              ls |-> "LIST_REQUEST", quit |-> "QUIT_REQUEST",
              get |-> "GET_REQUEST", put |-> "PUT_REQUEST"]

(* The places of the server between two requests.                          *)
Idles == {"loop", "read", "free", "closing"}

(* What upload has read is the file that the client named.                 *)
Loaded(c) ==
    /\ name[c] \in Names /\ fileBuf[c] \in Contents
    /\ fileBuf[c] = here[c][name[c]]

(* d is the request that client c waits for the reply to.  Whether it may  *)
(* be asked was decided by clnt_auth, in Check_auth and auth.              *)
Asks(c, d) ==
    /\ at[c] \in DOMAIN RequestAt /\ d.type = RequestAt[at[c]]
    /\ at[c] = "auth" => ~clnt_auth[c]
    /\ at[c] \in {"ls", "get", "put"} => clnt_auth[c]
    /\ at[c] \in {"get", "put"} => d.payload = name[c] /\ name[c] \in Names
    /\ at[c] = "put" => Loaded(c)

(* The client waits for no reply, but for a command, or for nothing.       *)
Resting(c) == at[c] \in {"idle", "upload", "gone"}

(* Both sides have the same idea of the login, but for a server that has   *)
(* not come to initConn yet after its reply.                               *)
Agree(c) ==
    IF served = "initConn" THEN ~clnt_auth[c] ELSE auth_pass = clnt_auth[c]

-----------------------------------------------------------------------------
(* The modes of the dialogue.                                              *)

(* Nothing is under way.                                                   *)
Rest(c) ==
    /\ Resting(c) /\ served \in Idles \cup {"initConn"}
    /\ toServer[c] = <<>> /\ toClient[c] = <<>>
    /\ at[c] # "gone" => Agree(c)

(* A request is on its way.                                                *)
Asked(c) ==
    /\ served \in Idles \cup {"initConn"}
    /\ Len(toServer[c]) = 1 /\ Asks(c, toServer[c][1])
    /\ toClient[c] = <<>>
    /\ Agree(c)

(* d is the file that client c asked for.                                  *)
IsFile(c, d) ==
    /\ name[c] \in Names
    /\ d.type = "FILE_DATA" /\ d.payload \in Contents
    /\ d.payload = there[name[c]] /\ auth_pass

(* d is the reply that client c waits for, the last one of its command.    *)
Fits(c, d) ==
    /\ at[c] \in Waiting /\ d.type = ReplyTo[at[c]]
    /\ at[c] # "put"
    /\ at[c] = "get" => d.status = 0
    /\ at[c] = "getFile" => IsFile(c, d)

(* What the two sides think of the login while reply d is on its way.      *)
ReplyFlags(c, d) ==
    /\ at[c] = "open" => served = "initConn" \/ ~auth_pass
    /\ at[c] # "open" => served # "initConn"
    /\ at[c] = "auth" => (d.status = 1 <=> auth_pass)
    /\ at[c] \in {"ls", "get", "getFile"} => auth_pass = clnt_auth[c]

(* The last reply is on its way.                                           *)
Replied(c) ==
    /\ served \in Idles \cup {"initConn"}
    /\ toServer[c] = <<>>
    /\ Len(toClient[c]) = 1 /\ Fits(c, toClient[c][1])
    /\ ReplyFlags(c, toClient[c][1])

(* The reply to a get and the file are on their way.                       *)
Both(c) ==
    /\ at[c] = "get" /\ Len(toClient[c]) = 2
    /\ toClient[c][1].type = "GET_REPLY" /\ toClient[c][1].status = 1
    /\ IsFile(c, toClient[c][2])

(* They are, and the server goes on with requests.                         *)
Sent(c) ==
    /\ served \in Idles /\ clnt_auth[c]
    /\ toServer[c] = <<>> /\ Both(c)

(* The server has written the reply to a get and not yet the file.         *)
Sending(c) ==
    /\ served = "sendFile" /\ auth_pass /\ clnt_auth[c]
    /\ name[c] \in Names /\ servBuf \in Contents /\ servBuf = there[name[c]]
    /\ toServer[c] = <<>>
    /\ \/ /\ at[c] = "get" /\ Len(toClient[c]) = 1
          /\ toClient[c][1].type = "GET_REPLY" /\ toClient[c][1].status = 1
       \/ at[c] = "getFile" /\ toClient[c] = <<>>

(* The first datagram for the server is the file that it was announced.    *)
InSocket(c) ==
    /\ toServer[c][1].type = "FILE_DATA"
    /\ toServer[c][1].payload \in Contents
    /\ toServer[c][1].payload = here[c][filename]

(* The server waits for a file: its reply to the put is on its way, or the *)
(* file is, or the file and behind it the client's next request.           *)
Storing(c) ==
    /\ served = "putFile" /\ auth_pass /\ filename \in Names
    /\ at[c] # "gone" => clnt_auth[c]
    /\ \/ /\ at[c] = "put" /\ toServer[c] = <<>>
          /\ Len(toClient[c]) = 1 /\ toClient[c][1].type = "PUT_REPLY"
          /\ filename = name[c] /\ Loaded(c)
       \/ /\ toClient[c] = <<>> /\ Len(toServer[c]) = 1 /\ InSocket(c)
          /\ Resting(c)
       \/ /\ toClient[c] = <<>> /\ Len(toServer[c]) = 2 /\ InSocket(c)
          /\ Asks(c, toServer[c][2])

(* The server is in upload for ever.                                       *)
Lost(c) ==
    /\ served = "upload" /\ at[c] = "get"
    /\ toServer[c] = <<>> /\ toClient[c] = <<>>

(* The server has gone; what it had written may still arrive.              *)
Over(c) ==
    /\ served = "gone"
    /\ \/ toClient[c] = <<>>
       \/ Len(toClient[c]) = 1 /\ Fits(c, toClient[c][1])
       \/ Both(c)

(* What holds of the client that is served.                                *)
Dialogue(c) ==
    /\ link[c] = "closed" <=> at[c] = "gone"
    /\ served # "gone" => link[c] \in {"accepted", "closed"}
    /\ served = "gone" => link[c] \in {"fin", "reset", "closed"}
    /\ \/ Rest(c) \/ Asked(c) \/ Replied(c) \/ Sent(c) \/ Sending(c)
       \/ Storing(c) \/ Lost(c) \/ Over(c)

(* What holds of all others: not connected, waiting for an accept that     *)
(* never comes, reset when the server ended, or gone.                      *)
NotServed(c) ==
    /\ ~clnt_auth[c] /\ toClient[c] = <<>>
    /\ \/ link[c] = "none" /\ at[c] = "idle" /\ toServer[c] = <<>>
       \/ /\ link[c] = "queued" /\ at[c] = "open" /\ served # "gone"
          /\ Len(toServer[c]) = 1
          /\ toServer[c][1].type = "OPEN_CONN_REQUEST"
       \/ link[c] = "reset" /\ at[c] \in {"idle", "open"} /\ served = "gone"
       \/ link[c] = "closed" /\ at[c] = "gone"

(* The inductive invariant.                                                *)
IInv ==
    /\ TypeOK
    /\ waitTimes = 0 => served \in {"closing", "gone"}
    /\ peer = None <=> served \in {"off", "accept"}
    /\ peer = None => ~auth_pass
    /\ \A c \in Clients : IF c = peer THEN Dialogue(c) ELSE NotServed(c)

-----------------------------------------------------------------------------
(* Streams.                                                                *)

(* Taking the first datagram.                                              *)
LEMMA Streams ==
    ASSUME NEW S, NEW q \in Seq(S)
    PROVE  /\ Len(q) \in Nat
           /\ q = <<>> <=> Len(q) = 0
           /\ \A i \in 1 .. Len(q) : q[i] \in S
           /\ q # <<>> =>
                 /\ Head(q) = q[1] /\ q[1] \in S /\ Tail(q) \in Seq(S)
                 /\ Len(Tail(q)) = Len(q) - 1
                 /\ \A i \in 1 .. Len(q) - 1 : Tail(q)[i] = q[i + 1]
  OBVIOUS

(* Adding one.                                                             *)
LEMMA Appends ==
    ASSUME NEW S, NEW q \in Seq(S), NEW d \in S
    PROVE  /\ Append(q, d) \in Seq(S)
           /\ Len(Append(q, d)) = Len(q) + 1
           /\ Append(q, d)[Len(q) + 1] = d
           /\ \A i \in 1 .. Len(q) : Append(q, d)[i] = q[i]
           /\ q \o <<d>> = Append(q, d)
           /\ q \o <<>> = q
<1>1. q \o <<d>> = Append(q, d)
  OBVIOUS
<1>2. q \o <<>> = q
  OBVIOUS
<1>3. QED
  BY <1>1, <1>2

-----------------------------------------------------------------------------
(* Steps that leave most of the clients alone.                             *)

Same(c) ==
    /\ at'[c] = at[c] /\ clnt_auth'[c] = clnt_auth[c] /\ link'[c] = link[c]
    /\ name'[c] = name[c] /\ fileBuf'[c] = fileBuf[c] /\ here'[c] = here[c]
    /\ toServer'[c] = toServer[c] /\ toClient'[c] = toClient[c]

(* What is not touched stays as it is.                                     *)
LEMMA AloneKept ==
    ASSUME NEW c \in Clients, Same(c), NotServed(c),
           served' = "gone" <=> served = "gone"
    PROVE  NotServed(c)'
  BY DEF Same, NotServed

LEMMA DialogueKept ==
    ASSUME NEW c \in Clients, Same(c), Dialogue(c), UNCHANGED <<server, there>>
    PROVE  Dialogue(c)'
<1>1. UNCHANGED <<served, auth_pass, filename, servBuf, there>>
  BY DEF server
<1>2. /\ Rest(c) => Rest(c)'
      /\ Asked(c) => Asked(c)'
      /\ Replied(c) => Replied(c)'
      /\ Sent(c) => Sent(c)'
  BY <1>1 DEF Same, Rest, Asked, Replied, Sent, Resting, Agree, Asks, Loaded,
     Fits, ReplyFlags, Both, IsFile
<1>3. /\ Sending(c) => Sending(c)'
      /\ Storing(c) => Storing(c)'
      /\ Lost(c) => Lost(c)'
      /\ Over(c) => Over(c)'
  BY <1>1 DEF Same, Sending, Storing, Lost, Over, Resting, Asks, Loaded,
     Fits, Both, IsFile, InSocket
<1>4. QED
  BY <1>1, <1>2, <1>3 DEF Dialogue, Same

(* Client c does something.                                                *)
ByClient(c) ==
    /\ UNCHANGED <<server, there>>
    /\ \A d \in Clients \ {c} : Same(d)

LEMMA ClientStep ==
    ASSUME IInv, NEW c \in Clients, ByClient(c), TypeOK',
           IF c = peer THEN Dialogue(c)' ELSE NotServed(c)'
    PROVE  IInv'
<1>1. UNCHANGED <<served, peer, auth_pass, waitTimes>>
  BY DEF ByClient, server
<1>2. ASSUME NEW d \in Clients \ {c}
      PROVE  IF d = peer THEN Dialogue(d)' ELSE NotServed(d)'
  BY <1>1, <1>2, AloneKept, DialogueKept DEF ByClient, IInv
<1>3. \A d \in Clients : IF d = peer' THEN Dialogue(d)' ELSE NotServed(d)'
  BY <1>1, <1>2
<1>4. QED
  BY <1>1, <1>3 DEF IInv

(* The server does something for its peer.                                 *)
ByServer ==
    /\ served \notin {"off", "accept", "gone"}
    /\ served' \notin {"off", "accept", "gone"}
    /\ peer' = peer
    /\ \A d \in Clients \ {peer} : Same(d)

LEMMA ServerStep ==
    ASSUME IInv, ByServer, TypeOK', NEW c \in Clients, c = peer, Dialogue(c)',
           waitTimes' = 0 => served' = "closing"
    PROVE  IInv'
<1>1. ASSUME NEW d \in Clients \ {peer}
      PROVE  NotServed(d)'
  BY <1>1, AloneKept DEF ByServer, IInv
<1>2. \A d \in Clients : IF d = peer' THEN Dialogue(d)' ELSE NotServed(d)'
  BY <1>1 DEF ByServer
<1>3. QED
  BY <1>2, SessionAssumption DEF IInv, ByServer

-----------------------------------------------------------------------------
(* Commands.                                                               *)

(* Requests and replies are datagrams, and which place waits for which.    *)
LEMMA Kinds ==
    /\ \A type \in Requests, x \in {None} \cup Names \cup Credentials :
          Dgram(type, 0, x) \in Dgrams
    /\ \A w \in Waiting, s \in {0, 1},
          x \in {None} \cup Contents \cup SUBSET Names :
          Dgram(ReplyTo[w], s, x) \in Dgrams
    /\ \A d \in Dgrams : d.payload \in {None} \cup Names \cup Credentials
                                        \cup Contents \cup SUBSET Names
    /\ Waiting = {"open", "auth", "ls", "quit", "get", "getFile", "put"}
    /\ DOMAIN RequestAt = Waiting \ {"getFile"}
    /\ \A w \in DOMAIN RequestAt : RequestAt[w] \in Requests
  BY DEF Dgram, Dgrams, Requests, ReplyTo, Waiting, RequestAt

(* An unserved client has no command left but its first.                   *)
LEMMA RequestOfPeer ==
    ASSUME IInv, NEW c \in Clients, at[c] = "idle",
           link[c] \in {"queued", "accepted", "fin"}
    PROVE  c = peer
  BY DEF IInv, NotServed

(* Any command that writes a request.                                      *)
LEMMA RequestStep ==
    ASSUME IInv, NEW c \in Clients, NEW w \in DOMAIN RequestAt, NEW d \in Dgrams,
           Request(c, w, d), d.type = RequestAt[w],
           name' \in [Clients -> Names \cup {None}],
           fileBuf' \in [Clients -> Contents \cup {None}],
           \A e \in Clients \ {c} : name'[e] = name[e] /\ fileBuf'[e] = fileBuf[e],
           Asks(c, d)'
    PROVE  IInv'
<1>t. TypeOK
  BY DEF IInv
<1>0. /\ at[c] = "idle" /\ link[c] \in {"queued", "accepted", "fin"}
      /\ at' = [at EXCEPT ![c] = w]
      /\ toServer' = [toServer EXCEPT ![c] = Append(@, d)]
      /\ UNCHANGED <<clnt_conn, clnt_auth, link, toClient, server, here, there>>
  BY DEF Request
<1>1. /\ c = peer /\ Dialogue(c) /\ toServer[c] \in Seq(Dgrams)
      /\ toClient[c] \in Seq(Dgrams)
  BY <1>0, <1>t, RequestOfPeer DEF IInv, TypeOK
<1>2. /\ at'[c] = w /\ w \in Waiting /\ w # "getFile"
      /\ toServer'[c] = Append(toServer[c], d)
  BY <1>0, <1>t, Kinds DEF TypeOK
<1>3. TypeOK'
  BY <1>0, <1>1, <1>2, <1>t, Appends DEF TypeOK, server
<1>4. ByClient(c)
  BY <1>0, <1>t DEF ByClient, Same, TypeOK
<1>u. UNCHANGED <<served, auth_pass, filename, servBuf, clnt_auth, link,
                  toClient, here, there>>
  BY <1>0 DEF server
<1>5. Rest(c) \/ Storing(c) \/ Over(c)
  BY <1>0, <1>1, Kinds DEF Dialogue, Asked, Asks, Replied, Fits, Sent, Both, Sending, Lost
<1>6. ASSUME Rest(c)
      PROVE  Asked(c)'
  <2>1. Len(toServer[c]) = 0 /\ Len(toServer'[c]) = 1 /\ toServer'[c][1] = d
    BY <1>1, <1>2, <1>6, Streams, Appends DEF Rest
  <2>2. QED
    BY <1>0, <1>6, <1>u, <2>1 DEF Rest, Asked, Agree
<1>7. ASSUME Storing(c)
      PROVE  Storing(c)'
  <2>1. /\ toClient[c] = <<>> /\ Len(toServer[c]) = 1 /\ InSocket(c)
        /\ clnt_auth[c]
    BY <1>0, <1>7, Kinds DEF Storing, Asks
  <2>2. /\ Len(toServer'[c]) = 2 /\ toServer'[c][1] = toServer[c][1]
        /\ toServer'[c][2] = d
    BY <1>1, <1>2, <2>1, Appends
  <2>3. InSocket(c)'
    BY <1>u, <2>1, <2>2 DEF InSocket
  <2>4. QED
    BY <1>7, <1>u, <2>1, <2>2, <2>3 DEF Storing
<1>8. ASSUME Over(c)
      PROVE  Over(c)'
  BY <1>0, <1>8, <1>u, Kinds DEF Over, Fits, Both
<1>9. Dialogue(c)'
  <2>1. at[c] # "gone" /\ at'[c] # "gone"
    BY <1>0, <1>2, Kinds
  <2>2. Asked(c)' \/ Storing(c)' \/ Over(c)'
    BY <1>5, <1>6, <1>7, <1>8
  <2>3. QED
    BY <1>1, <1>u, <2>1, <2>2 DEF Dialogue
<1>10. QED
  BY <1>1, <1>3, <1>4, <1>9, ClientStep

(* The first command.                                                      *)
LEMMA ConnectStep ==
    ASSUME IInv, NEW c \in Clients, Connect(c)
    PROVE  IInv'
<1>t. TypeOK
  BY DEF IInv
<1>0. NotServed(c) /\ c # peer
  BY DEF IInv, Connect, NotServed, Dialogue
<1>d. /\ Dgram("OPEN_CONN_REQUEST", 0, None) \in Dgrams
      /\ Dgram("OPEN_CONN_REQUEST", 0, None).type = "OPEN_CONN_REQUEST"
  BY DEF Dgram, Dgrams, Requests
<1>1. TypeOK'
  <2>1. <<Dgram("OPEN_CONN_REQUEST", 0, None)>> \in Seq(Dgrams)
    BY <1>d
  <2>2. QED
    BY <1>t, <2>1, Kinds DEF TypeOK, Connect, server
<1>2. ByClient(c)
  BY <1>t DEF ByClient, Same, TypeOK, Connect
<1>3. NotServed(c)'
  <2>1. /\ link'[c] = "queued" /\ at'[c] = "open"
        /\ toServer'[c] = <<Dgram("OPEN_CONN_REQUEST", 0, None)>>
        /\ clnt_auth'[c] = clnt_auth[c] /\ toClient'[c] = toClient[c]
        /\ served # "gone" /\ served' = served
    BY <1>t DEF TypeOK, Connect, server
  <2>2. Len(toServer'[c]) = 1 /\ toServer'[c][1].type = "OPEN_CONN_REQUEST"
    BY <1>d, <2>1
  <2>3. QED
    BY <1>0, <2>1, <2>2 DEF NotServed
<1>4. QED
  BY <1>0, <1>1, <1>2, <1>3, ClientStep

(* Where a request leaves its client.                                      *)
LEMMA RequestPlace ==
    ASSUME TypeOK, NEW c \in Clients, NEW w, NEW d, Request(c, w, d)
    PROVE  /\ at'[c] = w /\ clnt_auth'[c] = clnt_auth[c] /\ here'[c] = here[c]
           /\ w \notin {"auth", "ls", "get", "put"} /\ w \in DOMAIN RequestAt
              /\ d.type = RequestAt[w] => Asks(c, d)'
           /\ w = "auth" /\ ~clnt_auth[c] /\ d.type = RequestAt[w] => Asks(c, d)'
           /\ w = "ls" /\ clnt_auth[c] /\ d.type = RequestAt[w] => Asks(c, d)'
  BY DEF TypeOK, Request, Asks, RequestAt

(* Requests that neither name a file nor load one.                         *)
LEMMA PlainStep ==
    ASSUME IInv, NEW c \in Clients, UNCHANGED <<name, fileBuf>>,
           \/ Request(c, "open", Dgram("OPEN_CONN_REQUEST", 0, None))
           \/ Request(c, "quit", Dgram("QUIT_REQUEST", 0, None))
           \/ /\ clnt_auth[c]
              /\ Request(c, "ls", Dgram("LIST_REQUEST", 0, None))
           \/ /\ ~clnt_auth[c]
              /\ \E k \in Credentials :
                    Request(c, "auth", Dgram("AUTH_REQUEST", 0, k))
    PROVE  IInv'
<1>t. TypeOK
  BY DEF IInv
<1>1. ASSUME NEW w \in {"open", "quit", "ls", "auth"}, NEW d \in Dgrams,
             Request(c, w, d), d.type = RequestAt[w], Asks(c, d)'
      PROVE  IInv'
  <2>1. w \in DOMAIN RequestAt
    BY Kinds
  <2>2. /\ name' \in [Clients -> Names \cup {None}]
        /\ fileBuf' \in [Clients -> Contents \cup {None}]
        /\ \A e \in Clients \ {c} : name'[e] = name[e] /\ fileBuf'[e] = fileBuf[e]
    BY <1>t DEF TypeOK
  <2>3. QED
    BY <1>1, <2>1, <2>2, RequestStep
<1>2. CASE Request(c, "open", Dgram("OPEN_CONN_REQUEST", 0, None))
  <2>1. /\ Dgram("OPEN_CONN_REQUEST", 0, None) \in Dgrams
        /\ Dgram("OPEN_CONN_REQUEST", 0, None).type = RequestAt["open"]
    BY DEF Dgram, Dgrams, Requests, RequestAt
  <2>2. Asks(c, Dgram("OPEN_CONN_REQUEST", 0, None))'
    BY <1>2, <1>t, <2>1, RequestPlace, Kinds
  <2>3. QED
    BY <1>1, <1>2, <2>1, <2>2
<1>3. CASE Request(c, "quit", Dgram("QUIT_REQUEST", 0, None))
  <2>1. /\ Dgram("QUIT_REQUEST", 0, None) \in Dgrams
        /\ Dgram("QUIT_REQUEST", 0, None).type = RequestAt["quit"]
    BY DEF Dgram, Dgrams, Requests, RequestAt
  <2>2. Asks(c, Dgram("QUIT_REQUEST", 0, None))'
    BY <1>3, <1>t, <2>1, RequestPlace, Kinds
  <2>3. QED
    BY <1>1, <1>3, <2>1, <2>2
<1>4. CASE /\ clnt_auth[c]
           /\ Request(c, "ls", Dgram("LIST_REQUEST", 0, None))
  <2>1. /\ Dgram("LIST_REQUEST", 0, None) \in Dgrams
        /\ Dgram("LIST_REQUEST", 0, None).type = RequestAt["ls"]
    BY DEF Dgram, Dgrams, Requests, RequestAt
  <2>2. Asks(c, Dgram("LIST_REQUEST", 0, None))'
    BY <1>4, <1>t, <2>1, RequestPlace, Kinds
  <2>3. QED
    BY <1>1, <1>4, <2>1, <2>2
<1>5. ASSUME ~clnt_auth[c], NEW k \in Credentials,
             Request(c, "auth", Dgram("AUTH_REQUEST", 0, k))
      PROVE  IInv'
  <2>1. /\ Dgram("AUTH_REQUEST", 0, k) \in Dgrams
        /\ Dgram("AUTH_REQUEST", 0, k).type = RequestAt["auth"]
    BY DEF Dgram, Dgrams, Requests, RequestAt
  <2>2. Asks(c, Dgram("AUTH_REQUEST", 0, k))'
    BY <1>5, <1>t, <2>1, RequestPlace, Kinds
  <2>3. QED
    BY <1>1, <1>5, <2>1, <2>2
<1>6. QED
  BY <1>2, <1>3, <1>4, <1>5

(* The name of the file is remembered.                                     *)
LEMMA GetStep ==
    ASSUME IInv, NEW c \in Clients, Get(c)
    PROVE  IInv'
<1>t. TypeOK
  BY DEF IInv
<1>1. PICK n \in Names : /\ Request(c, "get", Dgram("GET_REQUEST", 0, n))
                         /\ name' = [name EXCEPT ![c] = n]
                         /\ clnt_auth[c] /\ UNCHANGED fileBuf
  BY DEF Get, Check_auth
<1> DEFINE d == Dgram("GET_REQUEST", 0, n)
<1>2. d \in Dgrams /\ d.type = RequestAt["get"] /\ d.payload = n
  BY DEF Dgram, Dgrams, Requests, RequestAt
<1>3. /\ name' \in [Clients -> Names \cup {None}] /\ name'[c] = n
      /\ fileBuf' \in [Clients -> Contents \cup {None}]
      /\ \A e \in Clients \ {c} : name'[e] = name[e] /\ fileBuf'[e] = fileBuf[e]
  BY <1>1, <1>t DEF TypeOK
<1> HIDE DEF d
<1>4. at'[c] = "get" /\ clnt_auth'[c]
  BY <1>1, <1>t, RequestPlace DEF d
<1>5. Asks(c, d)'
  BY <1>2, <1>3, <1>4, Kinds DEF Asks
<1>6. QED
  BY <1>1, <1>2, <1>3, <1>5, RequestStep, Kinds DEF d

(* The file is read before the request is written.                         *)
LEMMA PutStep ==
    ASSUME IInv, NEW c \in Clients, Put(c)
    PROVE  IInv'
<1>t. TypeOK
  BY DEF IInv
<1>1. PICK n \in Names : /\ Request(c, "put", Dgram("PUT_REQUEST", 0, n))
                         /\ name' = [name EXCEPT ![c] = n]
                         /\ fileBuf' = [fileBuf EXCEPT ![c] = here[c][n]]
                         /\ clnt_auth[c] /\ here[c][n] # None
  BY DEF Put, Check_auth
<1> DEFINE d == Dgram("PUT_REQUEST", 0, n)
<1>2. d \in Dgrams /\ d.type = RequestAt["put"] /\ d.payload = n
  BY DEF Dgram, Dgrams, Requests, RequestAt
<1>3. here[c][n] \in Contents
  BY <1>1, <1>t DEF TypeOK, Files
<1>4. /\ name' \in [Clients -> Names \cup {None}] /\ name'[c] = n
      /\ fileBuf' \in [Clients -> Contents \cup {None}]
      /\ fileBuf'[c] = here[c][n]
      /\ \A e \in Clients \ {c} : name'[e] = name[e] /\ fileBuf'[e] = fileBuf[e]
  BY <1>1, <1>3, <1>t DEF TypeOK
<1> HIDE DEF d
<1>5. at'[c] = "put" /\ clnt_auth'[c] /\ here'[c] = here[c]
  BY <1>1, <1>t, RequestPlace DEF d
<1>6. Asks(c, d)'
  BY <1>2, <1>3, <1>4, <1>5, Kinds DEF Asks, Loaded
<1>7. QED
  BY <1>1, <1>2, <1>4, <1>6, RequestStep, Kinds DEF d

(* A file that fills the buffer ends the client's part in the dialogue.    *)
LEMMA PutLargeStep ==
    ASSUME IInv, NEW c \in Clients, PutLarge(c)
    PROVE  IInv'
<1>t. TypeOK
  BY DEF IInv
<1>0. /\ at[c] = "idle" /\ at' = [at EXCEPT ![c] = "upload"] /\ clnt_auth[c]
      /\ UNCHANGED <<clnt_conn, clnt_auth, name, fileBuf, server, net, here, there>>
  BY DEF PutLarge, Check_auth
<1>1. c = peer /\ Dialogue(c)
  BY <1>0 DEF IInv, NotServed
<1>2. TypeOK'
  BY <1>0, <1>t DEF TypeOK, server, net
<1>3. ByClient(c)
  BY <1>0, <1>t DEF ByClient, Same, TypeOK, net
<1>u. /\ at'[c] = "upload"
      /\ UNCHANGED <<served, auth_pass, filename, servBuf, clnt_auth, link,
                     name, fileBuf, toClient, toServer, here, there>>
  BY <1>0, <1>t DEF TypeOK, server, net
<1>4. Rest(c) \/ Storing(c) \/ Over(c)
  BY <1>0, <1>1, Kinds DEF Dialogue, Asked, Asks, Replied, Fits, Sent, Both, Sending, Lost
<1>5. /\ Rest(c) => Rest(c)'
      /\ Over(c) => Over(c)'
  BY <1>0, <1>u, Kinds DEF Rest, Over, Resting, Agree, Fits, Both
<1>6. Storing(c) => Storing(c)'
  BY <1>0, <1>u, Kinds DEF Storing, Resting, Asks, InSocket
<1>7. Dialogue(c)'
  <2>1. Rest(c)' \/ Storing(c)' \/ Over(c)'
    BY <1>4, <1>5, <1>6
  <2>2. QED
    BY <1>0, <1>1, <1>u, <2>1 DEF Dialogue
<1>8. QED
  BY <1>1, <1>2, <1>3, <1>7, ClientStep

-----------------------------------------------------------------------------
(* Processes that end, and replies.                                        *)

(* The end of a client's process.                                          *)
LEMMA LeaveFacts ==
    ASSUME TypeOK, NEW c \in Clients, Leave(c)
    PROVE  /\ at'[c] = "gone" /\ link'[c] = "closed"
           /\ \A d \in Clients \ {c} : at'[d] = at[d] /\ link'[d] = link[d]
           /\ at' \in [Clients -> Waiting \cup {"idle", "gone", "upload", "spin"}]
           /\ link' \in [Clients -> {"none", "queued", "accepted", "fin",
                                     "reset", "closed"}]
  BY DEF TypeOK, Leave

(* Back to the prompt, or the end.                                         *)
LEMMA PromptFacts ==
    ASSUME TypeOK, NEW c \in Clients, Prompt(c)
    PROVE  /\ at'[c] \in {"idle", "gone"}
           /\ link'[c] = IF at'[c] = "gone" THEN "closed" ELSE link[c]
           /\ \A d \in Clients \ {c} : at'[d] = at[d] /\ link'[d] = link[d]
           /\ at' \in [Clients -> Waiting \cup {"idle", "gone", "upload", "spin"}]
           /\ link' \in [Clients -> {"none", "queued", "accepted", "fin",
                                     "reset", "closed"}]
<1>1. CASE at' = [at EXCEPT ![c] = "idle"] /\ UNCHANGED link
  BY <1>1 DEF TypeOK
<1>2. CASE Leave(c)
  BY <1>2, LeaveFacts
<1>3. QED
  BY <1>1, <1>2 DEF Prompt

(* A client that ends without a connection that works.                     *)
LEMMA GoneStep ==
    ASSUME IInv, NEW c \in Clients, at[c] = "idle", link[c] \in {"none", "reset"},
           Leave(c), UNCHANGED <<clnt_conn, clnt_auth, name, fileBuf, toServer,
                                 toClient, server, here, there>>
    PROVE  IInv'
<1>t. TypeOK
  BY DEF IInv
<1>1. TypeOK'
  BY <1>t, LeaveFacts DEF TypeOK, server
<1>2. ByClient(c)
  BY <1>t, LeaveFacts DEF ByClient, Same
<1>3. CASE c # peer
  <2>1. NotServed(c)'
    BY <1>3, <1>t, LeaveFacts DEF IInv, NotServed
  <2>2. QED
    BY <1>1, <1>2, <1>3, <2>1, ClientStep
<1>4. CASE c = peer
  <2>1. served = "gone" /\ Over(c)
    BY <1>4, Kinds DEF IInv, Dialogue, Rest, Asked, Replied, Sent, Sending,
       Storing, Lost, Idles
  <2>2. toClient[c] = <<>>
    BY <2>1, Kinds DEF Over, Fits, Both
  <2>3. Over(c)' /\ served' = "gone"
    BY <2>1, <2>2 DEF Over, server
  <2>4. Dialogue(c)'
    BY <1>t, <2>3, LeaveFacts DEF Dialogue
  <2>5. QED
    BY <1>1, <1>2, <1>4, <2>4, ClientStep
<1>5. QED
  BY <1>3, <1>4

(* The stream to a client is empty, or it is the peer and waits.           *)
LEMMA ReplyOfPeer ==
    ASSUME IInv, NEW c \in Clients, toClient[c] # <<>>
    PROVE  c = peer /\ Dialogue(c) /\ at[c] \in Waiting /\ link[c] # "closed"
<1>1. c = peer /\ Dialogue(c)
  BY DEF IInv, NotServed
<1>2. Replied(c) \/ Sent(c) \/ Sending(c) \/ Storing(c) \/ Over(c)
  BY <1>1 DEF Dialogue, Rest, Asked, Lost
<1>3. at[c] \in Waiting
  BY <1>2, Kinds DEF Replied, Fits, Sent, Both, Sending, Storing, Over
<1>4. QED
  BY <1>1, <1>3, Kinds DEF Dialogue

(* A single reply is the first and leaves nothing.                         *)
LEMMA LastReply ==
    ASSUME TypeOK, NEW c \in Clients, Len(toClient[c]) = 1
    PROVE  /\ toClient[c] # <<>>
           /\ Head(toClient[c]) = toClient[c][1]
           /\ Tail(toClient[c]) = <<>>
<1>1. toClient[c] \in Seq(Dgrams)
  BY DEF TypeOK
<1>2. toClient[c] # <<>> /\ Len(Tail(toClient[c])) = 0
  BY <1>1, Streams
<1>3. QED
  BY <1>1, <1>2, Streams

(* A reply that ends a command.                                            *)
LEMMA Concluded ==
    ASSUME IInv, NEW c \in Clients, toClient[c] # <<>>,
           at[c] \notin {"put"},
           at[c] = "get" => Head(toClient[c]).status = 0,
           UNCHANGED <<server, there>>, toServer'[c] = toServer[c],
           toClient'[c] = Tail(toClient[c]), at'[c] \in {"idle", "gone"},
           link'[c] = IF at'[c] = "gone" THEN "closed" ELSE link[c],
           Replied(c) /\ at'[c] # "gone" => Agree(c)'
    PROVE  Dialogue(c)'
<1>t. TypeOK
  BY DEF IInv
<1>s. toClient[c] \in Seq(Dgrams)
  BY <1>t DEF TypeOK
<1>1. c = peer /\ Dialogue(c) /\ at[c] \in Waiting /\ link[c] # "closed"
  BY ReplyOfPeer
<1>u. UNCHANGED <<served, auth_pass>>
  BY DEF server
<1>2. ~Both(c) /\ ~Sending(c) /\ ~Storing(c)
  <2>1. Head(toClient[c]) = toClient[c][1]
    BY <1>s, Streams
  <2>2. ~Both(c) /\ ~Sending(c)
    BY <2>1 DEF Both, Sending
  <2>3. ~Storing(c)
    BY DEF Storing
  <2>4. QED
    BY <2>2, <2>3
<1>3. Replied(c) \/ Over(c)
  BY <1>1, <1>2 DEF Dialogue, Rest, Asked, Sent, Lost
<1>4. Len(toClient[c]) = 1
  BY <1>2, <1>3 DEF Replied, Over
<1>5. toClient'[c] = <<>>
  BY <1>4, <1>t, LastReply
<1>6. Replied(c) => Rest(c)'
  BY <1>1, <1>5, <1>u DEF Replied, Rest, Resting
<1>7. Over(c) => Over(c)'
  BY <1>5, <1>u DEF Over
<1>8. Rest(c)' \/ Over(c)'
  BY <1>3, <1>6, <1>7
<1>9. /\ link'[c] = "closed" <=> at'[c] = "gone"
      /\ served' # "gone" => link'[c] \in {"accepted", "closed"}
      /\ served' = "gone" => link'[c] \in {"fin", "reset", "closed"}
  BY <1>1, <1>u DEF Dialogue
<1>10. QED
  BY <1>8, <1>9 DEF Dialogue

(* A reply leaves the stream.                                              *)
LEMMA ReceivedFacts ==
    ASSUME TypeOK, NEW c \in Clients, Received(c), toClient[c] # <<>>
    PROVE  /\ toClient' \in [Clients -> Seq(Dgrams)]
           /\ toClient'[c] = Tail(toClient[c])
           /\ \A d \in Clients \ {c} : toClient'[d] = toClient[d]
           /\ UNCHANGED <<name, fileBuf, server, there>>
           /\ Head(toClient[c]) = toClient[c][1] /\ toClient[c][1] \in Dgrams
<1>1. toClient[c] \in Seq(Dgrams)
  BY DEF TypeOK
<1>2. /\ Tail(toClient[c]) \in Seq(Dgrams)
      /\ Head(toClient[c]) = toClient[c][1] /\ toClient[c][1] \in Dgrams
  BY <1>1, Streams
<1>3. QED
  BY <1>2 DEF TypeOK, Received

(* The client is logged out; the server will be at the end of initConn.    *)
LEMMA OpenReplyStep ==
    ASSUME IInv, NEW c \in Clients, OpenReply(c)
    PROVE  IInv'
<1>t. TypeOK
  BY DEF IInv
<1>0. /\ at[c] = "open" /\ toClient[c] # <<>> /\ Received(c) /\ connSucess(c)
      /\ Prompt(c) /\ UNCHANGED <<toServer, here>>
  BY DEF OpenReply, Incoming
<1>1. c = peer
  BY <1>0, ReplyOfPeer
<1>2. TypeOK'
  BY <1>0, <1>t, PromptFacts, ReceivedFacts DEF TypeOK, connSucess, server
<1>3. ByClient(c)
  BY <1>0, <1>t, PromptFacts, ReceivedFacts DEF ByClient, Same, connSucess, TypeOK
<1>4. Replied(c) => Agree(c)'
  <2>1. clnt_auth'[c] = FALSE /\ UNCHANGED <<served, auth_pass>>
    BY <1>0, <1>t, ReceivedFacts DEF TypeOK, connSucess, server
  <2>2. auth_pass \in BOOLEAN
    BY <1>t DEF TypeOK
  <2>3. Replied(c) => served = "initConn" \/ auth_pass = FALSE
    BY <1>0, <2>2 DEF Replied, ReplyFlags
  <2>4. QED
    BY <2>1, <2>3 DEF Agree
<1>5. Dialogue(c)'
  BY <1>0, <1>4, <1>t, PromptFacts, ReceivedFacts, Concluded
<1>6. QED
  BY <1>1, <1>2, <1>3, <1>5, ClientStep

(* The status is what the server set auth_pass to.                         *)
LEMMA AuthReplyStep ==
    ASSUME IInv, NEW c \in Clients, AuthReply(c)
    PROVE  IInv'
<1>t. TypeOK
  BY DEF IInv
<1> DEFINE d == Head(toClient[c])
           granted == d.type = "AUTH_REPLY" /\ d.status = 1
<1>0. /\ at[c] = "auth" /\ toClient[c] # <<>> /\ Received(c)
      /\ clnt_conn' = [clnt_conn EXCEPT ![c] = granted]
      /\ clnt_auth' = [clnt_auth EXCEPT ![c] = granted]
      /\ IF granted THEN Prompt(c) ELSE Leave(c)
      /\ UNCHANGED <<toServer, here>>
  BY DEF AuthReply, Incoming
<1>1. c = peer
  BY <1>0, ReplyOfPeer
<1>b. granted \in BOOLEAN
  OBVIOUS
<1>f. /\ at'[c] \in {"idle", "gone"} /\ (~granted => at'[c] = "gone")
      /\ link'[c] = IF at'[c] = "gone" THEN "closed" ELSE link[c]
      /\ \A e \in Clients \ {c} : at'[e] = at[e] /\ link'[e] = link[e]
      /\ at' \in [Clients -> Waiting \cup {"idle", "gone", "upload", "spin"}]
      /\ link' \in [Clients -> {"none", "queued", "accepted", "fin",
                                "reset", "closed"}]
  BY <1>0, <1>t, PromptFacts, LeaveFacts
<1>2. TypeOK'
  <2>1. clnt_conn' \in [Clients -> BOOLEAN] /\ clnt_auth' \in [Clients -> BOOLEAN]
    BY <1>0, <1>b, <1>t DEF TypeOK
  <2>2. QED
    BY <1>0, <1>f, <1>t, <2>1, ReceivedFacts DEF TypeOK, server
<1>3. ByClient(c)
  <2>1. \A e \in Clients \ {c} : clnt_auth'[e] = clnt_auth[e]
    BY <1>0, <1>t DEF TypeOK
  <2>2. QED
    BY <1>0, <1>f, <1>t, <2>1, ReceivedFacts DEF ByClient, Same
<1>4. Replied(c) /\ at'[c] # "gone" => Agree(c)'
  <2>1. clnt_auth'[c] = granted /\ UNCHANGED <<served, auth_pass>>
    BY <1>0, <1>t, ReceivedFacts DEF TypeOK, server
  <2>2. at'[c] # "gone" => granted
    BY <1>f
  <2>3. d = toClient[c][1]
    BY <1>0, <1>t, ReceivedFacts
  <2>4. Replied(c) /\ granted => auth_pass /\ served # "initConn"
    BY <1>0, <2>3 DEF Replied, ReplyFlags
  <2>5. granted => clnt_auth'[c] = TRUE
    BY <2>1
  <2>6. auth_pass \in BOOLEAN
    BY <1>t DEF TypeOK
  <2> HIDE DEF granted
  <2>7. QED
    BY <2>1, <2>2, <2>4, <2>5, <2>6 DEF Agree
<1>5. Dialogue(c)'
  BY <1>0, <1>4, <1>f, <1>t, ReceivedFacts, Concluded
<1>6. QED
  BY <1>1, <1>2, <1>3, <1>5, ClientStep

(* The listing ends the command.                                           *)
LEMMA LsReplyStep ==
    ASSUME IInv, NEW c \in Clients, LsReply(c)
    PROVE  IInv'
<1>t. TypeOK
  BY DEF IInv
<1>0. /\ at[c] = "ls" /\ toClient[c] # <<>> /\ Received(c)
      /\ at' = [at EXCEPT ![c] = "idle"]
      /\ UNCHANGED <<clnt_conn, clnt_auth, link, toServer, here>>
  BY DEF LsReply, Incoming
<1>f. at'[c] = "idle" /\ \A e \in Clients \ {c} : at'[e] = at[e]
  BY <1>0, <1>t DEF TypeOK
<1>1. c = peer
  BY <1>0, ReplyOfPeer
<1>2. TypeOK'
  BY <1>0, <1>t, ReceivedFacts DEF TypeOK, server
<1>3. ByClient(c)
  BY <1>0, <1>f, <1>t, ReceivedFacts DEF ByClient, Same
<1>4. Replied(c) => Agree(c)'
  BY <1>0, <1>t, ReceivedFacts DEF Replied, ReplyFlags, Agree, server
<1>5. Dialogue(c)'
  BY <1>0, <1>4, <1>f, <1>t, ReceivedFacts, Concluded
<1>6. QED
  BY <1>1, <1>2, <1>3, <1>5, ClientStep

(* The client ends.                                                        *)
LEMMA QuitReplyStep ==
    ASSUME IInv, NEW c \in Clients, QuitReply(c)
    PROVE  IInv'
<1>t. TypeOK
  BY DEF IInv
<1>0. /\ at[c] = "quit" /\ toClient[c] # <<>> /\ Received(c) /\ Leave(c)
      /\ UNCHANGED <<clnt_conn, clnt_auth, toServer, here>>
  BY DEF QuitReply, Incoming
<1>1. c = peer
  BY <1>0, ReplyOfPeer
<1>2. TypeOK'
  BY <1>0, <1>t, ReceivedFacts, LeaveFacts DEF TypeOK, server
<1>3. ByClient(c)
  BY <1>0, <1>t, ReceivedFacts, LeaveFacts DEF ByClient, Same
<1>4. Dialogue(c)'
  BY <1>0, <1>t, ReceivedFacts, LeaveFacts, Concluded
<1>5. QED
  BY <1>1, <1>2, <1>3, <1>4, ClientStep

(* A status other than 0 comes only from a server that sends the file.     *)
LEMMA GetReplyStep ==
    ASSUME IInv, NEW c \in Clients, GetReply(c)
    PROVE  IInv'
<1>t. TypeOK
  BY DEF IInv
<1>0. /\ at[c] = "get" /\ toClient[c] # <<>> /\ Received(c)
      /\ IF Head(toClient[c]).status = 0 THEN Prompt(c)
         ELSE at' = [at EXCEPT ![c] = "getFile"] /\ UNCHANGED link
      /\ UNCHANGED <<clnt_conn, clnt_auth, toServer, here>>
  BY DEF GetReply, Incoming
<1>1. c = peer /\ Dialogue(c) /\ link[c] # "closed"
  BY <1>0, ReplyOfPeer
<1>s. toClient[c] \in Seq(Dgrams)
  BY <1>t DEF TypeOK
<1>u. /\ UNCHANGED <<served, auth_pass, filename, servBuf, there>>
      /\ toClient'[c] = Tail(toClient[c]) /\ name'[c] = name[c]
      /\ Head(toClient[c]) = toClient[c][1]
  BY <1>0, <1>t, ReceivedFacts DEF server
<1>2. CASE Head(toClient[c]).status = 0
  <2>1. TypeOK'
    BY <1>0, <1>2, <1>t, PromptFacts, ReceivedFacts DEF TypeOK, server
  <2>2. ByClient(c)
    BY <1>0, <1>2, <1>t, PromptFacts, ReceivedFacts DEF ByClient, Same
  <2>3. Replied(c) => Agree(c)'
    BY <1>0, <1>u DEF Replied, ReplyFlags, Agree
  <2>4. Dialogue(c)'
    BY <1>0, <1>2, <1>t, <2>3, PromptFacts, ReceivedFacts, Concluded
  <2>5. QED
    BY <1>1, <2>1, <2>2, <2>4, ClientStep
<1>3. CASE Head(toClient[c]).status # 0
  <2>0. /\ at' = [at EXCEPT ![c] = "getFile"] /\ UNCHANGED link
        /\ at'[c] = "getFile" /\ "getFile" \in Waiting
    BY <1>0, <1>3, <1>t, Kinds DEF TypeOK
  <2>1. TypeOK'
    BY <1>0, <1>t, <2>0, ReceivedFacts DEF TypeOK, server
  <2>2. ByClient(c)
    BY <1>0, <1>t, <2>0, ReceivedFacts DEF ByClient, Same, TypeOK
  <2>3. Sent(c) \/ Sending(c) \/ (Over(c) /\ Both(c))
    BY <1>0, <1>1, <1>3, <1>u, Kinds DEF Dialogue, Rest, Asked, Replied, Fits,
       Storing, Resting, Lost, Over
  <2>4. ASSUME Both(c)
        PROVE  /\ Len(toClient'[c]) = 1 /\ Fits(c, toClient[c][1])'
               /\ IsFile(c, toClient[c][2])
    <3>1. Len(toClient'[c]) = 1 /\ toClient'[c][1] = toClient[c][2]
      BY <1>0, <1>s, <1>u, <2>4, Streams DEF Both
    <3>2. IsFile(c, toClient[c][2])
      BY <2>4 DEF Both
    <3>3. ReplyTo["getFile"] = "FILE_DATA"
      BY DEF ReplyTo
    <3>4. Fits(c, toClient[c][1])'
      BY <1>u, <2>0, <3>1, <3>2, <3>3 DEF Fits, IsFile
    <3>5. QED
      BY <3>1, <3>2, <3>4
  <2>5. Sent(c) => Replied(c)'
    <3>1. ASSUME Sent(c)
          PROVE  ReplyFlags(c, toClient[c][1])'
      BY <1>0, <1>u, <2>0, <2>4, <3>1 DEF Sent, ReplyFlags, IsFile, Idles
    <3>2. QED
      BY <1>0, <1>u, <2>4, <3>1 DEF Sent, Replied
  <2>6. Sending(c) => Sending(c)'
    <3>1. ASSUME Sending(c)
          PROVE  toClient'[c] = <<>>
      BY <1>0, <1>t, <1>u, <3>1, LastReply DEF Sending
    <3>2. QED
      BY <1>0, <1>u, <2>0, <3>1 DEF Sending
  <2>7. Over(c) /\ Both(c) => Over(c)'
    BY <1>u, <2>4 DEF Over
  <2>8. Replied(c)' \/ Sending(c)' \/ Over(c)'
    BY <2>3, <2>5, <2>6, <2>7
  <2>9. Dialogue(c)'
    BY <1>0, <1>1, <1>u, <2>0, <2>8 DEF Dialogue
  <2>10. QED
    BY <1>1, <2>1, <2>2, <2>9, ClientStep
<1>4. QED
  BY <1>2, <1>3

(* What is downloaded is what the server has under that name, and the      *)
(* server has accepted the login.                                          *)
LEMMA FileArrives ==
    ASSUME IInv, NEW c \in Clients, at[c] = "getFile", toClient[c] # <<>>
    PROVE  c = peer /\ IsFile(c, Head(toClient[c]))
<1>t. TypeOK
  BY DEF IInv
<1>1. c = peer /\ Dialogue(c)
  BY ReplyOfPeer
<1>2. Replied(c) \/ Over(c)
  BY <1>1, Kinds DEF Dialogue, Rest, Asked, Sent, Both, Sending, Storing, Resting,
     Lost
<1>3. Fits(c, toClient[c][1])
  BY <1>2 DEF Replied, Over, Both
<1>4. Head(toClient[c]) = toClient[c][1]
  <2>1. toClient[c] \in Seq(Dgrams)
    BY <1>t DEF TypeOK
  <2>2. QED
    BY <2>1, Streams
<1>5. QED
  BY <1>1, <1>3, <1>4 DEF Fits

(* The download ends the command.                                          *)
LEMMA DownloadStep ==
    ASSUME IInv, NEW c \in Clients, Download(c)
    PROVE  IInv'
<1>t. TypeOK
  BY DEF IInv
<1>0. /\ at[c] = "getFile" /\ toClient[c] # <<>> /\ Received(c)
      /\ here' = [here EXCEPT ![c] =
            [@ EXCEPT ![name[c]] = Head(toClient[c]).payload]]
      /\ Prompt(c)
      /\ UNCHANGED <<clnt_conn, clnt_auth, toServer>>
  BY DEF Download, Incoming
<1>1. c = peer /\ IsFile(c, Head(toClient[c]))
  BY <1>0, FileArrives
<1>2. /\ here' \in [Clients -> Files]
      /\ \A e \in Clients \ {c} : here'[e] = here[e]
  BY <1>0, <1>1, <1>t DEF TypeOK, Files, IsFile
<1>3. TypeOK'
  BY <1>0, <1>2, <1>t, PromptFacts, ReceivedFacts DEF TypeOK, server
<1>4. ByClient(c)
  BY <1>0, <1>2, <1>t, PromptFacts, ReceivedFacts DEF ByClient, Same
<1>5. Replied(c) => Agree(c)'
  BY <1>0, <1>t, ReceivedFacts DEF Replied, ReplyFlags, Agree, server
<1>6. Dialogue(c)'
  BY <1>0, <1>5, <1>t, PromptFacts, ReceivedFacts, Concluded
<1>7. QED
  BY <1>1, <1>3, <1>4, <1>6, ClientStep

(* The reply to a put finds the server waiting for the file.               *)
LEMMA PutReplyStep ==
    ASSUME IInv, NEW c \in Clients, PutReply(c)
    PROVE  IInv'
<1>t. TypeOK
  BY DEF IInv
<1> DEFINE d == Dgram("FILE_DATA", 0, fileBuf[c])
<1>0. /\ at[c] = "put" /\ toClient[c] # <<>> /\ Received(c) /\ Prompt(c)
      /\ toServer' = [toServer EXCEPT ![c] = Append(@, d)]
      /\ UNCHANGED <<clnt_conn, clnt_auth, here>>
  BY DEF PutReply, Incoming
<1>1. c = peer /\ Dialogue(c) /\ link[c] # "closed"
  BY <1>0, ReplyOfPeer
<1>d. d \in Dgrams /\ d.type = "FILE_DATA" /\ d.payload = fileBuf[c]
  <2>1. fileBuf[c] \in {None} \cup Contents
    BY <1>t DEF TypeOK
  <2>2. "FILE_DATA" = ReplyTo["getFile"]
    BY DEF ReplyTo
  <2>3. QED
    BY <2>1, <2>2, Kinds DEF Dgram
<1> HIDE DEF d
<1>s. toServer[c] \in Seq(Dgrams) /\ toServer'[c] = Append(toServer[c], d)
  BY <1>0, <1>t DEF TypeOK
<1>u. /\ UNCHANGED <<served, auth_pass, filename, servBuf, there, here, clnt_auth>>
      /\ toClient'[c] = Tail(toClient[c])
      /\ name'[c] = name[c] /\ fileBuf'[c] = fileBuf[c]
  BY <1>0, <1>t, ReceivedFacts DEF server
<1>2. TypeOK'
  <2>1. toServer' \in [Clients -> Seq(Dgrams)]
    BY <1>0, <1>d, <1>s, <1>t, Appends DEF TypeOK
  <2>2. QED
    BY <1>0, <1>t, <2>1, PromptFacts, ReceivedFacts DEF TypeOK, server
<1>3. ByClient(c)
  BY <1>0, <1>t, PromptFacts, ReceivedFacts DEF ByClient, Same, TypeOK
<1>4. /\ served = "putFile" /\ auth_pass /\ filename \in Names /\ clnt_auth[c]
      /\ toServer[c] = <<>> /\ Len(toClient[c]) = 1
      /\ filename = name[c] /\ Loaded(c)
  <2>1. Storing(c)
    BY <1>0, <1>1, Kinds DEF Dialogue, Rest, Asked, Replied, Fits, Sent, Both,
       Sending, Lost, Over
  <2>2. QED
    BY <1>0, <2>1, Kinds DEF Storing, Resting
<1>5. Len(toServer'[c]) = 1 /\ toServer'[c][1] = d /\ toClient'[c] = <<>>
  BY <1>4, <1>d, <1>s, <1>t, <1>u, Streams, Appends, LastReply
<1>6. InSocket(c)'
  BY <1>4, <1>5, <1>d, <1>u DEF InSocket, Loaded
<1>7. Storing(c)'
  BY <1>0, <1>4, <1>5, <1>6, <1>t, <1>u, PromptFacts DEF Storing, Resting
<1>8. Dialogue(c)'
  BY <1>0, <1>1, <1>4, <1>7, <1>t, <1>u, PromptFacts DEF Dialogue
<1>9. QED
  BY <1>1, <1>2, <1>3, <1>8, ClientStep

(* A connection is reset only when the server has gone.                    *)
LEMMA ReadErrorStep ==
    ASSUME IInv, NEW c \in Clients, ReadError(c)
    PROVE  IInv'
<1>t. TypeOK
  BY DEF IInv
<1>0. /\ link[c] = "reset" /\ toClient[c] = <<>>
      /\ at[c] \in Waiting /\ at[c] # "getFile"
      /\ UNCHANGED <<name, fileBuf, toServer, toClient, server, here, there>>
  BY Kinds DEF ReadError
<1> DEFINE Placed ==
      /\ at'[c] \in {"idle", "gone", "spin"}
      /\ link'[c] = IF at'[c] = "gone" THEN "closed" ELSE link[c]
      /\ at'[c] = "spin" => at[c] # "open"
      /\ \A e \in Clients \ {c} : at'[e] = at[e] /\ link'[e] = link[e]
      /\ at' \in [Clients -> Waiting \cup {"idle", "gone", "upload", "spin"}]
      /\ link' \in [Clients -> {"none", "queued", "accepted", "fin",
                                "reset", "closed"}]
<1>1. Placed
  <2>1. ASSUME /\ at[c] \in {"auth", "get", "put"}
               /\ at' = [at EXCEPT ![c] = "spin"] /\ UNCHANGED link
        PROVE  Placed
    BY <1>t, <2>1 DEF TypeOK
  <2>2. Prompt(c) => Placed
    BY <1>t, PromptFacts
  <2>3. Leave(c) => Placed
    BY <1>t, LeaveFacts
  <2> HIDE DEF Placed
  <2>4. QED
    BY <2>1, <2>2, <2>3 DEF ReadError
<1>2. /\ clnt_conn' \in [Clients -> BOOLEAN] /\ clnt_auth' \in [Clients -> BOOLEAN]
      /\ \A e \in Clients \ {c} : clnt_auth'[e] = clnt_auth[e]
      /\ ~clnt_auth[c] => ~clnt_auth'[c]
  BY <1>t DEF TypeOK, ReadError, connSucess
<1>3. TypeOK'
  BY <1>0, <1>1, <1>2, <1>t DEF TypeOK, server
<1>4. ByClient(c)
  BY <1>0, <1>1, <1>2 DEF ByClient, Same
<1>5. CASE c # peer
  <2>1. NotServed(c) /\ at[c] = "open" /\ served = "gone"
    BY <1>0, <1>5, Kinds DEF IInv, NotServed
  <2>2. NotServed(c)'
    BY <1>0, <1>1, <1>2, <2>1 DEF NotServed, server
  <2>3. QED
    BY <1>3, <1>4, <1>5, <2>2, ClientStep
<1>6. CASE c = peer
  <2>1. served = "gone" /\ served' = "gone"
    BY <1>0, <1>6 DEF IInv, Dialogue, server
  <2>2. Over(c)'
    BY <1>0, <2>1 DEF Over
  <2>3. Dialogue(c)'
    BY <1>0, <1>1, <2>1, <2>2 DEF Dialogue
  <2>4. QED
    BY <1>3, <1>4, <1>6, <2>3, ClientStep
<1>7. QED
  BY <1>5, <1>6

(* All steps of a client.                                                  *)
LEMMA ClientInv ==
    ASSUME IInv, NEW c \in Clients, Command(c) \/ BrokenPipe(c) \/ Reply(c)
    PROVE  IInv'
<1>1. CASE Connect(c) \/ Get(c) \/ Put(c) \/ PutLarge(c)
  BY <1>1, ConnectStep, GetStep, PutStep, PutLargeStep
<1>2. CASE Reopen(c) \/ Auth(c) \/ Ls(c)
  BY <1>2, PlainStep DEF Reopen, Auth, Ls, Check_auth
<1>3. CASE Quit(c) \/ BrokenPipe(c)
  BY <1>3, PlainStep, GoneStep DEF Quit, BrokenPipe
<1>4. CASE Reply(c)
  BY <1>4, OpenReplyStep, AuthReplyStep, LsReplyStep, QuitReplyStep, GetReplyStep,
     DownloadStep, PutReplyStep, ReadErrorStep DEF Reply
<1>5. QED
  BY <1>1, <1>2, <1>3, <1>4 DEF Command

-----------------------------------------------------------------------------
(* The server.                                                             *)

(* From accept on there is a peer.                                         *)
LEMMA PeerFacts ==
    ASSUME IInv, served \notin {"off", "accept"}
    PROVE  \E c \in Clients : c = peer /\ Dialogue(c)
  BY DEF IInv, TypeOK

(* Nobody is connected yet.                                                *)
LEMMA ListenStep ==
    ASSUME IInv, Listen
    PROVE  IInv'
<1>t. TypeOK
  BY DEF IInv
<1>0. /\ served = "off" /\ served' = "accept"
      /\ UNCHANGED <<client, peer, auth_pass, waitTimes, filename, servBuf,
                     net, here, there>>
  BY DEF Listen
<1>1. TypeOK'
  BY <1>0, <1>t DEF TypeOK, client, net
<1>2. \A c \in Clients : c # peer /\ NotServed(c)
  BY <1>0, SessionAssumption DEF IInv
<1>3. \A c \in Clients : Same(c)
  BY <1>0 DEF Same, client, net
<1>4. \A c \in Clients : NotServed(c)'
  BY <1>0, <1>2, <1>3, AloneKept
<1>5. QED
  BY <1>0, <1>1, <1>2, <1>4 DEF IInv

(* A client in the queue has asked for its connection and nothing else.    *)
LEMMA AcceptStep ==
    ASSUME IInv, Accept
    PROVE  IInv'
<1>t. TypeOK
  BY DEF IInv
<1>0. PICK c \in Clients : /\ link[c] = "queued"
                           /\ link' = [link EXCEPT ![c] = "accepted"]
                           /\ peer' = c
  BY DEF Accept
<1>u. /\ served = "accept" /\ served' = "loop"
      /\ UNCHANGED <<client, auth_pass, waitTimes, filename, servBuf,
                     toServer, toClient, here, there>>
  BY DEF Accept
<1>1. TypeOK'
  BY <1>0, <1>t, <1>u DEF TypeOK, client
<1>2. ~auth_pass /\ waitTimes # 0 /\ \A d \in Clients : NotServed(d)
  BY <1>u, SessionAssumption DEF IInv
<1>3. \A d \in Clients \ {c} : NotServed(d)'
  <2>1. \A d \in Clients \ {c} : Same(d)
    BY <1>0, <1>t, <1>u DEF Same, client, TypeOK
  <2>2. QED
    BY <1>2, <1>u, <2>1, AloneKept
<1>4. Dialogue(c)'
  <2>1. /\ at[c] = "open" /\ Len(toServer[c]) = 1 /\ ~clnt_auth[c]
        /\ toServer[c][1].type = "OPEN_CONN_REQUEST" /\ toClient[c] = <<>>
    BY <1>0, <1>2 DEF NotServed
  <2>2. link'[c] = "accepted"
    BY <1>0, <1>t DEF TypeOK
  <2>3. auth_pass' = clnt_auth'[c]
    BY <1>2, <1>t, <1>u, <2>1 DEF TypeOK, client
  <2>4. RequestAt["open"] = "OPEN_CONN_REQUEST"
    BY DEF RequestAt
  <2>5. Asked(c)'
    BY <1>u, <2>1, <2>3, <2>4, Kinds DEF Asked, Asks, Agree, Idles, client
  <2>6. QED
    BY <1>u, <2>1, <2>2, <2>5 DEF Dialogue, client
<1>5. c # None
  BY SessionAssumption
<1>6. QED
  BY <1>0, <1>1, <1>2, <1>3, <1>4, <1>5, <1>u DEF IInv

(* From one place where a request is expected to another.                  *)
LEMMA IdleStep ==
    ASSUME IInv, served \in Idles, served' \in Idles, waitTimes' \in Nat,
           waitTimes' <= waitTimes, waitTimes' = 0 => served' = "closing",
           UNCHANGED <<client, peer, auth_pass, filename, servBuf, net, here, there>>
    PROVE  IInv'
<1>t. TypeOK
  BY DEF IInv
<1>1. PICK c \in Clients : c = peer /\ Dialogue(c)
  BY PeerFacts DEF Idles
<1>2. TypeOK'
  <2>1. served' \in {"loop", "read", "free", "closing"}
    BY DEF Idles
  <2>2. waitTimes' \in 0 .. WaitTimesLim
    BY <1>t, SessionAssumption DEF TypeOK
  <2>3. QED
    BY <1>t, <2>1, <2>2 DEF TypeOK, client, net
<1>3. ByServer
  BY DEF ByServer, Idles, Same, client, net
<1>4. Rest(c) \/ Asked(c) \/ Replied(c) \/ Sent(c)
  BY <1>1 DEF Dialogue, Sending, Storing, Lost, Over, Idles
<1>5. /\ Rest(c) => Rest(c)'
      /\ Asked(c) => Asked(c)'
      /\ Replied(c) => Replied(c)'
      /\ Sent(c) => Sent(c)'
  BY DEF Rest, Asked, Replied, Sent, Resting, Agree, Asks, Loaded, Fits, ReplyFlags,
     Both, IsFile, Idles, client, net
<1>6. Dialogue(c)'
  BY <1>1, <1>4, <1>5 DEF Dialogue, Idles, client, net
<1>7. QED
  BY <1>1, <1>2, <1>3, <1>6, ServerStep

(* waitTimes was not 0.                                                    *)
LEMMA LoopTopStep ==
    ASSUME IInv, LoopTop
    PROVE  IInv'
<1>1. waitTimes \in Nat \ {0}
  BY SessionAssumption DEF IInv, TypeOK, LoopTop
<1>2. QED
  BY <1>1, IdleStep DEF LoopTop, Idles

(* Whoever is still in the queue is reset: its request was not read.       *)
LEMMA CloseStep ==
    ASSUME IInv, served \in {"closing", "free"}, Close
    PROVE  IInv'
<1>t. TypeOK
  BY DEF IInv
<1>1. PICK c \in Clients : c = peer /\ Dialogue(c)
  BY PeerFacts
<1>u. /\ served' = "gone"
      /\ UNCHANGED <<client, peer, auth_pass, waitTimes, filename, servBuf,
                     toServer, toClient, here, there>>
  BY DEF Close
<1>2. \A d \in Clients :
         link'[d] = IF link[d] \notin {"queued", "accepted"} THEN link[d]
                    ELSE IF toServer[d] = <<>> THEN "fin" ELSE "reset"
  BY DEF Close
<1>3. TypeOK'
  <2>1. link' \in [Clients -> {"none", "queued", "accepted", "fin",
                               "reset", "closed"}]
    BY <1>t DEF TypeOK, Close
  <2>2. QED
    BY <1>t, <1>u, <2>1 DEF TypeOK, client
<1>4. ASSUME NEW d \in Clients \ {c}
      PROVE  NotServed(d)'
  <2>1. NotServed(d)
    BY <1>1, <1>4 DEF IInv
  <2>2. link[d] = "queued" => toServer[d] # <<>>
    <3>1. toServer[d] \in Seq(Dgrams)
      BY <1>t DEF TypeOK
    <3>2. QED
      BY <2>1, <3>1, Streams DEF NotServed
  <2>3. QED
    BY <1>2, <1>u, <2>1, <2>2 DEF NotServed, client
<1>5. Dialogue(c)'
  <2>1. Rest(c) \/ Asked(c) \/ Replied(c) \/ Sent(c)
    BY <1>1 DEF Dialogue, Sending, Storing, Lost, Over
  <2>2. \/ toClient[c] = <<>>
        \/ Len(toClient[c]) = 1 /\ Fits(c, toClient[c][1])
        \/ Both(c)
    BY <2>1 DEF Rest, Asked, Replied, Sent
  <2>3. Over(c)'
    BY <1>u, <2>2 DEF Over, Fits, Both, IsFile, client
  <2>4. QED
    BY <1>1, <1>2, <1>u, <2>3 DEF Dialogue, client
<1>6. QED
  BY <1>1, <1>3, <1>4, <1>5, <1>u DEF IInv

(* The delete at the end of the loop.                                      *)
LEMMA FreeRequestStep ==
    ASSUME IInv, FreeRequest
    PROVE  IInv'
<1>1. CASE /\ served' = "loop"
           /\ UNCHANGED <<client, peer, auth_pass, waitTimes, filename, servBuf,
                          net, here, there>>
  <2>1. waitTimes \in Nat \ {0}
    BY SessionAssumption DEF IInv, TypeOK, FreeRequest
  <2>2. QED
    BY <1>1, <2>1, IdleStep DEF FreeRequest, Idles
<1>2. CASE Close
  BY <1>2, CloseStep DEF FreeRequest
<1>3. QED
  BY <1>1, <1>2 DEF FreeRequest

-----------------------------------------------------------------------------
(* Requests that are served.                                               *)

(* What the server reads as a request is the request its peer waits for.   *)
LEMMA ReadsRequest ==
    ASSUME IInv, served = "read", toServer[peer] # <<>>, NEW c \in Clients, c = peer
    PROVE  /\ Asks(c, Head(toServer[c])) /\ Head(toServer[c]) \in Dgrams
           /\ Tail(toServer[c]) = <<>> /\ toClient[c] = <<>>
           /\ auth_pass = clnt_auth[c]
           /\ link[c] = "accepted" /\ at[c] # "gone"
<1>s. toServer[c] \in Seq(Dgrams)
  BY DEF IInv, TypeOK
<1>1. Dialogue(c)
  BY DEF IInv
<1>2. Asked(c)
  BY <1>1 DEF Dialogue, Rest, Replied, Sent, Sending, Storing, Lost, Over
<1>3. /\ Head(toServer[c]) = toServer[c][1] /\ toServer[c][1] \in Dgrams
      /\ Tail(toServer[c]) \in Seq(Dgrams) /\ Len(Tail(toServer[c])) = 0
  BY <1>2, <1>s, Streams DEF Asked
<1>4. Tail(toServer[c]) = <<>>
  BY <1>3, Streams
<1>5. at[c] # "gone"
  BY <1>2, Kinds DEF Asked, Asks
<1>6. QED
  BY <1>1, <1>2, <1>3, <1>4, <1>5 DEF Asked, Agree, Dialogue

(* The type of a request tells where its client is.                        *)
LEMMA WhichRequest ==
    \A w \in DOMAIN RequestAt :
        /\ RequestAt[w] = "OPEN_CONN_REQUEST" => w = "open"
        /\ RequestAt[w] = "AUTH_REQUEST" => w = "auth"
        /\ RequestAt[w] = "LIST_REQUEST" => w = "ls"
        /\ RequestAt[w] = "QUIT_REQUEST" => w = "quit"
        /\ RequestAt[w] = "GET_REQUEST" => w = "get"
        /\ RequestAt[w] = "PUT_REQUEST" => w = "put"
  BY DEF RequestAt

(* A branch of the loop takes the request and writes its replies.          *)
LEMMA AnswerFacts ==
    ASSUME TypeOK, NEW c \in Clients, c = peer, toServer[c] # <<>>,
           NEW replies \in Seq(Dgrams), NEW next, Answer(replies, next)
    PROVE  /\ toServer' \in [Clients -> Seq(Dgrams)]
           /\ toClient' \in [Clients -> Seq(Dgrams)]
           /\ toServer'[c] = Tail(toServer[c])
           /\ toClient'[c] = toClient[c] \o replies
           /\ served' = next /\ peer' = peer
           /\ UNCHANGED <<client, waitTimes, link, here, there>>
           /\ UNCHANGED <<at, clnt_conn, clnt_auth, name, fileBuf>>
           /\ \A d \in Clients \ {peer} : Same(d)
<1>1. toServer[c] \in Seq(Dgrams) /\ toClient[c] \in Seq(Dgrams)
  BY DEF TypeOK
<1>2. Tail(toServer[c]) \in Seq(Dgrams) /\ toClient[c] \o replies \in Seq(Dgrams)
  BY <1>1, Streams
<1>3. QED
  BY <1>2 DEF TypeOK, Answer, Same, client

(* A single reply after which the server goes on with requests.            *)
LEMMA SingleReply ==
    ASSUME IInv, served = "read", toServer[peer] # <<>>, NEW c \in Clients, c = peer,
           NEW d \in Dgrams, NEW next \in Idles \cup {"initConn"},
           Answer(<<d>>, next), auth_pass' \in BOOLEAN,
           filename' \in Names \cup {None}, servBuf' \in Contents \cup {None},
           Fits(c, d)', ReplyFlags(c, d)'
    PROVE  IInv'
<1>t. TypeOK
  BY DEF IInv
<1>f. /\ toServer' \in [Clients -> Seq(Dgrams)]
      /\ toClient' \in [Clients -> Seq(Dgrams)]
      /\ toServer'[c] = Tail(toServer[c])
      /\ toClient'[c] = toClient[c] \o <<d>>
      /\ served' = next /\ peer' = peer
      /\ UNCHANGED <<client, waitTimes, link, here, there>>
      /\ UNCHANGED <<at, clnt_conn, clnt_auth, name, fileBuf>>
      /\ \A e \in Clients \ {peer} : Same(e)
  <2>1. <<d>> \in Seq(Dgrams)
    OBVIOUS
  <2>2. QED
    BY <1>t, <2>1, AnswerFacts
<1>1. TypeOK'
  BY <1>f, <1>t DEF TypeOK, Idles
<1>2. ByServer
  BY <1>f DEF ByServer, Idles
<1>3. /\ toServer'[c] = <<>> /\ Len(toClient'[c]) = 1 /\ toClient'[c][1] = d
  <2>1. toClient[c] = <<>> /\ toServer'[c] = <<>>
    BY <1>f, ReadsRequest
  <2>2. <<>> \o <<d>> = <<d>>
    OBVIOUS
  <2>3. toClient'[c] = <<d>>
    BY <1>f, <2>1, <2>2
  <2>4. QED
    BY <2>1, <2>3
<1>4. Replied(c)'
  BY <1>3, <1>f DEF Replied
<1>5. Dialogue(c)'
  BY <1>4, <1>f, ReadsRequest DEF Dialogue, Idles
<1>6. waitTimes' # 0
  BY <1>f DEF IInv
<1>7. QED
  BY <1>1, <1>2, <1>5, <1>6, ServerStep

(* A branch runs for the request of its own type.                          *)
LEMMA ReadingFacts ==
    ASSUME IInv, NEW type, Reading(type)
    PROVE  \E c \in Clients :
              /\ c = peer /\ served = "read" /\ toServer[peer] # <<>>
              /\ Asks(c, Head(toServer[c])) /\ type = RequestAt[at[c]]
              /\ Payload = Head(toServer[c]).payload
              /\ at[c] \in DOMAIN RequestAt
<1>1. PICK c \in Clients : c = peer
  BY PeerFacts DEF Reading
<1>2. QED
  BY <1>1, ReadsRequest DEF Reading, Payload, Asks

(* The client may act on the reply before initConn.                        *)
LEMMA ServeOpenStep ==
    ASSUME IInv, ServeOpen
    PROVE  IInv'
<1>t. TypeOK
  BY DEF IInv
<1> DEFINE d == Dgram("OPEN_CONN_REPLY", 1, None)
<1>0. PICK c \in Clients : /\ c = peer /\ served = "read" /\ toServer[peer] # <<>>
                           /\ at[c] = "open"
  BY ReadingFacts, WhichRequest DEF ServeOpen
<1>d. d \in Dgrams /\ d.type = ReplyTo[at[c]] /\ at[c] \in Waiting
  BY <1>0, Kinds DEF Dgram, ReplyTo, Dgrams
<1> HIDE DEF d
<1>1. Answer(<<d>>, "initConn") /\ UNCHANGED <<auth_pass, filename, servBuf>>
  BY DEF ServeOpen, d
<1>2. at'[c] = "open" /\ served' = "initConn"
  BY <1>0, <1>1 DEF Answer, client
<1>3. Fits(c, d)' /\ ReplyFlags(c, d)'
  BY <1>0, <1>2, <1>d DEF Fits, ReplyFlags
<1>4. QED
  BY <1>0, <1>1, <1>3, <1>d, <1>t, SingleReply DEF TypeOK

(* The reply says what auth_pass is.                                       *)
LEMMA ServeAuthStep ==
    ASSUME IInv, ServeAuth
    PROVE  IInv'
<1>t. TypeOK
  BY DEF IInv
<1> DEFINE pass == Payload = Good
           reply == Dgram("AUTH_REPLY", IF pass THEN 1 ELSE 0, None)
<1>0. PICK c \in Clients : /\ c = peer /\ served = "read" /\ toServer[peer] # <<>>
                           /\ at[c] = "auth"
  BY ReadingFacts, WhichRequest DEF ServeAuth
<1>r. /\ reply \in Dgrams /\ reply.type = ReplyTo[at[c]] /\ at[c] \in Waiting
      /\ reply.status = 1 <=> pass
  BY <1>0, Kinds DEF Dgram, ReplyTo, Dgrams
<1>b. pass \in BOOLEAN
  OBVIOUS
<1>a. /\ Answer(<<reply>>, "loop") /\ auth_pass' = pass
      /\ UNCHANGED <<filename, servBuf>>
  BY DEF ServeAuth
<1> HIDE DEF reply, pass
<1>d. PICK d \in Dgrams : d = reply
  BY <1>r
<1>1. Answer(<<d>>, "loop") /\ (auth_pass' <=> d.status = 1) /\ auth_pass' = pass
  BY <1>a, <1>d, <1>r
<1>2. at'[c] = "auth" /\ served' = "loop"
  BY <1>0, <1>1 DEF Answer, client
<1>3. Fits(c, d)' /\ ReplyFlags(c, d)'
  BY <1>0, <1>1, <1>2, <1>d, <1>r DEF Fits, ReplyFlags
<1>4. QED
  BY <1>0, <1>1, <1>3, <1>a, <1>b, <1>t, SingleReply DEF TypeOK, Idles

(* Listing.                                                                *)
LEMMA ServeListStep ==
    ASSUME IInv, ServeList
    PROVE  IInv'
<1>t. TypeOK
  BY DEF IInv
<1> DEFINE reply == Dgram("LIST_REPLY", 0, FileList)
<1>0. PICK c \in Clients : /\ c = peer /\ served = "read" /\ toServer[peer] # <<>>
                           /\ at[c] = "ls"
  BY ReadingFacts, WhichRequest DEF ServeList
<1>r. reply \in Dgrams /\ reply.type = ReplyTo[at[c]] /\ at[c] \in Waiting
  <2>1. FileList \in SUBSET Names
    BY DEF FileList
  <2>2. QED
    BY <1>0, <2>1, Kinds DEF Dgram, ReplyTo, Dgrams
<1>a. Answer(<<reply>>, "free") /\ UNCHANGED <<auth_pass, filename, servBuf>>
  BY DEF ServeList
<1> HIDE DEF reply
<1>d. PICK d \in Dgrams : d = reply
  BY <1>r
<1>1. Answer(<<d>>, "free") /\ UNCHANGED <<auth_pass, filename, servBuf>>
  BY <1>a, <1>d
<1>2. /\ at'[c] = "ls" /\ served' = "free" /\ auth_pass' = auth_pass
      /\ clnt_auth'[c] = clnt_auth[c]
  BY <1>0, <1>1 DEF Answer, client
<1>3. Fits(c, d)' /\ ReplyFlags(c, d)'
  BY <1>0, <1>2, <1>d, <1>r, ReadsRequest DEF Fits, ReplyFlags
<1>4. QED
  BY <1>0, <1>1, <1>3, <1>t, SingleReply DEF TypeOK, Idles

(* The server leaves its loop.                                             *)
LEMMA ServeQuitStep ==
    ASSUME IInv, ServeQuit
    PROVE  IInv'
<1>t. TypeOK
  BY DEF IInv
<1> DEFINE d == Dgram("QUIT_REPLY", 0, None)
<1>0. PICK c \in Clients : /\ c = peer /\ served = "read" /\ toServer[peer] # <<>>
                           /\ at[c] = "quit"
  BY ReadingFacts, WhichRequest DEF ServeQuit
<1>d. d \in Dgrams /\ d.type = ReplyTo[at[c]] /\ at[c] \in Waiting
  BY <1>0, Kinds DEF Dgram, ReplyTo, Dgrams
<1> HIDE DEF d
<1>1. Answer(<<d>>, "closing") /\ UNCHANGED <<auth_pass, filename, servBuf>>
  BY DEF ServeQuit, d
<1>2. at'[c] = "quit" /\ served' = "closing"
  BY <1>0, <1>1 DEF Answer, client
<1>3. Fits(c, d)' /\ ReplyFlags(c, d)'
  BY <1>0, <1>2, <1>d DEF Fits, ReplyFlags
<1>4. QED
  BY <1>0, <1>1, <1>3, <1>d, <1>t, SingleReply DEF TypeOK, Idles

(* auth_pass follows what the client already knows.                        *)
LEMMA initConnStep ==
    ASSUME IInv, initConn
    PROVE  IInv'
<1>t. TypeOK
  BY DEF IInv
<1>0. /\ served = "initConn" /\ served' = "free" /\ auth_pass' = FALSE
      /\ UNCHANGED <<client, peer, waitTimes, filename, servBuf, net, here, there>>
  BY DEF initConn
<1>1. PICK c \in Clients : c = peer /\ Dialogue(c)
  BY <1>0, PeerFacts
<1>2. TypeOK'
  BY <1>0, <1>t DEF TypeOK, client, net
<1>3. ByServer
  BY <1>0 DEF ByServer, Same, client, net
<1>u. UNCHANGED <<at, clnt_auth, name, fileBuf, link, toServer, toClient, here, there>>
  BY <1>0 DEF client, net
<1>f. clnt_auth[c] \in BOOLEAN
  BY <1>t DEF TypeOK
<1>4. Rest(c) \/ Asked(c) \/ Replied(c)
  BY <1>0, <1>1 DEF Dialogue, Sent, Sending, Storing, Lost, Over, Idles
<1>5. Agree(c) => Agree(c)'
  BY <1>0, <1>f, <1>u DEF Agree
<1>6. Rest(c) => Rest(c)'
  BY <1>0, <1>5, <1>u DEF Rest, Resting, Idles
<1>7. Asked(c) => Asked(c)'
  BY <1>0, <1>5, <1>u DEF Asked, Asks, Loaded, Idles
<1>8. Replied(c) => Replied(c)'
  <2>1. ASSUME Replied(c)
        PROVE  at[c] = "open" /\ "open" \in Waiting
    BY <1>0, <2>1, Kinds DEF Replied, ReplyFlags
  <2>2. QED
    BY <1>0, <1>u, <2>1 DEF Replied, Fits, ReplyFlags, Idles
<1>9. Dialogue(c)'
  BY <1>0, <1>1, <1>4, <1>6, <1>7, <1>8, <1>u DEF Dialogue
<1>10. waitTimes' # 0
  BY <1>0 DEF IInv
<1>11. QED
  BY <1>1, <1>2, <1>3, <1>9, <1>10, ServerStep

(* No file, one that is too large, or one that is sent.                    *)
LEMMA ServeGetStep ==
    ASSUME IInv, ServeGet
    PROVE  IInv'
<1>t. TypeOK
  BY DEF IInv
<1>0. PICK c \in Clients : /\ c = peer /\ served = "read" /\ toServer[peer] # <<>>
                           /\ at[c] = "get" /\ Asks(c, Head(toServer[c]))
                           /\ Payload = Head(toServer[c]).payload
  BY ReadingFacts, WhichRequest DEF ServeGet
<1>1. /\ Payload = name[c] /\ name[c] \in Names /\ clnt_auth[c] = TRUE
      /\ auth_pass = TRUE /\ link[c] = "accepted"
      /\ toClient[c] = <<>> /\ Tail(toServer[c]) = <<>>
  <2>1. clnt_auth[c] \in BOOLEAN
    BY <1>t DEF TypeOK
  <2>2. QED
    BY <1>0, <2>1, ReadsRequest DEF Asks
<1>u. UNCHANGED <<auth_pass, filename>>
  BY DEF ServeGet
<1>2. CASE /\ Answer(<<Dgram("GET_REPLY", 0, None)>>, "loop")
           /\ UNCHANGED servBuf
  <2> DEFINE d == Dgram("GET_REPLY", 0, None)
  <2>1. /\ d \in Dgrams /\ d.type = ReplyTo[at[c]] /\ at[c] \in Waiting
        /\ d.status = 0
    BY <1>0, Kinds DEF Dgram, ReplyTo, Dgrams
  <2> HIDE DEF d
  <2>2. Answer(<<d>>, "loop")
    BY <1>2 DEF d
  <2>3. /\ at'[c] = "get" /\ served' = "loop" /\ clnt_auth'[c] = clnt_auth[c]
    BY <1>0, <2>2 DEF Answer, client
  <2>4. Fits(c, d)' /\ ReplyFlags(c, d)'
    BY <1>0, <1>1, <1>u, <2>1, <2>3 DEF Fits, ReplyFlags
  <2>5. QED
    BY <1>0, <1>2, <1>t, <1>u, <2>1, <2>2, <2>4, SingleReply DEF TypeOK, Idles
<1>3. CASE Answer(<<>>, "upload") /\ UNCHANGED servBuf
  <2>1. <<>> \in Seq(Dgrams) /\ toClient[c] \o <<>> = <<>>
    BY <1>1
  <2>f. /\ toServer' \in [Clients -> Seq(Dgrams)]
        /\ toClient' \in [Clients -> Seq(Dgrams)]
        /\ toServer'[c] = <<>> /\ toClient'[c] = <<>>
        /\ served' = "upload" /\ peer' = peer
        /\ UNCHANGED <<at, clnt_conn, clnt_auth, name, fileBuf,
                       waitTimes, link, here, there>>
        /\ \A e \in Clients \ {peer} : Same(e)
    BY <1>0, <1>1, <1>3, <1>t, <2>1, AnswerFacts
  <2>2. TypeOK'
    BY <1>3, <1>t, <1>u, <2>f DEF TypeOK
  <2>3. ByServer
    BY <1>0, <2>f DEF ByServer
  <2>4. Dialogue(c)'
    BY <1>0, <1>1, <2>f DEF Dialogue, Lost
  <2>5. waitTimes' # 0
    BY <1>0, <2>f DEF IInv
  <2>6. QED
    BY <1>0, <2>2, <2>3, <2>4, <2>5, ServerStep
<1>4. CASE /\ there[Payload] # None /\ servBuf' = there[Payload]
           /\ Answer(<<Dgram("GET_REPLY", 1, None)>>, "sendFile")
  <2> DEFINE d == Dgram("GET_REPLY", 1, None)
  <2>1. /\ d \in Dgrams /\ d.type = "GET_REPLY" /\ d.status = 1
    <3>1. d = Dgram(ReplyTo["get"], 1, None) /\ "get" \in Waiting
      BY Kinds DEF ReplyTo
    <3>2. QED
      BY <3>1, Kinds DEF Dgram
  <2> HIDE DEF d
  <2>2. Answer(<<d>>, "sendFile")
    BY <1>4 DEF d
  <2>3. <<d>> \in Seq(Dgrams) /\ <<>> \o <<d>> = <<d>>
    BY <2>1
  <2>f. /\ toServer' \in [Clients -> Seq(Dgrams)]
        /\ toClient' \in [Clients -> Seq(Dgrams)]
        /\ toServer'[c] = <<>> /\ toClient'[c] = <<d>>
        /\ served' = "sendFile" /\ peer' = peer
        /\ UNCHANGED <<at, clnt_conn, clnt_auth, name, fileBuf,
                       waitTimes, link, here, there>>
        /\ \A e \in Clients \ {peer} : Same(e)
    BY <1>0, <1>1, <1>t, <2>2, <2>3, AnswerFacts
  <2>4. there[name[c]] \in Contents
    BY <1>1, <1>4, <1>t DEF TypeOK, Files
  <2>5. TypeOK'
    BY <1>1, <1>4, <1>t, <1>u, <2>4, <2>f DEF TypeOK
  <2>6. ByServer
    BY <1>0, <2>f DEF ByServer
  <2>7. Len(toClient'[c]) = 1 /\ toClient'[c][1] = d
    BY <2>f
  <2>8. Sending(c)'
    BY <1>0, <1>1, <1>4, <1>u, <2>1, <2>4, <2>7, <2>f DEF Sending
  <2>9. Dialogue(c)'
    BY <1>0, <1>1, <2>8, <2>f DEF Dialogue
  <2>10. waitTimes' # 0
    BY <1>0, <2>f DEF IInv
  <2>11. QED
    BY <1>0, <2>5, <2>6, <2>9, <2>10, ServerStep
<1>5. QED
  BY <1>2, <1>3, <1>4 DEF ServeGet

(* The client may have taken the reply already, or not.                    *)
LEMMA SendFileStep ==
    ASSUME IInv, SendFile
    PROVE  IInv'
<1>t. TypeOK
  BY DEF IInv
<1> DEFINE file == Dgram("FILE_DATA", 0, servBuf)
<1>0. /\ served = "sendFile" /\ served' = "loop"
      /\ toClient' = [toClient EXCEPT ![peer] = Append(@, file)]
      /\ UNCHANGED <<client, peer, auth_pass, waitTimes, filename, servBuf,
                     link, toServer, here, there>>
  BY DEF SendFile
<1>1. PICK c \in Clients : c = peer /\ Dialogue(c)
  BY <1>0, PeerFacts
<1>2. Sending(c)
  BY <1>0, <1>1 DEF Dialogue, Rest, Asked, Replied, Sent, Storing, Lost, Over, Idles
<1>d. /\ file \in Dgrams /\ file.type = "FILE_DATA" /\ file.payload = servBuf
  <2>1. file = Dgram(ReplyTo["getFile"], 0, servBuf) /\ "getFile" \in Waiting
    BY Kinds DEF ReplyTo
  <2>2. servBuf \in Contents
    BY <1>2 DEF Sending
  <2>3. QED
    BY <2>1, <2>2, Kinds DEF Dgram
<1> HIDE DEF file
<1>u. UNCHANGED <<at, clnt_auth, name, fileBuf>>
  BY <1>0 DEF client
<1>s. /\ toClient[c] \in Seq(Dgrams) /\ toClient'[c] = Append(toClient[c], file)
      /\ \A e \in Clients \ {c} : toClient'[e] = toClient[e]
  BY <1>0, <1>1, <1>t DEF TypeOK
<1>3. TypeOK'
  <2>1. toClient' \in [Clients -> Seq(Dgrams)]
    BY <1>0, <1>1, <1>d, <1>s, <1>t, Appends DEF TypeOK
  <2>2. QED
    BY <1>0, <1>t, <2>1 DEF TypeOK, client
<1>4. ByServer
  BY <1>0, <1>1, <1>s, <1>u DEF ByServer, Same
<1>5. IsFile(c, file)
  BY <1>2, <1>d DEF Sending, IsFile
<1>6. ASSUME at[c] = "get"
      PROVE  Sent(c)'
  <2>1. /\ Len(toClient[c]) = 1 /\ toClient[c][1].type = "GET_REPLY"
        /\ toClient[c][1].status = 1
    BY <1>2, <1>6 DEF Sending
  <2>2. /\ Len(toClient'[c]) = 2 /\ toClient'[c][1] = toClient[c][1]
        /\ toClient'[c][2] = file
    BY <1>d, <1>s, <2>1, Appends
  <2>3. Both(c)'
    BY <1>0, <1>5, <1>6, <1>u, <2>1, <2>2 DEF Both, IsFile
  <2>4. Sent(c)'
    BY <1>0, <1>2, <1>u, <2>3 DEF Sent, Sending, Idles
  <2>5. QED
    BY <2>4
<1>7. ASSUME at[c] = "getFile"
      PROVE  Replied(c)'
  <2>1. Len(toClient[c]) = 0
    BY <1>2, <1>7, <1>s, Streams DEF Sending
  <2>2. Len(toClient'[c]) = 1 /\ toClient'[c][1] = file
    BY <1>d, <1>s, <2>1, Appends
  <2>3. /\ ReplyTo["getFile"] = "FILE_DATA" /\ "getFile" \in Waiting
    BY Kinds DEF ReplyTo
  <2>4. Fits(c, toClient[c][1])' /\ ReplyFlags(c, toClient[c][1])'
    BY <1>0, <1>2, <1>5, <1>7, <1>d, <1>u, <2>2, <2>3
       DEF Fits, ReplyFlags, IsFile, Sending
  <2>5. Replied(c)'
    BY <1>0, <1>2, <1>u, <2>2, <2>4 DEF Replied, Sending, Idles
  <2>6. QED
    BY <2>5
<1>8. Sent(c)' \/ Replied(c)'
  BY <1>2, <1>6, <1>7 DEF Sending
<1>9. Dialogue(c)'
  BY <1>0, <1>1, <1>8, <1>u DEF Dialogue
<1>10. waitTimes' # 0
  BY <1>0 DEF IInv
<1>11. QED
  BY <1>1, <1>3, <1>4, <1>9, <1>10, ServerStep

(* The file that is announced is the one that the client has read.         *)
LEMMA ServePutStep ==
    ASSUME IInv, ServePut
    PROVE  IInv'
<1>t. TypeOK
  BY DEF IInv
<1> DEFINE d == Dgram("PUT_REPLY", 0, None)
<1>0. PICK c \in Clients : /\ c = peer /\ served = "read" /\ toServer[peer] # <<>>
                           /\ at[c] = "put" /\ Asks(c, Head(toServer[c]))
                           /\ Payload = Head(toServer[c]).payload
  BY ReadingFacts, WhichRequest DEF ServePut
<1>1. /\ Payload = name[c] /\ Loaded(c) /\ clnt_auth[c] = TRUE
      /\ auth_pass = TRUE /\ link[c] = "accepted"
      /\ toClient[c] = <<>> /\ Tail(toServer[c]) = <<>>
  <2>1. clnt_auth[c] \in BOOLEAN
    BY <1>t DEF TypeOK
  <2>2. QED
    BY <1>0, <2>1, ReadsRequest DEF Asks
<1>d. d \in Dgrams /\ d.type = "PUT_REPLY"
  <2>1. d = Dgram(ReplyTo["put"], 0, None) /\ "put" \in Waiting
    BY Kinds DEF ReplyTo
  <2>2. QED
    BY <2>1, Kinds DEF Dgram
<1> HIDE DEF d
<1>2. /\ filename' = name[c] /\ Answer(<<d>>, "putFile")
      /\ UNCHANGED <<auth_pass, servBuf>>
  BY <1>1 DEF ServePut, d
<1>3. <<d>> \in Seq(Dgrams) /\ <<>> \o <<d>> = <<d>>
  BY <1>d
<1>f. /\ toServer' \in [Clients -> Seq(Dgrams)]
      /\ toClient' \in [Clients -> Seq(Dgrams)]
      /\ toServer'[c] = <<>> /\ toClient'[c] = <<d>>
      /\ served' = "putFile" /\ peer' = peer
      /\ UNCHANGED <<at, clnt_conn, clnt_auth, name, fileBuf,
                     waitTimes, link, here, there>>
      /\ \A e \in Clients \ {peer} : Same(e)
  BY <1>0, <1>1, <1>2, <1>3, <1>t, AnswerFacts
<1>4. TypeOK'
  BY <1>1, <1>2, <1>f, <1>t DEF TypeOK, Loaded
<1>5. ByServer
  BY <1>0, <1>f DEF ByServer
<1>6. Len(toClient'[c]) = 1 /\ toClient'[c][1] = d
  BY <1>f
<1>7. Storing(c)'
  BY <1>0, <1>1, <1>2, <1>6, <1>d, <1>f DEF Storing, Loaded
<1>8. Dialogue(c)'
  BY <1>0, <1>1, <1>7, <1>f DEF Dialogue
<1>9. waitTimes' # 0
  BY <1>0, <1>f DEF IInv
<1>10. QED
  BY <1>0, <1>4, <1>5, <1>8, <1>9, ServerStep

(* What the server stores is what the client has under that name, and the  *)
(* client is logged in.                                                    *)
LEMMA FileStored ==
    ASSUME IInv, served = "putFile", toServer[peer] # <<>>,
           NEW c \in Clients, c = peer
    PROVE  /\ Storing(c) /\ InSocket(c) /\ Head(toServer[c]) = toServer[c][1]
           /\ toClient[c] = <<>> /\ auth_pass /\ filename \in Names
<1>1. Storing(c) /\ toServer[c] \in Seq(Dgrams)
  BY DEF IInv, TypeOK, Dialogue, Rest, Asked, Replied, Sent, Sending, Lost, Over,
     Idles
<1>2. QED
  BY <1>1, Streams DEF Storing

(* What follows in the stream, if anything, is the next request.           *)
LEMMA StoreFileStep ==
    ASSUME IInv, StoreFile
    PROVE  IInv'
<1>t. TypeOK
  BY DEF IInv
<1>0. /\ served = "putFile" /\ served' = "loop" /\ toServer[peer] # <<>>
      /\ toServer' = [toServer EXCEPT ![peer] = Tail(@)]
      /\ there' = [there EXCEPT ![filename] = Payload]
      /\ UNCHANGED <<client, peer, auth_pass, waitTimes, filename, servBuf,
                     link, toClient, here>>
  BY DEF StoreFile
<1>1. PICK c \in Clients : c = peer /\ Dialogue(c)
  BY <1>0, PeerFacts
<1>2. /\ Storing(c) /\ InSocket(c) /\ Payload = toServer[c][1].payload
      /\ toClient[c] = <<>> /\ auth_pass /\ filename \in Names
  BY <1>0, <1>1, FileStored DEF Payload
<1>u. UNCHANGED <<at, clnt_auth, name, fileBuf>>
  BY <1>0 DEF client
<1>s. /\ toServer[c] \in Seq(Dgrams) /\ toServer'[c] = Tail(toServer[c])
      /\ Tail(toServer[c]) \in Seq(Dgrams)
      /\ \A e \in Clients \ {c} : toServer'[e] = toServer[e]
  BY <1>0, <1>1, <1>t, Streams DEF TypeOK
<1>3. TypeOK'
  <2>1. toServer' \in [Clients -> Seq(Dgrams)]
    BY <1>0, <1>1, <1>s, <1>t DEF TypeOK
  <2>2. there' \in Files
    BY <1>0, <1>2, <1>t DEF TypeOK, Files, InSocket
  <2>3. QED
    BY <1>0, <1>t, <2>1, <2>2 DEF TypeOK, client
<1>4. ByServer
  BY <1>0, <1>1, <1>s, <1>u DEF ByServer, Same
<1>5. auth_pass \in BOOLEAN /\ clnt_auth[c] \in BOOLEAN
  BY <1>t DEF TypeOK
<1>6. ASSUME Len(toServer[c]) = 1, Resting(c)
      PROVE  Rest(c)'
  <2>1. toServer'[c] = <<>>
    <3>1. Len(Tail(toServer[c])) = 0
      BY <1>0, <1>1, <1>6, <1>s, Streams
    <3>2. QED
      BY <1>s, <3>1, Streams
  <2>2. at[c] # "gone" => auth_pass = clnt_auth[c]
    BY <1>2, <1>5 DEF Storing
  <2>3. QED
    BY <1>0, <1>2, <1>6, <1>u, <2>1, <2>2 DEF Rest, Resting, Agree, Idles
<1>7. ASSUME Len(toServer[c]) = 2, Asks(c, toServer[c][2])
      PROVE  Asked(c)'
  <2>1. Len(toServer'[c]) = 1 /\ toServer'[c][1] = toServer[c][2]
    <3>1. /\ toServer[c] # <<>> /\ Len(Tail(toServer[c])) = 1
          /\ \A i \in 1 .. 1 : Tail(toServer[c])[i] = toServer[c][i + 1]
      BY <1>0, <1>1, <1>7, <1>s, Streams
    <3>2. Tail(toServer[c])[1] = toServer[c][2]
      BY <3>1
    <3>3. QED
      BY <1>s, <3>1, <3>2
  <2>2. at[c] # "gone"
    BY <1>7, Kinds DEF Asks
  <2>3. auth_pass = clnt_auth[c]
    BY <1>2, <1>5, <2>2 DEF Storing
  <2>4. Asks(c, toServer[c][1])'
    BY <1>0, <1>7, <1>u, <2>1 DEF Asks, Loaded
  <2>5. QED
    BY <1>0, <1>2, <1>u, <2>1, <2>3, <2>4 DEF Asked, Agree, Idles
<1>8. Rest(c)' \/ Asked(c)'
  BY <1>0, <1>1, <1>2, <1>6, <1>7 DEF Storing
<1>9. Dialogue(c)'
  BY <1>0, <1>1, <1>8, <1>u DEF Dialogue
<1>10. waitTimes' # 0
  BY <1>0 DEF IInv
<1>11. QED
  BY <1>1, <1>3, <1>4, <1>9, <1>10, ServerStep

(* All steps of the server.                                                *)
LEMMA ServerInv ==
    ASSUME IInv, Server
    PROVE  IInv'
<1>1. CASE Listen \/ Accept \/ LoopTop \/ ServerExit \/ FreeRequest
  BY <1>1, ListenStep, AcceptStep, LoopTopStep, CloseStep, FreeRequestStep
     DEF ServerExit
<1>2. CASE ServeOpen \/ initConn \/ ServeAuth \/ ServeList \/ ServeQuit
  BY <1>2, ServeOpenStep, initConnStep, ServeAuthStep, ServeListStep, ServeQuitStep
<1>3. CASE ServeGet \/ SendFile \/ ServePut \/ StoreFile
  BY <1>3, ServeGetStep, SendFileStep, ServePutStep, StoreFileStep
<1>4. QED
  BY <1>1, <1>2, <1>3 DEF Server

-----------------------------------------------------------------------------
(* The specification.                                                      *)

(* Nobody runs.                                                            *)
LEMMA InitInv == Init => IInv
<1> SUFFICES ASSUME Init
             PROVE  IInv
  OBVIOUS
<1>1. /\ \A c \in Clients : at[c] = "idle" /\ clnt_auth[c] = FALSE
                            /\ link[c] = "none"
      /\ \A c \in Clients : toServer[c] = <<>> /\ toClient[c] = <<>>
      /\ served = "off" /\ peer = None /\ auth_pass = FALSE
      /\ waitTimes = WaitTimesLim
  BY DEF Init
<1>2. TypeOK
  <2>1. <<>> \in Seq(Dgrams)
    OBVIOUS
  <2>2. /\ waitTimes \in 0 .. WaitTimesLim
        /\ peer \in Clients \cup {None} /\ auth_pass \in BOOLEAN
        /\ filename \in Names \cup {None} /\ servBuf \in Contents \cup {None}
        /\ here \in [Clients -> Files] /\ there \in Files
    <3>1. waitTimes \in 0 .. WaitTimesLim
      BY <1>1, SessionAssumption
    <3>2. auth_pass \in BOOLEAN
      BY <1>1
    <3>3. here \in [Clients -> Files] /\ there \in Files
      BY Zenon DEF Init
    <3>4. filename = None /\ servBuf = None
      BY Zenon DEF Init
    <3>5. QED
      BY <1>1, <3>1, <3>2, <3>3, <3>4
  <2>3. /\ at \in [Clients -> Waiting \cup {"idle", "gone", "upload", "spin"}]
        /\ clnt_conn \in [Clients -> BOOLEAN]
        /\ clnt_auth \in [Clients -> BOOLEAN]
        /\ name \in [Clients -> Names \cup {None}]
        /\ fileBuf \in [Clients -> Contents \cup {None}]
        /\ link \in [Clients -> {"none", "queued", "accepted", "fin", "reset",
                                "closed"}]
    BY DEF Init
  <2>4. toServer \in [Clients -> Seq(Dgrams)] /\ toClient \in [Clients -> Seq(Dgrams)]
    BY <2>1 DEF Init
  <2>5. QED
    BY <1>1, <2>2, <2>3, <2>4 DEF TypeOK
<1>3. \A c \in Clients : c # peer /\ NotServed(c)
  BY <1>1, SessionAssumption DEF NotServed
<1>4. QED
  BY <1>1, <1>2, <1>3, SessionAssumption DEF IInv

LEMMA StutterInv == ASSUME IInv, UNCHANGED vars PROVE IInv'
<1>1. UNCHANGED <<at, clnt_conn, clnt_auth, name, fileBuf, served, peer, auth_pass,
                  waitTimes, filename, servBuf, link, toServer, toClient, here, there>>
  BY DEF vars, client, server, net
<1>2. TypeOK'
  BY <1>1 DEF IInv, TypeOK
<1>3. \A c \in Clients : IF c = peer' THEN Dialogue(c)' ELSE NotServed(c)'
  <2>1. \A c \in Clients : Same(c)
    BY <1>1 DEF Same
  <2>2. QED
    BY <1>1, <2>1, AloneKept, DialogueKept DEF IInv, server
<1>4. QED
  BY <1>1, <1>2, <1>3 DEF IInv

LEMMA StepInv == IInv /\ [Next]_vars => IInv'
<1> SUFFICES ASSUME IInv, [Next]_vars
             PROVE  IInv'
  OBVIOUS
<1>1. QED
  BY ServerInv, ClientInv, StutterInv DEF Next

(* The invariant holds in every reachable state: the places of main in     *)
(* ftp_server.cpp and of its one client and what is in the two streams fit *)
(* together.                                                               *)
THEOREM Invariance == Spec => []IInv
<1>1. QED
  BY InitInv, StepInv, PTL DEF Spec

(* The types of both programs, of the datagrams and of the files; in       *)
(* particular waitTimes never falls below 0.                               *)
THEOREM TypeCorrect == Spec => []TypeOK
<1>1. IInv => TypeOK
  BY DEF IInv
<1>2. QED
  BY <1>1, Invariance, PTL

(* Neither side takes one kind of datagram for another, though readDgram's *)
(* callers do not look at the type where they expect a single one.         *)
THEOREM MatchTheorem == Spec => []RepliesMatch
<1>1. IInv => RepliesMatch
  <2> SUFFICES ASSUME IInv
               PROVE  RepliesMatch
    OBVIOUS
  <2>t. TypeOK
    BY DEF IInv
  <2>1. ASSUME NEW c \in Clients, toClient[c] # <<>>
        PROVE  at[c] \in Waiting /\ Head(toClient[c]).type = ReplyTo[at[c]]
    <3>1. c = peer /\ Dialogue(c) /\ at[c] \in Waiting
      BY <2>1, ReplyOfPeer
    <3>2. Head(toClient[c]) = toClient[c][1]
      BY <2>1, <2>t, Streams DEF TypeOK
    <3>3. Replied(c) \/ Sent(c) \/ Sending(c) \/ Storing(c) \/ Over(c)
      BY <2>1, <3>1 DEF Dialogue, Rest, Asked, Lost
    <3>4. ReplyTo["get"] = "GET_REPLY" /\ ReplyTo["put"] = "PUT_REPLY"
      BY DEF ReplyTo
    <3>5. Fits(c, toClient[c][1]) => toClient[c][1].type = ReplyTo[at[c]]
      BY DEF Fits
    <3>6. Both(c) => toClient[c][1].type = ReplyTo[at[c]]
      BY <3>4 DEF Both
    <3>7. Storing(c) \/ Sending(c) => toClient[c][1].type = ReplyTo[at[c]]
      BY <2>1, <3>4 DEF Storing, Sending
    <3>8. QED
      BY <2>1, <3>1, <3>2, <3>3, <3>5, <3>6, <3>7 DEF Replied, Sent, Over
  <2>2. ASSUME served = "putFile", toServer[peer] # <<>>
        PROVE  Head(toServer[peer]).type = "FILE_DATA"
    BY <2>2, PeerFacts, FileStored DEF InSocket
  <2>3. ASSUME served \in {"loop", "read", "free", "initConn"}, toServer[peer] # <<>>
        PROVE  Head(toServer[peer]).type \in Requests
    <3>1. PICK c \in Clients : c = peer /\ Dialogue(c)
      BY <2>3, PeerFacts
    <3>2. Asked(c)
      BY <2>3, <3>1 DEF Dialogue, Rest, Replied, Sent, Sending, Storing, Lost, Over
    <3>3. Head(toServer[c]) = toServer[c][1]
      BY <2>3, <2>t, <3>1, Streams DEF TypeOK
    <3>4. QED
      BY <3>1, <3>2, <3>3, Kinds DEF Asked, Asks
  <2>4. QED
    BY <2>1, <2>2, <2>3 DEF RepliesMatch
<1>2. QED
  BY <1>1, Invariance, PTL

(* The two sides never wait for one another in readDgram.                  *)
THEOREM WaitTheorem == Spec => []NeverBothWait
<1>1. IInv => NeverBothWait
  <2> SUFFICES ASSUME IInv, served \in {"read", "putFile"}, toServer[peer] = <<>>,
                      at[peer] \in Waiting
               PROVE  toClient[peer] # <<>>
    BY DEF NeverBothWait
  <2>1. PICK c \in Clients : c = peer /\ Dialogue(c)
    BY PeerFacts
  <2>2. toServer[c] \in Seq(Dgrams) /\ toClient[c] \in Seq(Dgrams)
    BY DEF IInv, TypeOK
  <2>3. Len(toServer[c]) = 0
    BY <2>1, <2>2, Streams
  <2>4. Replied(c) \/ Sent(c) \/ Storing(c)
    BY <2>1, <2>3, Kinds DEF Dialogue, Rest, Resting, Asked, Sending, Lost, Over
  <2>5. Len(toClient[c]) # 0
    BY <2>3, <2>4 DEF Replied, Sent, Both, Storing
  <2>6. QED
    BY <2>1, <2>2, <2>5, Streams
<1>2. QED
  BY <1>1, Invariance, PTL

(* The server lists, sends and stores files only for a client that it has  *)
(* accepted, though it never looks.                                        *)
THEOREM LoginTheorem == Spec => []OnlyLoggedIn
<1>1. IInv => OnlyLoggedIn
  <2> SUFFICES ASSUME IInv, served = "read", toServer[peer] # <<>>,
                      Head(toServer[peer]).type
                         \in {"LIST_REQUEST", "GET_REQUEST", "PUT_REQUEST"}
               PROVE  auth_pass
    BY DEF OnlyLoggedIn
  <2>1. PICK c \in Clients : c = peer
    BY PeerFacts
  <2>2. Asks(c, Head(toServer[c])) /\ auth_pass = clnt_auth[c]
    BY <2>1, ReadsRequest
  <2>3. clnt_auth[c]
    BY <2>1, <2>2, WhichRequest DEF Asks
  <2>4. QED
    BY <2>2, <2>3
<1>2. QED
  BY <1>1, Invariance, PTL

(* When nothing is under way the two sides agree about the login.          *)
THEOREM AgreeTheorem == Spec => []FlagsAgree
<1>1. IInv => FlagsAgree
  <2> SUFFICES ASSUME IInv, served \in {"loop", "read", "free"}, at[peer] = "idle",
                      toServer[peer] = <<>>, toClient[peer] = <<>>
               PROVE  clnt_auth[peer] = auth_pass
    BY DEF FlagsAgree
  <2>1. PICK c \in Clients : c = peer /\ Dialogue(c)
    BY PeerFacts
  <2>2. toServer[c] \in Seq(Dgrams) /\ toClient[c] \in Seq(Dgrams)
    BY DEF IInv, TypeOK
  <2>3. Len(toServer[c]) = 0 /\ Len(toClient[c]) = 0
    BY <2>1, <2>2, Streams
  <2>4. Rest(c)
    BY <2>1, <2>3 DEF Dialogue, Asked, Replied, Sent, Both, Sending, Storing, Lost,
       Over
  <2>5. QED
    BY <2>1, <2>4 DEF Rest, Agree
<1>2. QED
  BY <1>1, Invariance, PTL

(* Nobody but the client that is served is ever logged in, though          *)
(* connSucess is called whatever the reply was.                            *)
THEOREM ServedTheorem == Spec => []LoggedInIsServed
<1>1. IInv => LoggedInIsServed
  BY DEF IInv, LoggedInIsServed, NotServed
<1>2. QED
  BY <1>1, Invariance, PTL

-----------------------------------------------------------------------------
(* FileService.                                                            *)

(* Every step but a download, a file that is stored, a login or its end    *)
(* leaves alone what FileService sees.                                     *)
LEMMA ServiceStep ==
    ASSUME IInv, [Next]_vars
    PROVE  [Service!Next]_(Service!vars)
<1> DEFINE granted == IF auth_pass THEN {peer} ELSE {}
<1>t. TypeOK
  BY DEF IInv
<1>1. ASSUME UNCHANGED <<auth_pass, peer, here, there>>
      PROVE  UNCHANGED Service!vars
  BY <1>1 DEF Service!vars
<1>2. ASSUME UNCHANGED <<peer, here, there>>, auth_pass' \in BOOLEAN,
             peer \in Clients
      PROVE  Service!Next
  <2>1. CASE auth_pass' = TRUE
    <3>1. Service!Login(peer)
      BY <1>2, <2>1 DEF Service!Login
    <3>2. QED
      BY <1>2, <3>1 DEF Service!Next
  <2>2. CASE auth_pass' = FALSE
    <3>1. Service!Logout
      BY <1>2, <2>2 DEF Service!Logout
    <3>2. QED
      BY <3>1 DEF Service!Next
  <2>3. QED
    BY <1>2, <2>1, <2>2
<1>3. ASSUME NEW c \in Clients, Download(c)
      PROVE  Service!Next
  <2>1. /\ c = peer /\ IsFile(c, Head(toClient[c]))
        /\ UNCHANGED <<auth_pass, peer, there>>
        /\ here' = [here EXCEPT ![c] =
              [@ EXCEPT ![name[c]] = Head(toClient[c]).payload]]
    BY <1>3, FileArrives DEF Download, Incoming, Received, server
  <2>2. Service!Get(c, name[c])
    BY <2>1, SessionAssumption DEF IsFile, Service!Get
  <2>3. QED
    BY <2>1, <2>2 DEF IsFile, Service!Next
<1>4. ASSUME StoreFile
      PROVE  Service!Next
  <2>1. PICK c \in Clients : c = peer
    BY <1>4, PeerFacts DEF StoreFile
  <2>2. /\ InSocket(c) /\ Head(toServer[c]) = toServer[c][1]
        /\ auth_pass /\ filename \in Names
    BY <1>4, <2>1, FileStored DEF StoreFile
  <2>3. /\ there' = [there EXCEPT ![filename] = here[c][filename]]
        /\ here[c][filename] # None
        /\ UNCHANGED <<auth_pass, peer, here>>
    BY <1>4, <2>1, <2>2, SessionAssumption DEF StoreFile, Payload, InSocket
  <2>4. Service!Put(c, filename)
    BY <2>1, <2>2, <2>3 DEF Service!Put
  <2>5. QED
    BY <2>2, <2>4 DEF Service!Next
<1>5. ASSUME initConn \/ ServeAuth
      PROVE  Service!Next
  <2>1. UNCHANGED <<peer, here, there>> /\ auth_pass' \in BOOLEAN
    BY <1>5 DEF initConn, ServeAuth, Answer
  <2>2. peer \in Clients
    BY <1>5, PeerFacts DEF initConn, ServeAuth, Reading
  <2>3. QED
    BY <1>2, <2>1, <2>2
<1>6. ASSUME Accept
      PROVE  UNCHANGED Service!vars
  <2>1. ~auth_pass /\ UNCHANGED <<auth_pass, here, there>>
    BY <1>6 DEF Accept, IInv
  <2>2. QED
    BY <2>1 DEF Service!vars
<1>7. ASSUME \/ Listen \/ LoopTop \/ ServerExit \/ FreeRequest \/ ServeOpen
             \/ ServeList \/ ServeQuit \/ ServeGet \/ SendFile \/ ServePut
      PROVE  UNCHANGED <<auth_pass, peer, here, there>>
  BY <1>7 DEF Listen, LoopTop, ServerExit, FreeRequest, Close, ServeOpen, ServeList,
     ServeQuit, ServeGet, SendFile, ServePut, Answer
<1>8. ASSUME NEW c \in Clients, Command(c) \/ BrokenPipe(c)
      PROVE  UNCHANGED <<auth_pass, peer, here, there>>
  BY <1>8 DEF Command, BrokenPipe, Connect, Reopen, Auth, Ls, Get, Put, PutLarge, Quit,
     Request, server
<1>9. ASSUME NEW c \in Clients, Reply(c), ~Download(c)
      PROVE  UNCHANGED <<auth_pass, peer, here, there>>
  BY <1>9 DEF Reply, OpenReply, AuthReply, LsReply, QuitReply, GetReply, PutReply,
     ReadError, Received, server
<1>10. CASE UNCHANGED vars
  <2>1. UNCHANGED <<auth_pass, peer, here, there>>
    BY <1>10 DEF vars, server
  <2>2. QED
    BY <1>1, <2>1
<1>11. CASE Server
  BY <1>1, <1>4, <1>5, <1>6, <1>7, <1>11 DEF Server
<1>12. CASE \E c \in Clients : Command(c) \/ BrokenPipe(c) \/ Reply(c)
  BY <1>1, <1>3, <1>8, <1>9, <1>12
<1>13. QED
  BY <1>10, <1>11, <1>12 DEF Next

(* The two programs implement FileService: files are copied whole, between *)
(* the server and the client that is logged in at that moment.             *)
THEOREM ServiceRefinement == Spec => ServiceSpec
<1>1. Init => Service!Init
  BY DEF Init, Service!Init, Files, Service!Files
<1>2. QED
  BY <1>1, ServiceStep, Invariance, PTL DEF Spec, ServiceSpec, Service!Spec

=============================================================================
