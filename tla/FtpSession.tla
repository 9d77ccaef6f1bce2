----------------------------- MODULE FtpSession -----------------------------
(***************************************************************************)
(* ftp_client.cpp and ftp_server.cpp over TCP: clients that are started    *)
(* any time, and the one server, which accepts a single connection.        *)
(*                                                                         *)
(* A datagram is its type, its status and its payload; TCP keeps the order *)
(* in both directions and loses nothing while both ends are open.  Commands*)
(* are well formed.  A process that reads from a peer that is gone spins:  *)
(* read returns 0 and readBuf goes on, so nothing of it happens any more.  *)
(***************************************************************************)
EXTENDS Naturals, Sequences

CONSTANTS
    Clients, Names, Credentials,
    Contents,        \* what a file may contain
    Good,            \* the credentials that the server accepts
    Large,           \* the contents of FILEBUFSIZE bytes or more
    None,            \* no payload, no file, nobody
    WaitTimesLim,    \* 1e5 in the code
    WildFree         \* delete of a received datagram may crash its process

ASSUME SessionAssumption ==
    /\ Good \in Credentials
    /\ Large \subseteq Contents
    /\ None \notin Clients \cup Contents
    /\ WaitTimesLim \in Nat \ {0}
    /\ WildFree \in BOOLEAN

VARIABLES
    \* a client
    at,              \* the readDgram it is in, "idle" at the prompt, ...
    clnt_conn, clnt_auth,
    name, fileBuf,   \* cmd[1], and what upload has read
    \* the server
    served,          \* its place in main
    peer,            \* the client at the other end of clnt_sock
    auth_pass, waitTimes, filename, servBuf,
    \* the sockets and the two directories
    link,            \* the socket of each client
    toServer, toClient,
    here, there

client == <<at, clnt_conn, clnt_auth, name, fileBuf>>
server == <<served, peer, auth_pass, waitTimes, filename, servBuf>>
net == <<link, toServer, toClient>>
vars == <<client, server, net, here, there>>

Files == [Names -> Contents \cup {None}]
Dgram(type, status, payload) ==
    [type |-> type, status |-> status, payload |-> payload]

Init ==
    /\ at = [c \in Clients |-> "idle"]
    /\ clnt_conn = [c \in Clients |-> FALSE]
    /\ clnt_auth = [c \in Clients |-> FALSE]
    /\ name = [c \in Clients |-> None]
    /\ fileBuf = [c \in Clients |-> None]
    /\ served = "off" /\ peer = None /\ auth_pass = FALSE
    /\ waitTimes = WaitTimesLim /\ filename = None /\ servBuf = None
    /\ link = [c \in Clients |-> "none"]
    /\ toServer = [c \in Clients |-> <<>>]
    /\ toClient = [c \in Clients |-> <<>>]
    /\ here \in [Clients -> Files] /\ there \in Files

-----------------------------------------------------------------------------
(* The client's process ends and the kernel closes its socket.             *)
Leave(c) ==
    /\ at' = [at EXCEPT ![c] = "gone"]
    /\ link' = [link EXCEPT ![c] = "closed"]

(* Back to the prompt.  A datagram without payload that was received holds *)
(* whatever the heap held in its place, and deleting it frees that.        *)
Prompt(c) ==
    \/ at' = [at EXCEPT ![c] = "idle"] /\ UNCHANGED link
    \/ WildFree /\ Leave(c)

(* A command writes its request and waits for the reply.                   *)
Request(c, wait, d) ==
    /\ at[c] = "idle" /\ link[c] \in {"queued", "accepted", "fin"}
    /\ at' = [at EXCEPT ![c] = wait]
    /\ toServer' = [toServer EXCEPT ![c] = Append(@, d)]
    /\ UNCHANGED <<clnt_conn, clnt_auth, link, toClient, server, here, there>>

(* connect succeeds as soon as the server listens, accepted or not.        *)
Connect(c) ==
    /\ at[c] = "idle" /\ link[c] = "none"
    /\ served \notin {"off", "gone"}
    /\ link' = [link EXCEPT ![c] = "queued"]
    /\ at' = [at EXCEPT ![c] = "open"]
    /\ toServer' = [toServer EXCEPT
          ![c] = <<Dgram("OPEN_CONN_REQUEST", 0, None)>>]
    /\ UNCHANGED <<clnt_conn, clnt_auth, name, fileBuf, toClient,
                   server, here, there>>

Reopen(c) ==
    /\ Request(c, "open", Dgram("OPEN_CONN_REQUEST", 0, None))
    /\ UNCHANGED <<name, fileBuf>>

Auth(c) ==
    /\ clnt_conn[c] /\ ~clnt_auth[c]
    /\ \E k \in Credentials : Request(c, "auth", Dgram("AUTH_REQUEST", 0, k))
    /\ UNCHANGED <<name, fileBuf>>

Check_auth(c) == clnt_conn[c] /\ clnt_auth[c]

Ls(c) ==
    /\ Check_auth(c)
    /\ Request(c, "ls", Dgram("LIST_REQUEST", 0, None))
    /\ UNCHANGED <<name, fileBuf>>

Get(c) ==
    /\ Check_auth(c)
    /\ \E n \in Names :
          /\ Request(c, "get", Dgram("GET_REQUEST", 0, n))
          /\ name' = [name EXCEPT ![c] = n]
    /\ UNCHANGED fileBuf

(* Fault: the buffer of the put before is sent.                            *)
FaultPutStale(c) ==
    /\ Check_auth(c)
    /\ \E n \in Names :
          /\ here[c][n] \notin Large \cup {None}
          /\ Request(c, "put", Dgram("PUT_REQUEST", 0, n))
          /\ name' = [name EXCEPT ![c] = n]
    /\ UNCHANGED fileBuf

(* upload reads the whole file before the request is sent.                 *)
Put(c) ==
    /\ Check_auth(c)
    /\ \E n \in Names :
          /\ here[c][n] \notin Large \cup {None}
          /\ Request(c, "put", Dgram("PUT_REQUEST", 0, n))
          /\ name' = [name EXCEPT ![c] = n]
          /\ fileBuf' = [fileBuf EXCEPT ![c] = here[c][n]]

(* A file that fills the buffer: fread is asked for 0 bytes for ever.      *)
PutLarge(c) ==
    /\ at[c] = "idle" /\ Check_auth(c)
    /\ \E n \in Names : here[c][n] \in Large
    /\ at' = [at EXCEPT ![c] = "upload"]
    /\ UNCHANGED <<clnt_conn, clnt_auth, name, fileBuf, server, net, here, there>>

(* quit before open: nothing is written, and readDgram on no socket finds  *)
(* the request itself in the buffer.                                       *)
Quit(c) ==
    /\ \/ Request(c, "quit", Dgram("QUIT_REQUEST", 0, None))
       \/ /\ at[c] = "idle" /\ link[c] = "none" /\ Leave(c)
          /\ UNCHANGED <<clnt_conn, clnt_auth, toServer, toClient, server, here, there>>
    /\ UNCHANGED <<name, fileBuf>>

(* The first write to a connection that was reset kills the process.       *)
BrokenPipe(c) ==
    /\ at[c] = "idle" /\ link[c] = "reset" /\ Leave(c)
    /\ UNCHANGED <<clnt_conn, clnt_auth, name, fileBuf, toServer, toClient,
                   server, here, there>>

-----------------------------------------------------------------------------
Incoming(c, wait) == at[c] = wait /\ toClient[c] # <<>>

Received(c) ==
    /\ toClient' = [toClient EXCEPT ![c] = Tail(@)]
    /\ UNCHANGED <<name, fileBuf, server, there>>

(* Fault: a new connection keeps the login.                                *)
FaultStaysLoggedIn(c) ==
    /\ clnt_conn' = [clnt_conn EXCEPT ![c] = TRUE]
    /\ UNCHANGED clnt_auth

(* Fault: both flags are set.                                              *)
FaultOpenLogsIn(c) ==
    /\ clnt_conn' = [clnt_conn EXCEPT ![c] = TRUE]
    /\ clnt_auth' = [clnt_auth EXCEPT ![c] = TRUE]

(* connSucess is called whatever the reply was.                            *)
connSucess(c) ==
    /\ clnt_conn' = [clnt_conn EXCEPT ![c] = TRUE]
    /\ clnt_auth' = [clnt_auth EXCEPT ![c] = FALSE]

OpenReply(c) ==
    /\ Incoming(c, "open") /\ Received(c)
    /\ connSucess(c) /\ Prompt(c)
    /\ UNCHANGED <<toServer, here>>

AuthReply(c) ==
    /\ Incoming(c, "auth") /\ Received(c)
    /\ LET d == Head(toClient[c])
           granted == d.type = "AUTH_REPLY" /\ d.status = 1
       IN  /\ clnt_conn' = [clnt_conn EXCEPT ![c] = granted]
           /\ clnt_auth' = [clnt_auth EXCEPT ![c] = granted]
           /\ IF granted THEN Prompt(c) ELSE Leave(c)
    /\ UNCHANGED <<toServer, here>>

LsReply(c) ==
    /\ Incoming(c, "ls") /\ Received(c)
    /\ at' = [at EXCEPT ![c] = "idle"]
    /\ UNCHANGED <<clnt_conn, clnt_auth, link, toServer, here>>

QuitReply(c) ==
    /\ Incoming(c, "quit") /\ Received(c) /\ Leave(c)
    /\ UNCHANGED <<clnt_conn, clnt_auth, toServer, here>>

GetReply(c) ==
    /\ Incoming(c, "get") /\ Received(c)
    /\ IF Head(toClient[c]).status = 0
       THEN Prompt(c)
       ELSE at' = [at EXCEPT ![c] = "getFile"] /\ UNCHANGED link
    /\ UNCHANGED <<clnt_conn, clnt_auth, toServer, here>>

Download(c) ==
    /\ Incoming(c, "getFile") /\ Received(c)
    /\ here' = [here EXCEPT ![c] =
          [@ EXCEPT ![name[c]] = Head(toClient[c]).payload]]
    /\ Prompt(c)
    /\ UNCHANGED <<clnt_conn, clnt_auth, toServer>>

PutReply(c) ==
    /\ Incoming(c, "put") /\ Received(c)
    /\ toServer' = [toServer EXCEPT
          ![c] = Append(@, Dgram("FILE_DATA", 0, fileBuf[c]))]
    /\ Prompt(c)
    /\ UNCHANGED <<clnt_conn, clnt_auth, here>>

(* read fails: the buffer still holds the request, and that becomes the    *)
(* reply.  If it has a payload, the next read returns 0, for ever.         *)
ReadError(c) ==
    /\ link[c] = "reset" /\ toClient[c] = <<>>
    /\ \/ at[c] = "open" /\ connSucess(c) /\ Prompt(c)
       \/ at[c] = "ls" /\ Prompt(c) /\ UNCHANGED <<clnt_conn, clnt_auth>>
       \/ at[c] = "quit" /\ Leave(c) /\ UNCHANGED <<clnt_conn, clnt_auth>>
       \/ /\ at[c] \in {"auth", "get", "put"}
          /\ at' = [at EXCEPT ![c] = "spin"]
          /\ UNCHANGED <<clnt_conn, clnt_auth, link>>
    /\ UNCHANGED <<name, fileBuf, toServer, toClient, server, here, there>>

Command(c) ==
    \/ Connect(c) \/ Reopen(c) \/ Auth(c) \/ Ls(c) \/ Get(c) \/ Put(c)
    \/ PutLarge(c) \/ Quit(c)

Reply(c) ==
    \/ OpenReply(c) \/ AuthReply(c) \/ LsReply(c) \/ QuitReply(c)
    \/ GetReply(c) \/ Download(c) \/ PutReply(c) \/ ReadError(c)

-----------------------------------------------------------------------------
Listen ==
    /\ served = "off" /\ served' = "accept"
    /\ UNCHANGED <<client, peer, auth_pass, waitTimes, filename, servBuf,
                   net, here, there>>

Accept ==
    /\ served = "accept"
    /\ \E c \in Clients :
          /\ link[c] = "queued"
          /\ link' = [link EXCEPT ![c] = "accepted"] /\ peer' = c
    /\ served' = "loop"
    /\ UNCHANGED <<client, auth_pass, waitTimes, filename, servBuf,
                   toServer, toClient, here, there>>

(* Fault: waitTimes is compared before it is decreased.                    *)
FaultLoopsOnceMore ==
    /\ served = "loop"
    /\ waitTimes' = waitTimes - 1
    /\ served' = IF waitTimes = 0 THEN "closing" ELSE "read"
    /\ UNCHANGED <<client, peer, auth_pass, filename, servBuf, net, here, there>>

LoopTop ==
    /\ served = "loop"
    /\ waitTimes' = waitTimes - 1
    /\ served' = IF waitTimes = 1 THEN "closing" ELSE "read"
    /\ UNCHANGED <<client, peer, auth_pass, filename, servBuf, net, here, there>>

(* Both sockets close: a client whose bytes were not read gets a reset.    *)
Close ==
    /\ served' = "gone"
    /\ link' = [c \in Clients |->
          IF link[c] \notin {"queued", "accepted"} THEN link[c]
          ELSE IF toServer[c] = <<>> THEN "fin" ELSE "reset"]
    /\ UNCHANGED <<client, peer, auth_pass, waitTimes, filename, servBuf,
                   toServer, toClient, here, there>>

ServerExit == served = "closing" /\ Close

(* The end of the loop deletes the request, see Prompt.                    *)
FreeRequest ==
    /\ served = "free"
    /\ \/ /\ served' = "loop"
          /\ UNCHANGED <<client, peer, auth_pass, waitTimes, filename, servBuf,
                         net, here, there>>
       \/ WildFree /\ Close

(* readDgram has returned a datagram of this type.                         *)
Reading(type) ==
    /\ served = "read" /\ toServer[peer] # <<>>
    /\ Head(toServer[peer]).type = type

Payload == Head(toServer[peer]).payload

(* Its branch writes the replies, and main goes on at next.                *)
Answer(replies, next) ==
    /\ toServer' = [toServer EXCEPT ![peer] = Tail(@)]
    /\ toClient' = [toClient EXCEPT ![peer] = @ \o replies]
    /\ served' = next
    /\ UNCHANGED <<client, peer, waitTimes, link, here, there>>

ServeOpen ==
    /\ Reading("OPEN_CONN_REQUEST")
    /\ Answer(<<Dgram("OPEN_CONN_REPLY", 1, None)>>, "initConn")
    /\ UNCHANGED <<auth_pass, filename, servBuf>>

(* Fault: open does not end the login.                                     *)
FaultKeepsLogin ==
    /\ served = "initConn" /\ served' = "free"
    /\ UNCHANGED <<client, peer, auth_pass, waitTimes, filename, servBuf, net, here, there>>

initConn ==
    /\ served = "initConn" /\ served' = "free"
    /\ auth_pass' = FALSE
    /\ UNCHANGED <<client, peer, waitTimes, filename, servBuf, net, here, there>>

ServeAuth ==
    /\ Reading("AUTH_REQUEST")
    /\ LET pass == Payload = Good IN
          /\ auth_pass' = pass
          /\ Answer(<<Dgram("AUTH_REPLY", IF pass THEN 1 ELSE 0, None)>>, "loop")
    /\ UNCHANGED <<filename, servBuf>>

FileList == {n \in Names : there[n] # None}

ServeList ==
    /\ Reading("LIST_REQUEST")
    /\ Answer(<<Dgram("LIST_REPLY", 0, FileList)>>, "free")
    /\ UNCHANGED <<auth_pass, filename, servBuf>>

ServeQuit ==
    /\ Reading("QUIT_REQUEST")
    /\ Answer(<<Dgram("QUIT_REPLY", 0, None)>>, "closing")
    /\ UNCHANGED <<auth_pass, filename, servBuf>>

(* Fault: the file follows whatever the reply said.                        *)
FaultSendsMissing ==
    /\ Reading("GET_REQUEST")
    /\ Answer(<<Dgram("GET_REPLY", 0, None)>>, "sendFile")
    /\ servBuf' = there[Payload]
    /\ UNCHANGED <<auth_pass, filename>>

(* Fault: a missing file has status 1.                                     *)
FaultPromisesMissing ==
    /\ Reading("GET_REQUEST")
    /\ LET file == there[Payload] IN
          /\ Answer(<<Dgram("GET_REPLY", 1, None)>>,
                    IF file = None THEN "loop" ELSE "sendFile")
          /\ servBuf' = file
    /\ UNCHANGED <<auth_pass, filename>>

(* upload comes before the reply: no file, one that never ends, or a file. *)
ServeGet ==
    /\ Reading("GET_REQUEST")
    /\ LET file == there[Payload] IN
          \/ /\ file = None
             /\ Answer(<<Dgram("GET_REPLY", 0, None)>>, "loop")
             /\ UNCHANGED servBuf
          \/ /\ file \in Large
             /\ Answer(<<>>, "upload")
             /\ UNCHANGED servBuf
          \/ /\ file \notin Large \cup {None}
             /\ Answer(<<Dgram("GET_REPLY", 1, None)>>, "sendFile")
             /\ servBuf' = file
    /\ UNCHANGED <<auth_pass, filename>>

SendFile ==
    /\ served = "sendFile" /\ served' = "loop"
    /\ toClient' = [toClient EXCEPT
          ![peer] = Append(@, Dgram("FILE_DATA", 0, servBuf))]
    /\ UNCHANGED <<client, peer, auth_pass, waitTimes, filename, servBuf,
                   link, toServer, here, there>>

ServePut ==
    /\ Reading("PUT_REQUEST")
    /\ filename' = Payload
    /\ Answer(<<Dgram("PUT_REPLY", 0, None)>>, "putFile")
    /\ UNCHANGED <<auth_pass, servBuf>>

(* Fault: the buffer of the get before is stored.                          *)
FaultStoresOldBuffer ==
    /\ served = "putFile" /\ served' = "loop"
    /\ toServer[peer] # <<>>
    /\ toServer' = [toServer EXCEPT ![peer] = Tail(@)]
    /\ there' = [there EXCEPT ![filename] = servBuf]
    /\ UNCHANGED <<client, peer, auth_pass, waitTimes, filename, servBuf,
                   link, toClient, here>>

StoreFile ==
    /\ served = "putFile" /\ served' = "loop"
    /\ toServer[peer] # <<>>
    /\ toServer' = [toServer EXCEPT ![peer] = Tail(@)]
    /\ there' = [there EXCEPT ![filename] = Payload]
    /\ UNCHANGED <<client, peer, auth_pass, waitTimes, filename, servBuf,
                   link, toClient, here>>

Server ==
    \/ Listen \/ Accept \/ LoopTop \/ ServerExit \/ FreeRequest
    \/ ServeOpen \/ initConn \/ ServeAuth \/ ServeList \/ ServeQuit
    \/ ServeGet \/ SendFile \/ ServePut \/ StoreFile

Next ==
    \/ Server
    \/ \E c \in Clients : Command(c) \/ BrokenPipe(c) \/ Reply(c)

Spec == Init /\ [][Next]_vars

(* Scheduling runs the server and every client that has something to read; *)
(* nobody has to type a command.                                           *)
FairSpec ==
    /\ Spec
    /\ WF_vars(Server)
    /\ \A c \in Clients : WF_vars(Reply(c))

-----------------------------------------------------------------------------
Requests == {"OPEN_CONN_REQUEST", "AUTH_REQUEST", "LIST_REQUEST",
             "QUIT_REQUEST", "GET_REQUEST", "PUT_REQUEST"}

ReplyTo == [open |-> "OPEN_CONN_REPLY", auth |-> "AUTH_REPLY",
            ls |-> "LIST_REPLY", quit |-> "QUIT_REPLY", get |-> "GET_REPLY",
            getFile |-> "FILE_DATA", put |-> "PUT_REPLY"]
Waiting == DOMAIN ReplyTo

Dgrams ==
    [type : Requests \cup {ReplyTo[w] : w \in Waiting}, status : {0, 1},
     payload : {None} \cup Names \cup Credentials \cup Contents \cup SUBSET Names]

TypeOK ==
    /\ at \in [Clients -> Waiting \cup {"idle", "gone", "upload", "spin"}]
    /\ clnt_conn \in [Clients -> BOOLEAN]
    /\ clnt_auth \in [Clients -> BOOLEAN]
    /\ name \in [Clients -> Names \cup {None}]
    /\ fileBuf \in [Clients -> Contents \cup {None}]
    /\ served \in {"off", "accept", "loop", "read", "initConn", "free",
                   "sendFile", "putFile", "upload", "closing", "gone"}
    /\ peer \in Clients \cup {None}
    /\ auth_pass \in BOOLEAN
    /\ waitTimes \in 0 .. WaitTimesLim
    /\ filename \in Names \cup {None}
    /\ servBuf \in Contents \cup {None}
    /\ link \in [Clients -> {"none", "queued", "accepted", "fin", "reset", "closed"}]
    /\ toServer \in [Clients -> Seq(Dgrams)]
    /\ toClient \in [Clients -> Seq(Dgrams)]
    /\ here \in [Clients -> Files]
    /\ there \in Files

(* Neither side checks what it reads where it expects one kind of datagram:*)
(* the reply is always the one to the command, and the two datagrams of a  *)
(* file transfer are never taken for one another.                          *)
RepliesMatch ==
    /\ \A c \in Clients : toClient[c] # <<>> =>
          at[c] \in Waiting /\ Head(toClient[c]).type = ReplyTo[at[c]]
    /\ served = "putFile" /\ toServer[peer] # <<>> =>
          Head(toServer[peer]).type = "FILE_DATA"
    /\ served \in {"loop", "read", "free", "initConn"} /\ toServer[peer] # <<>> =>
          Head(toServer[peer]).type \in Requests

(* The client and the server never wait for one another.                   *)
NeverBothWait ==
    /\ served \in {"read", "putFile"} /\ toServer[peer] = <<>>
    /\ at[peer] \in Waiting
    => toClient[peer] # <<>>

(* The server answers list, get and put without looking at auth_pass; the  *)
(* flags of the client see to it that nobody gets there without a login.   *)
OnlyLoggedIn ==
    /\ served = "read" /\ toServer[peer] # <<>>
    /\ Head(toServer[peer]).type \in {"LIST_REQUEST", "GET_REQUEST", "PUT_REQUEST"}
    => auth_pass

(* When nothing is under way, both ends have the same idea of the login.   *)
FlagsAgree ==
    /\ served \in {"loop", "read", "free"} /\ at[peer] = "idle"
    /\ toServer[peer] = <<>> /\ toClient[peer] = <<>>
    => clnt_auth[peer] = auth_pass

(* A client that was told that it is connected, though the connection was  *)
(* reset, never gets to be logged in.                                      *)
LoggedInIsServed == \A c \in Clients : clnt_auth[c] => c = peer

Service == INSTANCE FileService WITH granted <- IF auth_pass THEN {peer} ELSE {}

(* Files are copied whole, by a get or put of the client that is logged in *)
(* at the server at that moment: FileService.                              *)
ServiceSpec == Service!Spec

(* Every command on a connection ends, at the prompt or with its process,  *)
(* also if the server leaves its loop before it has read the request or    *)
(* while a file is under way (ftp_server.cpp:84).  There are three ways for*)
(* it not to: the reset left the client with its own request for a reply;  *)
(* the client asked for a file that upload never gets to the end of; or it *)
(* is in the backlog, and the server waits for the client it accepted or is*)
(* lost in upload.                                                         *)
Answered ==
    \A c \in Clients :
        link[c] \in {"queued", "accepted"} /\ at[c] \in Waiting ~>
            \/ at[c] \in {"idle", "gone"}
            \/ link[c] = "reset" /\ at[c] = "spin"
            \/ /\ link[c] = "accepted" /\ at[c] = "get"
               /\ served = "upload" /\ there[name[c]] \in Large
            \/ /\ link[c] = "queued"
               /\ \/ served = "upload"
                  \/ served = "read" /\ toServer[peer] = <<>>

(* When the client prints "File uploaded." the server may not have the file*)
(* yet, but it will.                                                       *)
Stored ==
    \A n \in Names, x \in Contents :
        served = "putFile" /\ filename = n /\ at[peer] = "put" /\ fileBuf[peer] = x
            ~> there[n] = x
=============================================================================
