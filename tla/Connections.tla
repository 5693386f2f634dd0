----------------------------- MODULE Connections -----------------------------
(***************************************************************************)
(* Programs that connect and a program that accepts: the loop of           *)
(* examples/connect.cpp over what resolve() found, run by several clients, *)
(* and examples/accept.cpp, which accepts one connection and ends.         *)
(*                                                                         *)
(* Between them is the queue of established connections in the kernel.  A  *)
(* connection is named after its client, and so is the client's address.   *)
(***************************************************************************)
EXTENDS Results, Sequences, FiniteSets

CONSTANTS
  Clients,
  Words,          (* what names are made of, apart from colons             *)
  Names,          (* what the users name: a host and a port, or a host     *)
  Endpoints,      (* what names resolve to                                 *)
  Server,         (* the endpoint the server binds                         *)
  Unsupported,    (* endpoints of a family the host has not got            *)
  Directory,      (* external: the lists of endpoints of a host and a port *)
  Backlog,        (* of listen()                                           *)
  EndpointSize,   (* sizeof(sockaddr_in)                                   *)
  Lengths         (* what the uninitialised socklen_t of accept() may hold;*)
                  (* -1 stands for 2^31 and more                           *)

Colon == ":"

(* A text is a sequence of words and colons; without a port, Null stands   *)
(* for it, as in the call.                                                 *)
Texts == Seq(Words \cup {Colon})
Null == <<"nullptr">>

ASSUME ConnectionsAssumption ==
  /\ Colon \notin Words
  /\ Names \subseteq [host : Texts, port : Seq(Words) \cup {Null}]
  /\ Server \in Endpoints
  /\ Unsupported \subseteq Endpoints
  /\ \A request \in DOMAIN Directory : Directory[request] \subseteq Seq(Endpoints)
  /\ Backlog \in Nat
  /\ EndpointSize \in Nat \ {0}
  /\ Lengths \subseteq Nat \cup {-1}
  /\ Nobody \notin Clients

VARIABLES
  named,      (* history: what the user of each client named               *)
  asked,      (* history: what getaddrinfo() was asked for                 *)
  list,       (* what resolve() gave the client                            *)
  next,       (* the iterator over it                                      *)
  s,          (* does the client's s hold a socket?                        *)
  socket,     (* does its socket?                                          *)
  open,       (* kernel: how many sockets the client has open              *)
  refused,    (* history: the endpoints of the list that did not answer    *)
  cpc,        (* where the client is                                       *)
  queue,      (* kernel: the connections nobody accepted yet               *)
  listening,  (* kernel: is there a listening socket on Server?            *)
  spc,        (* where the server is                                       *)
  result,     (* the SocketResult of accept()                              *)
  client,     (* the endpoint that accept() filled in                      *)
  accepted,   (* history: the connections the server got                   *)
  dropped     (* history: those the kernel closed, nobody having accepted  *)
              (* them                                                      *)

nameVars == <<named, asked>>
clientVars == <<nameVars, list, next, s, socket, open, refused, cpc>>
serverVars == <<listening, spc, result, client, accepted, dropped>>
vars == <<clientVars, queue, serverVars>>

ClientSteps == {"resolve", "create", "connect", "connected", "failed", "error"}
ServerSteps == {"bind", "listen", "accept", "handle", "done", "terminated"}

Unnamed == [host |-> <<>>, port |-> Null]

TypeOK ==
  /\ named \in [Clients -> Names \cup {Unnamed}]
  /\ asked \in [Clients -> [host : Texts, port : Texts \cup {Null}]]
  /\ list \in [Clients -> Seq(Endpoints)]
  /\ next \in [Clients -> Nat \ {0}]
  /\ \A c \in Clients : next[c] <= Len(list[c]) + 1
  /\ {s, socket} \subseteq [Clients -> BOOLEAN]
  /\ open \in [Clients -> Nat]
  /\ refused \in [Clients -> SUBSET Nat]
  /\ cpc \in [Clients -> ClientSteps]
  /\ queue \in Seq(Clients) /\ Len(queue) <= Backlog + 1
  /\ listening \in BOOLEAN
  /\ spc \in ServerSteps
  /\ result \in [socket : Clients \cup {Nobody}, code : Errno]
  /\ client \in Clients \cup {Nobody}
  /\ accepted \in Seq(Clients)
  /\ dropped \in Seq(Clients)

Init ==
  /\ named = [c \in Clients |-> Unnamed]
  /\ asked = [c \in Clients |-> Unnamed]
  /\ list = [c \in Clients |-> <<>>]
  /\ next = [c \in Clients |-> 1]
  /\ s = [c \in Clients |-> FALSE]
  /\ socket = [c \in Clients |-> FALSE]
  /\ open = [c \in Clients |-> 0]
  /\ refused = [c \in Clients |-> {}]
  /\ cpc = [c \in Clients |-> "resolve"]
  /\ queue = <<>>
  /\ listening = FALSE
  /\ spc = "bind"
  /\ result = SocketResult(Nobody, NoError)
  /\ client = Nobody
  /\ accepted = <<>>
  /\ dropped = <<>>

-----------------------------------------------------------------------------
Goes(c, step) == cpc' = [cpc EXCEPT ![c] = step]

(***************************************************************************)
(* resolve(protocol, address) splits the text at the last colon and asks   *)
(* for all of it if there is none.                                         *)
(***************************************************************************)
Text(name) ==
  IF name.port = Null THEN name.host ELSE name.host \o <<Colon>> \o name.port

Colons(text) == {i \in DOMAIN text : text[i] = Colon}

SplitAt(text, found) ==
  [host |-> SubSeq(text, 1, found - 1), port |-> SubSeq(text, found + 1, Len(text))]

RequestFirst(text) ==
  IF Colons(text) = {} THEN [host |-> text, port |-> Null]
  ELSE SplitAt(text, CHOOSE i \in Colons(text) : \A j \in Colons(text) : i <= j)

Request(text) ==
  IF Colons(text) = {} THEN [host |-> text, port |-> Null]
  ELSE SplitAt(text, CHOOSE i \in Colons(text) : \A j \in Colons(text) : i >= j)

Found(request) ==
  {<<>>} \cup IF request \in DOMAIN Directory THEN Directory[request] ELSE {}

(* What getaddrinfo() returns is ignored: it failed if no list came.       *)
Resolve(c) ==
  /\ cpc[c] = "resolve"
  /\ \E name \in Names :
       /\ named' = [named EXCEPT ![c] = name]
       /\ asked' = [asked EXCEPT ![c] = Request(Text(name))]
       /\ \E l \in Found(Request(Text(name))) :
            /\ list' = [list EXCEPT ![c] = l]
            /\ Goes(c, IF l = <<>> THEN "error" ELSE "create")
  /\ UNCHANGED <<next, s, socket, open, refused, queue, serverVars>>

AtEndOneEarly(c) == next[c] >= Len(list[c])
AtEnd(c) == next[c] > Len(list[c])

Endpoint(c) == list[c][next[c]]

(* Socket::create() throws if the family is not supported, or if there are *)
(* too many open files: main() ends with the loop.                         *)
Create(c) ==
  /\ cpc[c] = "create"
  /\ ~AtEnd(c)
  /\ Endpoint(c) \notin Unsupported
  /\ s' = [s EXCEPT ![c] = TRUE]
  /\ open' = [open EXCEPT ![c] = @ + 1]
  /\ Goes(c, "connect")
  /\ UNCHANGED <<nameVars, list, next, socket, refused, queue, serverVars>>

CreateThrows(c) ==
  /\ cpc[c] = "create"
  /\ ~AtEnd(c)
  /\ Goes(c, "error")
  /\ UNCHANGED <<nameVars, list, next, s, socket, open, refused, queue, serverVars>>

(***************************************************************************)
(* connect() succeeds: socket = std::move(s), which leaves s without one,  *)
(* and the loop is left.                                                   *)
(***************************************************************************)
Answers(c) == Endpoint(c) = Server /\ listening

ConnectWithoutBreak(c) ==
  /\ cpc[c] = "connect"
  /\ Answers(c)
  /\ Len(queue) <= Backlog
  /\ queue' = Append(queue, c)
  /\ socket' = [socket EXCEPT ![c] = TRUE]
  /\ s' = [s EXCEPT ![c] = FALSE]
  /\ open' = [open EXCEPT ![c] = IF socket[c] THEN @ - 1 ELSE @]
  /\ next' = [next EXCEPT ![c] = @ + 1]
  /\ Goes(c, "create")
  /\ UNCHANGED <<nameVars, list, refused, serverVars>>

Connect(c) ==
  /\ cpc[c] = "connect"
  /\ Answers(c)
  /\ Len(queue) <= Backlog
  /\ queue' = Append(queue, c)
  /\ socket' = [socket EXCEPT ![c] = TRUE]
  /\ s' = [s EXCEPT ![c] = FALSE]
  /\ Goes(c, "connected")
  /\ UNCHANGED <<nameVars, list, next, open, refused, serverVars>>

(* It is refused, unreachable, or times out: s is destroyed at the end of  *)
(* the loop's body, and the iterator moves on.                             *)
ConnectFailsKeeping(c) ==
  /\ cpc[c] = "connect"
  /\ s' = [s EXCEPT ![c] = FALSE]
  /\ refused' = [refused EXCEPT ![c] = @ \cup {next[c]}]
  /\ next' = [next EXCEPT ![c] = @ + 1]
  /\ Goes(c, "create")
  /\ UNCHANGED <<nameVars, list, socket, open, queue, serverVars>>

ConnectFails(c) ==
  /\ cpc[c] = "connect"
  /\ s' = [s EXCEPT ![c] = FALSE]
  /\ open' = [open EXCEPT ![c] = @ - 1]
  /\ refused' = [refused EXCEPT ![c] = @ \cup {next[c]}]
  /\ next' = [next EXCEPT ![c] = @ + 1]
  /\ Goes(c, "create")
  /\ UNCHANGED <<nameVars, list, socket, queue, serverVars>>

LoopEnds(c) ==
  /\ cpc[c] = "create"
  /\ AtEnd(c)
  /\ Goes(c, IF socket[c] THEN "connected" ELSE "failed")
  /\ UNCHANGED <<nameVars, list, next, s, socket, open, refused, queue, serverVars>>

ClientStep(c) ==
  \/ Resolve(c) \/ Create(c) \/ CreateThrows(c)
  \/ Connect(c) \/ ConnectFails(c) \/ LoopEnds(c)

-----------------------------------------------------------------------------
(***************************************************************************)
(* accept.cpp only complains of a bind() or listen() that failed and goes  *)
(* on: a socket that is not bound listens on some other port, and one that *)
(* does not listen accepts nothing.                                        *)
(***************************************************************************)
Bind ==
  /\ spc = "bind"
  /\ spc' = "listen"
  /\ UNCHANGED <<clientVars, queue, listening, result, client, accepted, dropped>>

Listen ==
  /\ spc = "listen"
  /\ spc' = "accept"
  /\ listening' \in BOOLEAN
  /\ UNCHANGED <<clientVars, queue, result, client, accepted, dropped>>

(* accept(socket), with the kernel's answer.                               *)
AcceptReturns(value, errno) ==
  /\ spc = "accept"
  /\ result' = SocketResult(value, errno)
  /\ spc' = "handle"

Accept ==
  /\ listening /\ queue # <<>>
  /\ AcceptReturns(Head(queue), NoError)
  /\ queue' = Tail(queue)
  /\ accepted' = Append(accepted, Head(queue))
  /\ UNCHANGED <<clientVars, listening, client, dropped>>

AcceptErrno == IF listening THEN {"EMFILE"} ELSE {"EINVAL"}

AcceptFails ==
  /\ \E errno \in AcceptErrno : AcceptReturns(Nobody, errno)
  /\ UNCHANGED <<clientVars, queue, listening, client, accepted, dropped>>

(***************************************************************************)
(* accept(socket, endpoint) hands the kernel a length it never set.  The   *)
(* kernel copies no more than that of the address, and sets it to the full *)
(* length; a negative one makes it close the connection and fail; and when *)
(* accept() fails the length stays what it was.  resize() then throws on   *)
(* any other length than the endpoint's, through noexcept: the process     *)
(* ends, and its listening socket with it.                                 *)
(***************************************************************************)
AcceptFrom(len) ==
  /\ listening /\ queue # <<>>
  /\ len >= 0
  /\ AcceptReturns(Head(queue), NoError)
  /\ client' = IF len >= EndpointSize THEN Head(queue) ELSE Nobody
  /\ queue' = Tail(queue)
  /\ accepted' = Append(accepted, Head(queue))
  /\ UNCHANGED <<clientVars, listening, dropped>>

ResizeThrows(len) == len # EndpointSize

FailFrom(len, errno) ==
  /\ spc = "accept"
  /\ result' = SocketResult(Nobody, errno)
  /\ spc' = IF ResizeThrows(len) THEN "terminated" ELSE "handle"
  /\ listening' = (listening /\ ~ResizeThrows(len))
  /\ UNCHANGED <<clientVars, client, accepted>>

AcceptFromNegative(len) ==
  /\ listening /\ queue # <<>>
  /\ len < 0
  /\ FailFrom(len, "EINVAL")
  /\ queue' = Tail(queue)
  /\ dropped' = Append(dropped, Head(queue))

AcceptFromFails(len) ==
  /\ \E errno \in AcceptErrno : FailFrom(len, errno)
  /\ UNCHANGED <<queue, dropped>>

(* The connection or the error is printed, and main() returns: the two     *)
(* sockets are closed on the way.                                          *)
Handle ==
  /\ spc = "handle"
  /\ spc' = "done"
  /\ listening' = FALSE
  /\ UNCHANGED <<clientVars, queue, result, client, accepted, dropped>>

(* The kernel closes the connections that waited at a socket that is gone. *)
KernelCloses ==
  /\ ~listening /\ queue # <<>>
  /\ queue' = Tail(queue)
  /\ dropped' = Append(dropped, Head(queue))
  /\ UNCHANGED <<clientVars, listening, spc, result, client, accepted>>

Accepts ==
  \/ Accept
  \/ \E len \in Lengths : AcceptFrom(len) \/ AcceptFromNegative(len)

AcceptsNone == AcceptFails \/ \E len \in Lengths : AcceptFromFails(len)

ServerStep == Bind \/ Listen \/ Accepts \/ AcceptsNone \/ Handle

-----------------------------------------------------------------------------
(* The programs end; the server waits where nobody connects.               *)
Next == (\E c \in Clients : ClientStep(c)) \/ ServerStep \/ KernelCloses

Spec == Init /\ [][Next]_vars

-----------------------------------------------------------------------------
Count(c, seq) == Cardinality({i \in DOMAIN seq : seq[i] = c})

(***************************************************************************)
(* getaddrinfo() is asked for the host and the port that the user named,   *)
(* also if the host is an IPv6 address, with colons of its own; then only  *)
(* with a port, as its last word is taken for one otherwise.               *)
(***************************************************************************)
ResolvesWhatWasNamed ==
  \A c \in Clients :
    named[c].port # Null \/ Colons(named[c].host) = {} => asked[c] = named[c]

(***************************************************************************)
(* A client has one connection if it says "Connected!" and none otherwise: *)
(* in the queue, accepted, or closed by the kernel, as accept() failed or  *)
(* the server ended, and in one of them only.                              *)
(***************************************************************************)
OneConnection ==
  \A c \in Clients :
    Count(c, queue) + Count(c, accepted) + Count(c, dropped)
      = IF cpc[c] = "connected" THEN 1 ELSE 0

(***************************************************************************)
(* The loop over the endpoints leaks no socket: the client has those open  *)
(* that s and socket hold, one when it is connected and none at any other  *)
(* end.                                                                    *)
(***************************************************************************)
SocketsClosed ==
  \A c \in Clients :
    /\ open[c] = (IF s[c] THEN 1 ELSE 0) + (IF socket[c] THEN 1 ELSE 0)
    /\ cpc[c] \in {"failed", "error", "connected"} =>
         open[c] = IF cpc[c] = "connected" THEN 1 ELSE 0

(***************************************************************************)
(* "Can't connect" is said only when every endpoint was tried in vain.     *)
(***************************************************************************)
FailedMeansAllTried ==
  \A c \in Clients : cpc[c] = "failed" => refused[c] = 1 .. Len(list[c])

(***************************************************************************)
(* The result of accept() is true if and only if it holds a socket, which  *)
(* is the one accepted last, and otherwise says why there is none.         *)
(***************************************************************************)
ResultIsTrue ==
  spc = "handle" =>
    IF HasSocket(result) THEN /\ accepted # <<>>
                              /\ result.socket = accepted[Len(accepted)]
                              /\ result.code = NoError
                         ELSE result.code # NoError

(***************************************************************************)
(* An accept() that failed is reported: accept.cpp:50-52 prints "Error: ". *)
(***************************************************************************)
FailureIsReported == spc # "terminated"
=============================================================================
