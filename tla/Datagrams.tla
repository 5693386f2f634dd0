------------------------------ MODULE Datagrams ------------------------------
(***************************************************************************)
(* A program with a datagram socket, of IPv4 or of IPv6: it makes an       *)
(* address, puts it into an endpoint, receives into the endpoint and sends *)
(* to it, joins and leaves groups, and sets and reads options.             *)
(*                                                                         *)
(* The kernel sees the memory of what it is given.  The histories "meant"  *)
(* and "target" say what the program wanted that memory to name.           *)
(***************************************************************************)
EXTENDS Addresses, Results

CONSTANTS
  Hosts,      (* for each family, the addresses of hosts, as network bytes *)
  Groups,     (* and those of groups                                       *)
  LinkLocal,  (* those of IPv6 that mean nothing without a link            *)
  Links,      (* for each family, what names a network interface: its      *)
              (* address in IPv4, its index in IPv6                        *)
  Ports,
  Sizes,      (* of datagrams                                              *)
  BufSizes,   (* what SO_RCVBUF is set to                                  *)
  MaxBuf      (* the most the kernel makes of it                           *)

Families == {"v4", "v6"}

(* What stands for any interface, and in IPv4 for any source.              *)
AnySource == Zeros(4)

AnyLink(family) == IF family = "v4" THEN Zeros(4) ELSE 0

ASSUME DatagramsAssumption ==
  /\ \A f \in Families : Hosts[f] \cup Groups[f] \subseteq BytesOf(f)
  /\ LinkLocal \subseteq BytesOf("v6")
  /\ Links["v4"] \subseteq BytesOf("v4") \ {AnyLink("v4")}
  /\ Links["v6"] \subseteq Nat \ {0}
  /\ Ports \subseteq Port
  /\ Sizes \subseteq 0 .. Word - 1
  /\ BufSizes \subseteq Nat
  /\ MaxBuf \in Nat

VARIABLES
  family,     (* of the socket, of Address and of Endpoint                 *)
  address,    (* an Address                                                *)
  endpoint,   (* an Endpoint                                               *)
  members,    (* kernel: the groups the socket is a member of              *)
  options,    (* kernel: the socket's options                              *)
  option,     (* the option object, if the last call was a getOption()     *)
  result,     (* what the last call returned                               *)
  meant,      (* history: the address meant by "address"                   *)
  target,     (* history: whom the endpoint is meant to name               *)
  kept,       (* history: was setAddress() called since the endpoint was   *)
              (* filled by the kernel?                                     *)
  last        (* history: the last call, and whether the kernel did it     *)

program == <<address, endpoint, meant, target, kept>>
kernel == <<members, options>>
call == <<option, result, last>>
vars == <<family, program, kernel, call>>

Scopes == IF family = "v4" THEN {0} ELSE {0} \cup Links["v6"]

NoOption == [name |-> "none", value |-> 0]

Values == BufSizes \cup 0 .. MaxBuf \cup {0, 1}

Request ==
  [ group : BytesOf(family), link : Links[family] \cup {AnyLink(family)},
    source : BytesOf("v4") ]

TypeOK ==
  /\ family \in Families
  /\ {address, meant} \subseteq [bytes : BytesOf(family), scope : Scopes]
  /\ {endpoint, target} \subseteq [bytes : BytesOf(family), port : Port, scope : Scopes]
  /\ members \subseteq [ group : BytesOf(family), link : Links[family],
                         source : BytesOf("v4"), request : Request ]
  /\ options \in [{"ReuseAddr", "RcvBuf"} -> Values]
  /\ options["ReuseAddr"] \in {0, 1}
  /\ option \in [name : {"none", "ReuseAddr", "RcvBuf", "NoDelay"}, value : Values]
  /\ result \in [value : Int, code : Errno]
  /\ kept \in BOOLEAN
  /\ last \in [call : {"none", "op", "get", "transmit"}, done : BOOLEAN,
               size : Sizes \cup {0}]

Init ==
  /\ family \in Families
  /\ address = AddressOf(Zeros(AddressSize(family)), 0)
  /\ meant = address
  /\ endpoint = NewEndpoint(family)
  /\ target = endpoint
  /\ kept = FALSE
  /\ members = {}
  /\ options = [ReuseAddr |-> 0, RcvBuf |-> MaxBuf]
  /\ option = NoOption
  /\ result = OpResult(-1, NoError)
  /\ last = [call |-> "none", done |-> FALSE, size |-> 0]

-----------------------------------------------------------------------------
(***************************************************************************)
(* Address(bytes), as addressFromString() and the constants make one too;  *)
(* Address(UInt); setScopeId().                                            *)
(***************************************************************************)
FromBytes(bytes) ==
  /\ address' = AddressOf(bytes, 0)
  /\ meant' = AddressOf(bytes, 0)
  /\ UNCHANGED <<family, endpoint, target, kept, kernel, call>>

FromNumber(number) ==
  /\ family = "v4"
  /\ address' = AddressOf(FromUInt(number), 0)
  /\ meant' = AddressOf(number, 0)
  /\ UNCHANGED <<family, endpoint, target, kept, kernel, call>>

SetScopeId(id) ==
  /\ family = "v6"
  /\ address' = [address EXCEPT !.scope = id]
  /\ meant' = [meant EXCEPT !.scope = id]
  /\ UNCHANGED <<family, endpoint, target, kept, kernel, call>>

(* endpoint.setAddress(address), endpoint.setPort(port), Endpoint{address, *)
(* port}, and address = endpoint.address().                                *)
PutAddress ==
  /\ endpoint' = SetAddress(family, endpoint, address)
  /\ target' = [target EXCEPT !.bytes = meant.bytes, !.scope = meant.scope]
  /\ kept' = TRUE
  /\ UNCHANGED <<family, address, meant, kernel, call>>

PutPort(port) ==
  /\ endpoint' = SetPort(endpoint, port)
  /\ target' = [target EXCEPT !.port = port]
  /\ UNCHANGED <<family, address, meant, kept, kernel, call>>

Construct(port) ==
  /\ endpoint' = MakeEndpoint(family, address, port)
  /\ target' = [bytes |-> meant.bytes, port |-> port, scope |-> meant.scope]
  /\ kept' = TRUE
  /\ UNCHANGED <<family, address, meant, kernel, call>>

TakeAddress ==
  /\ address' = GetAddress(family, endpoint)
  /\ meant' = AddressOf(target.bytes, target.scope)
  /\ UNCHANGED <<family, endpoint, target, kept, kernel, call>>

-----------------------------------------------------------------------------
(* What a call returns, with an errno that some call before has left there *)
(* if this one worked.                                                     *)
ReturnsOp(kind, done) ==
  /\ result' = OpResult(IF done THEN 0 ELSE -1, "EINVAL")
  /\ last' = [call |-> kind, done |-> done, size |-> 0]

Transmits(done, size) ==
  /\ result' = TransmitResult(IF done THEN size ELSE -1, "EAGAIN")
  /\ last' = [call |-> "transmit", done |-> done, size |-> IF done THEN size ELSE 0]
  /\ option' = NoOption

(***************************************************************************)
(* recvfrom(): the kernel fills the endpoint's memory with the sender's    *)
(* address, and with its link if the address needs one.                    *)
(***************************************************************************)
Peer ==
  { p \in [bytes : Hosts[family], port : Ports, scope : Scopes] :
      p.scope = 0 <=> p.bytes \notin LinkLocal }

RecvFrom(peer, size) ==
  /\ endpoint' = peer
  /\ target' = peer
  /\ kept' = FALSE
  /\ Transmits(TRUE, size)
  /\ UNCHANGED <<family, address, meant, kernel>>

RecvFromFails ==
  /\ Transmits(FALSE, 0)
  /\ UNCHANGED <<family, program, kernel>>

(* sendto(): a link-local address must come with its link.                 *)
Routable(to) == to.bytes \in LinkLocal => to.scope # 0

SendTo(size) ==
  /\ \/ Routable(endpoint) /\ Transmits(TRUE, size)
     \/ Transmits(FALSE, 0)
  /\ UNCHANGED <<family, program, kernel>>

-----------------------------------------------------------------------------
(***************************************************************************)
(* JoinGroup, LeaveGroup, JoinGroupSource and LeaveGroupSource of address  *)
(* on an interface.  An IPv6 request for no interface is for the one in    *)
(* the scope id.                                                           *)
(***************************************************************************)
RequestedWithoutScope(link, source) ==
  [ group  |-> CopyOf(family, address.bytes),
    link   |-> IF family = "v4" THEN CopyOf(family, link) ELSE link,
    source |-> CopyOf("v4", source) ]

Requested(link, source) ==
  [ group  |-> CopyOf(family, address.bytes),
    link   |-> IF family = "v4" THEN CopyOf(family, link)
               ELSE IF link # 0 THEN link ELSE address.scope,
    source |-> CopyOf("v4", source) ]

(* What the program wants with it: the link in a scope id only if that was *)
(* not lost on the way through an endpoint.                                *)
Wanted(link, source) ==
  [ group  |-> meant.bytes,
    link   |-> IF family = "v6" /\ link = 0 /\ address.scope = meant.scope
               THEN meant.scope ELSE link,
    source |-> source ]

IsGroup(bytes) == IF family = "v4" THEN bytes[1] \in 224 .. 239 ELSE bytes[1] = 255

(* The kernel's part: any interface is one of its choice.                  *)
Fits(request, link) == request.link \in {link, AnyLink(family)}

Joins(request, wanted) ==
  /\ IsGroup(request.group)
  /\ \E link \in Links[family] :
       /\ Fits(request, link)
       /\ \A m \in members :
            m.group = request.group /\ m.link = link =>
              m.source # request.source /\ AnySource \notin {m.source, request.source}
       /\ members' = members \cup
            {[ group |-> request.group, link |-> link, source |-> request.source,
               request |-> wanted ]}

Leaves(request) ==
  \E m \in members :
    /\ m.group = request.group
    /\ request.source \in {m.source, AnySource}
    /\ Fits(request, m.link)
    /\ members' = members \ {m}

Source == IF family = "v4" THEN {AnySource} \cup Hosts["v4"] ELSE {AnySource}

Join(link, source) ==
  /\ \/ Joins(Requested(link, source), Wanted(link, source)) /\ ReturnsOp("op", TRUE)
     \/ UNCHANGED members /\ ReturnsOp("op", FALSE)
  /\ option' = NoOption
  /\ UNCHANGED <<family, program, options>>

Leave(link, source) ==
  /\ \/ Leaves(Requested(link, source)) /\ ReturnsOp("op", TRUE)
     \/ UNCHANGED members /\ ReturnsOp("op", FALSE)
  /\ option' = NoOption
  /\ UNCHANGED <<family, program, options>>

-----------------------------------------------------------------------------
(***************************************************************************)
(* setOption() and getOption().  The kernel doubles SO_RCVBUF, up to a     *)
(* limit, and knows no TCP_NODELAY on this socket.                         *)
(***************************************************************************)
KernelValue(name, value) ==
  IF name = "ReuseAddr" THEN value
  ELSE IF 2 * value > MaxBuf THEN MaxBuf ELSE 2 * value

SetOption(name, value) ==
  /\ option' = NoOption
  /\ \/ /\ name \in DOMAIN options
        /\ options' = [options EXCEPT ![name] = KernelValue(name, value)]
        /\ ReturnsOp("op", TRUE)
     \/ UNCHANGED options /\ ReturnsOp("op", FALSE)
  /\ UNCHANGED <<family, program, members>>

(* Into an option that is default-constructed; value() of a BooleanOption  *)
(* is true for any number but 0.                                           *)
OptionValue(name, value_) ==
  IF name = "RcvBuf" THEN value_ ELSE IF value_ # 0 THEN 1 ELSE 0

GetOption(name) ==
  /\ \/ /\ name \in DOMAIN options
        /\ option' = [name |-> name, value |-> OptionValue(name, options[name])]
        /\ ReturnsOp("get", TRUE)
     \/ /\ option' = [name |-> name, value |-> 0]
        /\ ReturnsOp("get", FALSE)
  /\ UNCHANGED <<family, program, kernel>>

-----------------------------------------------------------------------------
Next ==
  \/ \E bytes \in Hosts[family] \cup Groups[family] : FromBytes(bytes) \/ FromNumber(bytes)
  \/ \E id \in Scopes : SetScopeId(id)
  \/ PutAddress \/ TakeAddress
  \/ \E port \in Ports : PutPort(port) \/ Construct(port)
  \/ \E size \in Sizes : SendTo(size) \/ \E peer \in Peer : RecvFrom(peer, size)
  \/ RecvFromFails
  \/ \E link \in Links[family] \cup {AnyLink(family)}, source \in Source :
       Join(link, source) \/ Leave(link, source)
  \/ \E value \in {0, 1} : SetOption("ReuseAddr", value) \/ SetOption("NoDelay", value)
  \/ \E value \in BufSizes : SetOption("RcvBuf", value)
  \/ \E name \in {"ReuseAddr", "RcvBuf", "NoDelay"} : GetOption(name)

Spec == Init /\ [][Next]_vars
-----------------------------------------------------------------------------
(***************************************************************************)
(* The address in memory is the one meant, in the network's byte order,    *)
(* however often it was converted; its scope id is the one meant or none.  *)
(***************************************************************************)
AddressAsMeant ==
  /\ address.bytes = meant.bytes
  /\ address.scope \in {0, meant.scope}

(***************************************************************************)
(* A datagram goes to the address and the port that were meant, and if the *)
(* endpoint was filled by the kernel and given no address since, also out  *)
(* of the right link: an answer reaches who asked.  With setAddress() the  *)
(* endpoint keeps the link it had.                                         *)
(***************************************************************************)
ReachesMeant ==
  /\ endpoint.bytes = target.bytes
  /\ endpoint.port = target.port
  /\ GetPort(endpoint) = target.port
  /\ ~kept => endpoint.scope = target.scope

(***************************************************************************)
(* The socket is a member of such groups only as the program asked for, on *)
(* the link it asked for unless the address came out of an endpoint, and   *)
(* from the source it asked for; and isMulticast() is true of them.        *)
(***************************************************************************)
JoinedAsMeant ==
  \A m \in members :
    /\ m.group = m.request.group
    /\ m.source = m.request.source
    /\ Fits(m.request, m.link)
    /\ IsMulticast(family, AddressOf(m.group, 0))

(***************************************************************************)
(* A call that failed is told from one that worked: by the error code of   *)
(* every result, whatever errno was before, by the test of an OpResult,    *)
(* and by that of a TransmitResult at least in that no failed transmission *)
(* tests true.  bytes() is what was transmitted, and getOption() gives     *)
(* what the kernel made of the value, or the default if it failed.         *)
(***************************************************************************)
ErrorsReported ==
  /\ last.call # "none" => (result.code = NoError <=> last.done)
  /\ last.call \in {"op", "get"} => (OpSucceeded(result) <=> last.done)
  /\ last.call = "transmit" =>
       /\ Succeeded(result) => last.done
       /\ last.done => Bytes(result) = last.size
  /\ last.call = "get" =>
       option.value = IF last.done THEN options[option.name] ELSE 0

(***************************************************************************)
(* result.h:54 on the test of a TransmitResult: "Return true if operation  *)
(* was success".                                                           *)
(***************************************************************************)
SuccessIsTrue == last.call = "transmit" /\ last.done => Succeeded(result)

(***************************************************************************)
(* The inductive invariant is all of it: what is meant is in memory after  *)
(* every conversion, so it is what the kernel gets in every call.          *)
(***************************************************************************)
IInv ==
  /\ TypeOK
  /\ AddressAsMeant
  /\ ReachesMeant
  /\ JoinedAsMeant
  /\ ErrorsReported
=============================================================================
