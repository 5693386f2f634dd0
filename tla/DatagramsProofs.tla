--------------------------- MODULE DatagramsProofs ---------------------------
(***************************************************************************)
(* What the program means is what the kernel gets: the invariant of the    *)
(* datagram program, for either byte order and any addresses, links and    *)
(* ports.                                                                  *)
(***************************************************************************)
EXTENDS Datagrams, SequenceTheorems, TLAPS

-----------------------------------------------------------------------------
(* Bytes are sequences, and a sequence reversed twice is itself.           *)
LEMMA TuplesAreSequences ==
  ASSUME NEW n \in Nat, NEW S, NEW s \in [1 .. n -> S]
  PROVE  s \in Seq(S) /\ Len(s) = n
<1>1. s \in Seq(S)
  BY SeqDef
<1>2. DOMAIN s = 1 .. Len(s) /\ Len(s) \in Nat
  BY <1>1, LenProperties
<1>3. QED
  BY <1>1, <1>2

LEMMA ReversedTwice ==
  ASSUME NEW n \in Nat, NEW S, NEW s \in [1 .. n -> S]
  PROVE  Reverse(Reverse(s)) = s
<1> DEFINE r == Reverse(s)
<1>1. Len(s) = n
  BY TuplesAreSequences
<1>2. r = [i \in 1 .. n |-> s[n - i + 1]]
  BY <1>1 DEF Reverse
<1>3. r \in [1 .. n -> S]
  BY <1>2
<1>4. Len(r) = n
  BY <1>3, TuplesAreSequences
<1> HIDE DEF r
<1>5. Reverse(r) = [i \in 1 .. n |-> r[n - i + 1]]
  BY <1>4 DEF Reverse
<1>6. \A i \in 1 .. n : r[n - i + 1] = s[i]
  BY <1>2
<1>7. Reverse(r) = [i \in 1 .. n |-> s[i]]
  BY <1>5, <1>6
<1>8. QED
  BY <1>7 DEF r

LEMMA OrderUndone ==
  ASSUME NEW n \in Nat, NEW b \in [1 .. n -> Byte]
  PROVE  /\ Store(HostToNetwork(b)) = b
         /\ NetworkToHost(Load(b)) = b
  BY ReversedTwice, AddressesAssumption DEF Store, Load, HostToNetwork, NetworkToHost

(* However bytes go in and out of an endpoint, they stay the same.         *)
LEMMA CopiesAreSame ==
  ASSUME NEW f \in Families, NEW b \in BytesOf(f)
  PROVE  CopyOf(f, b) = b
<1>1. CASE f = "v4"
  <2>1. b \in [1 .. 4 -> Byte]
    BY <1>1 DEF BytesOf, AddressSize
  <2>2. ToUint(b) = b /\ FromUInt(b) = b
    BY <2>1, OrderUndone DEF ToUint, FromUInt
  <2>3. QED
    BY <1>1, <2>2 DEF CopyOf
<1>2. CASE f = "v6"
  BY <1>2 DEF CopyOf
<1>3. QED
  BY <1>1, <1>2 DEF Families

LEMMA NumbersAreSame ==
  ASSUME NEW b \in BytesOf("v4")
  PROVE  FromUInt(b) = b /\ ToUint(b) = b
  BY OrderUndone DEF BytesOf, AddressSize, FromUInt, ToUint

LEMMA PortsAreSame ==
  ASSUME NEW p \in Port
  PROVE  Store(HostToNetwork(p)) = p /\ NetworkToHost(Load(p)) = p
  BY OrderUndone DEF Port

(* isMulticast() is true of what the kernel takes for a group.             *)
LEMMA GroupsAreMulticast ==
  ASSUME family \in Families, NEW b \in BytesOf(family), IsGroup(b)
  PROVE  IsMulticast(family, AddressOf(b, 0))
<1>1. CASE family = "v4"
  <2>1. ToUint(b) = b
    BY <1>1, NumbersAreSame
  <2>2. b[1] \in 224 .. 239
    BY <1>1 DEF IsGroup
  <2>3. b[1] \div 16 = 14
    BY <2>2
  <2>4. QED
    BY <1>1, <2>1, <2>3 DEF IsMulticast, AddressOf
<1>2. CASE family = "v6"
  BY <1>2 DEF IsMulticast, IsGroup, AddressOf
<1>3. QED
  BY <1>1, <1>2 DEF Families

-----------------------------------------------------------------------------
LEMMA ZerosAreBytes ==
  /\ AnySource \in BytesOf("v4")
  /\ \A f \in Families : Zeros(AddressSize(f)) \in BytesOf(f)
  /\ Zeros(2) \in Port
BY DEF Zeros, BytesOf, AddressSize, Families, Port, Byte, AnySource

LEMMA InitHolds == Init => IInv
<1> SUFFICES ASSUME Init PROVE IInv
  OBVIOUS
<1>1. /\ family \in Families
      /\ Zeros(AddressSize(family)) \in BytesOf(family)
      /\ Zeros(2) \in Port
  BY ZerosAreBytes DEF Init
<1>2. MaxBuf \in Values /\ 0 \in Values /\ 0 \in Scopes
  BY DatagramsAssumption DEF Values, Scopes
<1>3. TypeOK
  <2>1. {address, meant} \subseteq [bytes : BytesOf(family), scope : Scopes]
    BY <1>1, <1>2 DEF Init, AddressOf
  <2>2. {endpoint, target} \subseteq [bytes : BytesOf(family), port : Port, scope : Scopes]
    BY <1>1, <1>2 DEF Init, NewEndpoint
  <2>3. options \in [{"ReuseAddr", "RcvBuf"} -> Values] /\ options["ReuseAddr"] = 0
    BY <1>2 DEF Init
  <2>4. result \in [value : Int, code : Errno]
    BY DEF Init, OpResult, NoError, Errno
  <2>5. /\ members = {} /\ kept \in BOOLEAN
        /\ option \in [name : {"none", "ReuseAddr", "RcvBuf", "NoDelay"}, value : Values]
        /\ last \in [call : {"none", "op", "get", "transmit"}, done : BOOLEAN,
                     size : Sizes \cup {0}]
    BY <1>2 DEF Init, NoOption
  <2>6. QED
    BY <1>1, <2>1, <2>2, <2>3, <2>4, <2>5 DEF TypeOK
<1>4. AddressAsMeant /\ JoinedAsMeant /\ ErrorsReported
  BY <1>1 DEF Init, AddressAsMeant, JoinedAsMeant, ErrorsReported, AddressOf
<1>5. ReachesMeant
  BY <1>1, PortsAreSame DEF Init, ReachesMeant, NewEndpoint, GetPort
<1>6. QED
  BY <1>3, <1>4, <1>5 DEF IInv

(***************************************************************************)
(* The parts of the invariant that a step leaves alone if it changes only  *)
(* the program's objects, or only the kernel and what it returned.         *)
(***************************************************************************)
ProgramInv ==
  /\ {address, meant} \subseteq [bytes : BytesOf(family), scope : Scopes]
  /\ {endpoint, target} \subseteq [bytes : BytesOf(family), port : Port, scope : Scopes]
  /\ kept \in BOOLEAN
  /\ AddressAsMeant
  /\ endpoint.bytes = target.bytes
  /\ endpoint.port = target.port
  /\ ~kept => endpoint.scope = target.scope

MembersInv ==
  /\ members \subseteq [ group : BytesOf(family), link : Links[family],
                         source : BytesOf("v4"), request : Request ]
  /\ JoinedAsMeant

CallInv ==
  /\ options \in [{"ReuseAddr", "RcvBuf"} -> Values]
  /\ options["ReuseAddr"] \in {0, 1}
  /\ option \in [name : {"none", "ReuseAddr", "RcvBuf", "NoDelay"}, value : Values]
  /\ result \in [value : Int, code : Errno]
  /\ last \in [call : {"none", "op", "get", "transmit"}, done : BOOLEAN,
               size : Sizes \cup {0}]
  /\ ErrorsReported

LEMMA Parts ==
  IInv <=> family \in Families /\ ProgramInv /\ MembersInv /\ CallInv
<1>1. IInv => family \in Families /\ ProgramInv /\ MembersInv /\ CallInv
  BY DEF IInv, TypeOK, ReachesMeant, ProgramInv, MembersInv, CallInv
<1>2. ASSUME family \in Families, ProgramInv, MembersInv, CallInv
      PROVE  IInv
  <2>1. TypeOK
    BY <1>2 DEF TypeOK, ProgramInv, MembersInv, CallInv
  <2>2. endpoint.port \in Port
    BY <1>2 DEF ProgramInv
  <2>3. ReachesMeant
    BY <1>2, <2>2, PortsAreSame DEF ProgramInv, ReachesMeant, GetPort
  <2>4. QED
    BY <1>2, <2>1, <2>3 DEF IInv, ProgramInv, MembersInv, CallInv
<1>3. QED
  BY <1>1, <1>2

LEMMA ProgramStays ==
  ASSUME ProgramInv, UNCHANGED <<family, program>>
  PROVE  ProgramInv'
BY DEF ProgramInv, program, AddressAsMeant, Scopes

LEMMA MembersStay ==
  ASSUME MembersInv, UNCHANGED <<family, members>>
  PROVE  MembersInv'
BY DEF MembersInv, JoinedAsMeant, Request, Fits

LEMMA CallStays ==
  ASSUME CallInv, UNCHANGED <<options, call>>
  PROVE  CallInv'
BY DEF CallInv, call, ErrorsReported

(***************************************************************************)
(* The objects of the program.                                             *)
(***************************************************************************)
LEMMA MakingAddresses ==
  ASSUME IInv,
         \/ \E bytes \in Hosts[family] \cup Groups[family] :
              FromBytes(bytes) \/ FromNumber(bytes)
         \/ \E id \in Scopes : SetScopeId(id)
         \/ TakeAddress
  PROVE  ProgramInv'
<1>1. family \in Families /\ ProgramInv
  BY Parts
<1>2. Scopes' = Scopes /\ 0 \in Scopes /\ family' = family
  BY DEF FromBytes, FromNumber, SetScopeId, TakeAddress, Scopes
<1>3. ASSUME NEW bytes \in Hosts[family] \cup Groups[family],
             FromBytes(bytes) \/ FromNumber(bytes)
      PROVE  ProgramInv'
  <2>1. bytes \in BytesOf(family)
    BY <1>1, DatagramsAssumption
  <2>2. address' = AddressOf(bytes, 0) /\ meant' = AddressOf(bytes, 0)
    BY <1>3, <2>1, NumbersAreSame DEF FromBytes, FromNumber
  <2>3. UNCHANGED <<endpoint, target, kept>>
    BY <1>3 DEF FromBytes, FromNumber
  <2>4. QED
    BY <1>1, <1>2, <2>1, <2>2, <2>3 DEF ProgramInv, AddressAsMeant, AddressOf
<1>4. ASSUME NEW id \in Scopes, SetScopeId(id)
      PROVE  ProgramInv'
  BY <1>1, <1>2, <1>4 DEF SetScopeId, ProgramInv, AddressAsMeant
<1>5. ASSUME TakeAddress
      PROVE  ProgramInv'
  <2>1. endpoint.bytes \in BytesOf(family) /\ endpoint.bytes = target.bytes
    BY <1>1 DEF ProgramInv
  <2>2. address' = AddressOf(target.bytes, 0)
    BY <1>1, <1>5, <2>1, CopiesAreSame DEF TakeAddress, GetAddress
  <2>3. meant' = AddressOf(target.bytes, target.scope) /\ UNCHANGED <<endpoint, target, kept>>
    BY <1>5 DEF TakeAddress
  <2>4. QED
    BY <1>1, <1>2, <2>1, <2>2, <2>3 DEF ProgramInv, AddressAsMeant, AddressOf
<1>6. QED
  BY <1>3, <1>4, <1>5

LEMMA MakingEndpoints ==
  ASSUME IInv,
         \/ PutAddress
         \/ \E port \in Ports : PutPort(port) \/ Construct(port)
         \/ \E size \in Sizes, peer \in Peer : RecvFrom(peer, size)
  PROVE  ProgramInv'
<1>1. family \in Families /\ ProgramInv
  BY Parts
<1>2. Scopes' = Scopes /\ 0 \in Scopes /\ family' = family
  BY DEF PutAddress, PutPort, Construct, RecvFrom, Scopes
<1>3. CopyOf(family, address.bytes) = meant.bytes /\ meant.bytes \in BytesOf(family)
  BY <1>1, CopiesAreSame DEF ProgramInv, AddressAsMeant
<1>4. CASE PutAddress
  <2>1. /\ endpoint' = [endpoint EXCEPT !.bytes = meant.bytes]
        /\ target' = [target EXCEPT !.bytes = meant.bytes, !.scope = meant.scope]
        /\ kept' = TRUE /\ UNCHANGED <<address, meant>>
    BY <1>3, <1>4 DEF PutAddress, SetAddress
  <2>2. QED
    BY <1>1, <1>2, <1>3, <2>1 DEF ProgramInv, AddressAsMeant
<1>5. ASSUME NEW port \in Ports, PutPort(port)
      PROVE  ProgramInv'
  <2>1. port \in Port /\ Store(HostToNetwork(port)) = port
    BY DatagramsAssumption, PortsAreSame
  <2>2. /\ endpoint' = [endpoint EXCEPT !.port = port]
        /\ target' = [target EXCEPT !.port = port]
        /\ UNCHANGED <<address, meant, kept>>
    BY <1>5, <2>1 DEF PutPort, SetPort
  <2>3. QED
    BY <1>1, <1>2, <2>1, <2>2 DEF ProgramInv, AddressAsMeant
<1>6. ASSUME NEW port \in Ports, Construct(port)
      PROVE  ProgramInv'
  <2>1. port \in Port /\ Store(HostToNetwork(port)) = port
    BY DatagramsAssumption, PortsAreSame
  <2>2. endpoint' = [bytes |-> meant.bytes, port |-> port, scope |-> 0]
    BY <1>3, <1>6, <2>1 DEF Construct, MakeEndpoint, SetPort, SetAddress, NewEndpoint
  <2>3. /\ target' = [bytes |-> meant.bytes, port |-> port, scope |-> meant.scope]
        /\ kept' = TRUE /\ UNCHANGED <<address, meant>>
    BY <1>6 DEF Construct
  <2>4. QED
    BY <1>1, <1>2, <1>3, <2>1, <2>2, <2>3 DEF ProgramInv, AddressAsMeant
<1>7. ASSUME NEW size \in Sizes, NEW peer \in Peer, RecvFrom(peer, size)
      PROVE  ProgramInv'
  <2>1. peer \in [bytes : BytesOf(family), port : Port, scope : Scopes]
    BY <1>1, DatagramsAssumption DEF Peer
  <2>2. endpoint' = peer /\ target' = peer /\ kept' = FALSE /\ UNCHANGED <<address, meant>>
    BY <1>7 DEF RecvFrom
  <2>3. QED
    BY <1>1, <1>2, <2>1, <2>2 DEF ProgramInv, AddressAsMeant
<1>8. QED
  BY <1>4, <1>5, <1>6, <1>7

(***************************************************************************)
(* The groups: a request that went through the conversions is the one the  *)
(* program wants, and the kernel made a link of it that fits.              *)
(***************************************************************************)
LEMMA RequestsAreWanted ==
  ASSUME IInv, NEW link \in Links[family] \cup {AnyLink(family)}, NEW source \in Source
  PROVE  LET request == Requested(link, source)
             wanted  == Wanted(link, source)
         IN  /\ request.group = wanted.group
             /\ request.source = wanted.source
             /\ wanted \in Request
             /\ \A l \in Links[family] : Fits(request, l) => Fits(wanted, l)
<1> DEFINE request == Requested(link, source)
           wanted == Wanted(link, source)
<1>1. family \in Families /\ ProgramInv
  BY Parts
<1>2. CopyOf(family, address.bytes) = meant.bytes /\ meant.bytes \in BytesOf(family)
  BY <1>1, CopiesAreSame DEF ProgramInv, AddressAsMeant
<1>3. source \in BytesOf("v4") /\ CopyOf("v4", source) = source
  BY DatagramsAssumption, ZerosAreBytes, CopiesAreSame DEF Source, Families
<1>4. meant.scope \in Scopes
  BY <1>1 DEF ProgramInv
<1>5. CASE family = "v4"
  <2>1. link \in BytesOf("v4")
    BY <1>5, DatagramsAssumption, ZerosAreBytes DEF AnyLink, AnySource
  <2>2. CopyOf(family, link) = link
    BY <1>5, <2>1, CopiesAreSame DEF Families
  <2>3. request = wanted
    BY <1>2, <1>3, <1>5, <2>2 DEF Requested, Wanted
  <2>4. wanted \in Request
    BY <1>2, <1>3, <1>5 DEF Wanted, Request
  <2>5. QED
    BY <2>3, <2>4
<1>6. CASE family = "v6"
  <2>1. request.group = wanted.group /\ request.source = wanted.source
    BY <1>2, <1>3 DEF Requested, Wanted
  <2>2. wanted.link = request.link \/ wanted.link = 0
    BY <1>6 DEF Requested, Wanted
  <2>3. AnyLink(family) = 0
    BY <1>6 DEF AnyLink
  <2>4. wanted \in Request
    BY <1>2, <1>3, <1>4, <1>6, <2>3 DEF Wanted, Request, Scopes
  <2>5. \A l \in Links[family] : Fits(request, l) => Fits(wanted, l)
    BY <2>2, <2>3 DEF Fits
  <2>6. QED
    BY <2>1, <2>4, <2>5
<1>7. QED
  BY <1>1, <1>5, <1>6 DEF Families

LEMMA JoiningKeeps ==
  ASSUME IInv, NEW link \in Links[family] \cup {AnyLink(family)}, NEW source \in Source,
         Joins(Requested(link, source), Wanted(link, source)), family' = family
  PROVE  MembersInv'
<1> DEFINE request == Requested(link, source)
           wanted == Wanted(link, source)
<1>1. family \in Families /\ ProgramInv /\ MembersInv
  BY Parts
<1>2. /\ request.group = wanted.group
      /\ request.source = wanted.source
      /\ wanted \in Request
      /\ \A l \in Links[family] : Fits(request, l) => Fits(wanted, l)
  BY RequestsAreWanted
<1> HIDE DEF request, wanted
<1>3. IsGroup(request.group)
  BY DEF Joins, request, wanted
<1>4. PICK l \in Links[family] :
        /\ Fits(request, l)
        /\ members' = members \cup {[ group |-> request.group, link |-> l,
                                      source |-> request.source, request |-> wanted ]}
  BY DEF Joins, request, wanted
<1> DEFINE new == [ group |-> request.group, link |-> l,
                    source |-> request.source, request |-> wanted ]
<1>5. request.group \in BytesOf(family) /\ request.source \in BytesOf("v4")
  BY <1>2 DEF Request
<1>6. new \in [ group : BytesOf(family), link : Links[family],
                source : BytesOf("v4"), request : Request ]
  BY <1>2, <1>5
<1>7. IsMulticast(family, AddressOf(request.group, 0))
  BY <1>1, <1>3, <1>5, GroupsAreMulticast
<1>8. JoinedAsMeant'
  <2>1. ASSUME NEW m \in members'
        PROVE  /\ m.group = m.request.group
               /\ m.source = m.request.source
               /\ Fits(m.request, m.link)
               /\ IsMulticast(family, AddressOf(m.group, 0))
    <3>1. CASE m \in members
      BY <1>1, <3>1 DEF MembersInv, JoinedAsMeant
    <3>2. CASE m = new
      BY <1>2, <1>4, <1>7, <3>2
    <3>3. QED
      BY <1>4, <2>1, <3>1, <3>2
  <2>2. QED
    BY <2>1 DEF JoinedAsMeant, Fits
<1>9. members' \subseteq [ group : BytesOf(family), link : Links[family],
                           source : BytesOf("v4"), request : Request ]
  BY <1>1, <1>4, <1>6 DEF MembersInv
<1>10. QED
  BY <1>8, <1>9 DEF MembersInv, Request

LEMMA LeavingKeeps ==
  ASSUME MembersInv, members' \subseteq members, family' = family
  PROVE  MembersInv'
BY DEF MembersInv, JoinedAsMeant, Request, Fits

(***************************************************************************)
(* What calls return.                                                      *)
(***************************************************************************)
OptionsType == [{"ReuseAddr", "RcvBuf"} -> Values]

OptionType == [name : {"none", "ReuseAddr", "RcvBuf", "NoDelay"}, value : Values]

LEMMA OpReturned ==
  ASSUME NEW kind \in {"op", "get"}, NEW done \in BOOLEAN, ReturnsOp(kind, done),
         options' \in OptionsType, options'["ReuseAddr"] \in {0, 1},
         option' \in OptionType,
         kind = "get" => option'.value = IF done THEN options'[option'.name] ELSE 0
  PROVE  CallInv'
<1>1. /\ result' = [value |-> IF done THEN 0 ELSE -1,
                    code |-> IF done THEN NoError ELSE "EINVAL"]
      /\ last' = [call |-> kind, done |-> done, size |-> 0]
  BY DEF ReturnsOp, OpResult
<1>2. result' \in [value : Int, code : Errno]
  BY <1>1 DEF Errno
<1>3. last' \in [call : {"none", "op", "get", "transmit"}, done : BOOLEAN,
                 size : Sizes \cup {0}]
  BY <1>1
<1>4. ErrorsReported'
  BY <1>1 DEF ErrorsReported, OpSucceeded, NoError
<1>5. QED
  BY <1>2, <1>3, <1>4 DEF CallInv, OptionsType, OptionType

LEMMA Transmitted ==
  ASSUME CallInv, NEW done \in BOOLEAN, NEW size \in Sizes \cup {0}, Transmits(done, size),
         options' = options
  PROVE  CallInv'
<1>1. /\ Word \in Nat /\ Word > 0 /\ size \in Int /\ 0 <= size /\ size < Word
  BY ResultsAssumption, DatagramsAssumption
<1>2. /\ result' = [value |-> IF done THEN size ELSE -1,
                    code |-> IF done THEN NoError ELSE "EAGAIN"]
      /\ last' = [call |-> "transmit", done |-> done, size |-> IF done THEN size ELSE 0]
      /\ option' = NoOption
  BY <1>1 DEF Transmits, TransmitResult
<1>3. option' \in OptionType
  BY <1>2 DEF OptionType, NoOption, Values
<1>4. result' \in [value : Int, code : Errno]
  BY <1>1, <1>2 DEF Errno
<1>5. last' \in [call : {"none", "op", "get", "transmit"}, done : BOOLEAN,
                 size : Sizes \cup {0}]
  BY <1>2
<1>6. done => size % Word = size
  BY <1>1
<1>7. ErrorsReported'
  <2>1. result'.code = NoError <=> done
    BY <1>2 DEF NoError
  <2>2. Succeeded(result') => done
    BY <1>1, <1>2 DEF Succeeded
  <2>3. done => Bytes(result') = last'.size
    BY <1>2, <1>6 DEF Bytes
  <2>4. last'.call = "transmit" /\ last'.done = done
    BY <1>2
  <2>5. QED
    BY <2>1, <2>2, <2>3, <2>4 DEF ErrorsReported
<1>8. QED
  BY <1>3, <1>4, <1>5, <1>7 DEF CallInv, OptionType

LEMMA OptionsKeep ==
  ASSUME IInv,
         \/ \E value \in {0, 1} : SetOption("ReuseAddr", value) \/ SetOption("NoDelay", value)
         \/ \E value \in BufSizes : SetOption("RcvBuf", value)
         \/ \E name \in {"ReuseAddr", "RcvBuf", "NoDelay"} : GetOption(name)
  PROVE  CallInv'
<1>1. CallInv
  BY Parts
<1>2. /\ options \in OptionsType /\ DOMAIN options = {"ReuseAddr", "RcvBuf"}
      /\ options["ReuseAddr"] \in {0, 1}
  BY <1>1 DEF CallInv, OptionsType
<1>3. NoOption \in OptionType /\ 0 \in Values
  BY DEF NoOption, OptionType, Values
<1>4. ASSUME NEW name \in {"ReuseAddr", "RcvBuf", "NoDelay"}, NEW value,
             name = "RcvBuf" => value \in BufSizes, name # "RcvBuf" => value \in {0, 1},
             SetOption(name, value)
      PROVE  CallInv'
  <2>1. CASE name \in DOMAIN options /\ ReturnsOp("op", TRUE)
                /\ options' = [options EXCEPT ![name] = KernelValue(name, value)]
    <3>1. KernelValue(name, value) \in Values
      <4>1. CASE name = "ReuseAddr"
        BY <1>4, <4>1 DEF KernelValue, Values
      <4>2. CASE name = "RcvBuf"
        <5>1. value \in Nat /\ MaxBuf \in Nat
          BY <1>4, <4>2, DatagramsAssumption
        <5>2. (IF 2 * value > MaxBuf THEN MaxBuf ELSE 2 * value) \in 0 .. MaxBuf
          BY <5>1
        <5>3. QED
          BY <4>2, <5>2 DEF KernelValue, Values
      <4>3. QED
        BY <1>2, <2>1, <4>1, <4>2
    <3>2. options' \in OptionsType
      BY <1>2, <2>1, <3>1 DEF OptionsType
    <3>6. options'["ReuseAddr"] \in {0, 1}
      BY <1>2, <1>4, <2>1 DEF KernelValue
    <3>3. option' = NoOption
      BY <1>4 DEF SetOption
    <3>4. QED
      BY <1>3, <2>1, <3>2, <3>3, <3>6, OpReturned
  <2>2. CASE options' = options /\ ReturnsOp("op", FALSE)
    <3>1. option' = NoOption
      BY <1>4 DEF SetOption
    <3>2. QED
      BY <1>2, <1>3, <2>2, <3>1, OpReturned
  <2>3. QED
    BY <1>4, <2>1, <2>2 DEF SetOption
<1>5. ASSUME NEW name \in {"ReuseAddr", "RcvBuf", "NoDelay"}, GetOption(name)
      PROVE  CallInv'
  <2>1. options' = options
    BY <1>5 DEF GetOption, kernel
  <2>2. CASE name \in DOMAIN options /\ ReturnsOp("get", TRUE)
                /\ option' = [name |-> name, value |-> OptionValue(name, options[name])]
    <3>0. OptionValue(name, options[name]) = options[name]
      BY <1>2, <2>2 DEF OptionValue
    <3>1. option' \in OptionType
      BY <1>2, <2>2, <3>0 DEF OptionType, OptionsType
    <3>2. option'.value = options'[option'.name]
      BY <2>1, <2>2, <3>0
    <3>3. QED
      BY <1>2, <2>1, <2>2, <3>1, <3>2, OpReturned
  <2>3. CASE option' = [name |-> name, value |-> 0] /\ ReturnsOp("get", FALSE)
    <3>1. option' \in OptionType /\ option'.value = 0
      BY <1>3, <2>3 DEF OptionType
    <3>2. QED
      BY <1>2, <2>1, <2>3, <3>1, OpReturned
  <2>4. QED
    BY <1>5, <2>2, <2>3 DEF GetOption
<1>6. QED
  BY <1>4, <1>5

-----------------------------------------------------------------------------
(***************************************************************************)
(* Every step preserves the invariant.                                     *)
(***************************************************************************)
LEMMA StepKeeps == IInv /\ [Next]_vars => IInv'
<1> SUFFICES ASSUME IInv, [Next]_vars PROVE IInv'
  OBVIOUS
<1>1. family \in Families /\ ProgramInv /\ MembersInv /\ CallInv
  BY Parts
<1>2. family' = family
  BY DEF Next, vars, FromBytes, FromNumber, SetScopeId, PutAddress, TakeAddress, PutPort,
         Construct, SendTo, RecvFrom, RecvFromFails, Join, Leave, SetOption, GetOption
<1>3. SUFFICES ProgramInv' /\ MembersInv' /\ CallInv'
  <2>1. family' \in Families
    BY <1>1, <1>2
  <2>2. (family \in Families /\ ProgramInv /\ MembersInv /\ CallInv => IInv)'
    BY Parts, PTL
  <2>3. QED
    BY <1>3, <2>1, <2>2
<1>4. ASSUME UNCHANGED <<kernel, call>>, ProgramInv'
      PROVE  ProgramInv' /\ MembersInv' /\ CallInv'
  BY <1>1, <1>2, <1>4, MembersStay, CallStays DEF kernel
<1>5. ASSUME NEW bytes \in Hosts[family] \cup Groups[family],
             FromBytes(bytes) \/ FromNumber(bytes)
      PROVE  ProgramInv' /\ MembersInv' /\ CallInv'
  <2>1. ProgramInv'
    BY <1>5, MakingAddresses
  <2>2. QED
    BY <1>4, <1>5, <2>1 DEF FromBytes, FromNumber
<1>6. ASSUME NEW id \in Scopes, SetScopeId(id)
      PROVE  ProgramInv' /\ MembersInv' /\ CallInv'
  <2>1. ProgramInv'
    BY <1>6, MakingAddresses
  <2>2. QED
    BY <1>4, <1>6, <2>1 DEF SetScopeId
<1>7. ASSUME PutAddress \/ TakeAddress
      PROVE  ProgramInv' /\ MembersInv' /\ CallInv'
  <2>1. ProgramInv'
    BY <1>7, MakingAddresses, MakingEndpoints
  <2>2. QED
    BY <1>4, <1>7, <2>1 DEF PutAddress, TakeAddress
<1>8. ASSUME NEW port \in Ports, PutPort(port) \/ Construct(port)
      PROVE  ProgramInv' /\ MembersInv' /\ CallInv'
  <2>1. ProgramInv'
    BY <1>8, MakingEndpoints
  <2>2. QED
    BY <1>4, <1>8, <2>1 DEF PutPort, Construct
<1>9. ASSUME NEW size \in Sizes, NEW peer \in Peer, RecvFrom(peer, size)
      PROVE  ProgramInv' /\ MembersInv' /\ CallInv'
  <2>1. ProgramInv'
    BY <1>9, MakingEndpoints
  <2>2. MembersInv'
    BY <1>1, <1>2, <1>9, MembersStay DEF RecvFrom, kernel
  <2>3. CallInv'
    BY <1>1, <1>9, Transmitted DEF RecvFrom, kernel
  <2>4. QED
    BY <2>1, <2>2, <2>3
<1>10. ASSUME RecvFromFails \/ \E size \in Sizes : SendTo(size)
       PROVE  ProgramInv' /\ MembersInv' /\ CallInv'
  <2>1. UNCHANGED <<program, kernel>>
    BY <1>10 DEF RecvFromFails, SendTo
  <2>2. ProgramInv' /\ MembersInv'
    BY <1>1, <1>2, <2>1, ProgramStays, MembersStay DEF kernel
  <2>3. \E done \in BOOLEAN, size \in Sizes \cup {0} : Transmits(done, size)
    BY <1>10 DEF RecvFromFails, SendTo
  <2>4. CallInv'
    BY <1>1, <2>1, <2>3, Transmitted DEF kernel
  <2>5. QED
    BY <2>2, <2>4
<1>11. ASSUME NEW link \in Links[family] \cup {AnyLink(family)}, NEW source \in Source,
              Join(link, source) \/ Leave(link, source)
       PROVE  ProgramInv' /\ MembersInv' /\ CallInv'
  <2>1. UNCHANGED <<program, options>> /\ option' = NoOption
    BY <1>11 DEF Join, Leave
  <2>2. ProgramInv'
    BY <1>1, <1>2, <2>1, ProgramStays
  <2>3. MembersInv'
    <3>1. CASE Joins(Requested(link, source), Wanted(link, source))
      BY <1>2, <3>1, JoiningKeeps
    <3>2. CASE Leaves(Requested(link, source)) \/ UNCHANGED members
      <4>1. members' \subseteq members
        BY <3>2 DEF Leaves
      <4>2. QED
        BY <1>1, <1>2, <4>1, LeavingKeeps
    <3>3. QED
      BY <1>11, <3>1, <3>2 DEF Join, Leave
  <2>4. CallInv'
    <3>1. /\ options' \in OptionsType /\ option' \in OptionType
          /\ options'["ReuseAddr"] \in {0, 1}
      BY <1>1, <2>1 DEF CallInv, OptionsType, OptionType, NoOption, Values
    <3>2. ReturnsOp("op", TRUE) \/ ReturnsOp("op", FALSE)
      BY <1>11 DEF Join, Leave
    <3>3. QED
      BY <3>1, <3>2, OpReturned
  <2>5. QED
    BY <2>2, <2>3, <2>4
<1>12. ASSUME \/ \E value \in {0, 1} : SetOption("ReuseAddr", value) \/ SetOption("NoDelay", value)
              \/ \E value \in BufSizes : SetOption("RcvBuf", value)
              \/ \E name \in {"ReuseAddr", "RcvBuf", "NoDelay"} : GetOption(name)
       PROVE  ProgramInv' /\ MembersInv' /\ CallInv'
  <2>1. UNCHANGED <<program, members>>
    BY <1>12 DEF SetOption, GetOption, kernel
  <2>2. CallInv'
    BY <1>12, OptionsKeep
  <2>3. QED
    BY <1>1, <1>2, <2>1, <2>2, ProgramStays, MembersStay
<1>13. CASE UNCHANGED vars
  <2>1. UNCHANGED <<program, kernel, call>>
    BY <1>13 DEF vars
  <2>2. QED
    BY <1>1, <1>2, <1>4, <2>1, ProgramStays
<1>14. QED
  BY <1>5, <1>6, <1>7, <1>8, <1>9, <1>10, <1>11, <1>12, <1>13 DEF Next

(***************************************************************************)
(* The invariant holds in every state of the program, whatever addresses,  *)
(* ports, links and options there are, on a machine of either byte order.  *)
(***************************************************************************)
THEOREM Invariance == Spec => []IInv
  BY InitHolds, StepKeeps, PTL DEF Spec

(* A datagram goes to the address and port that were meant, and an answer  *)
(* out of the right link.                                                  *)
THEOREM ReachesWhoWasMeant == Spec => []ReachesMeant
<1>1. IInv => ReachesMeant
  BY DEF IInv
<1>2. QED
  BY <1>1, Invariance, PTL

(* The socket is a member of the groups it was asked to join only.         *)
THEOREM JoinsWhatWasMeant == Spec => []JoinedAsMeant
<1>1. IInv => JoinedAsMeant
  BY DEF IInv
<1>2. QED
  BY <1>1, Invariance, PTL

(* A failed call is told from one that worked, and no failed one tests     *)
(* true; bytes() and getOption() give what the kernel did.                 *)
THEOREM FailuresAreTold == Spec => []ErrorsReported
<1>1. IInv => ErrorsReported
  BY DEF IInv
<1>2. QED
  BY <1>1, Invariance, PTL
=============================================================================
