------------------------------ MODULE Addresses ------------------------------
(***************************************************************************)
(* The addresses and endpoints of IPv4 and IPv6, as the bytes they are in  *)
(* memory, with the conversions between a number of the machine and the    *)
(* network's byte order.                                                   *)
(*                                                                         *)
(* A number is written as the tuple of its bytes, the most significant one *)
(* first, whatever its width; the memory it is stored in, as the tuple of  *)
(* the bytes at rising addresses, which is what the network sees.          *)
(***************************************************************************)
EXTENDS Integers, SequencesExt

CONSTANT LittleEndian    (* the byte order of the machine                  *)

ASSUME AddressesAssumption == LittleEndian \in BOOLEAN

Byte == 0 .. 255

AddressSize(family) == IF family = "v4" THEN 4 ELSE 16

BytesOf(family) == [1 .. AddressSize(family) -> Byte]

Port == [1 .. 2 -> Byte]

-----------------------------------------------------------------------------
(* What the machine makes of memory, and of a number; and bswap, which is  *)
(* left out on a machine that has the network's order.                     *)
Load(memory) == IF LittleEndian THEN Reverse(memory) ELSE memory

Store(number) == IF LittleEndian THEN Reverse(number) ELSE number

HostToNetwork(number) == IF LittleEndian THEN Reverse(number) ELSE number

NetworkToHost(number) == HostToNetwork(number)

-----------------------------------------------------------------------------
(***************************************************************************)
(* An address: its bytes in memory, and its scope id, which an IPv4 address *)
(* has not got.  An IPv4 address is made of bytes or of a number.          *)
(***************************************************************************)
AddressOf(bytes, scope) == [bytes |-> bytes, scope |-> scope]

FromUInt(number) == Store(HostToNetwork(number))

ToUint(memory) == NetworkToHost(Load(memory))

IsMulticast(family, address) ==
  IF family = "v4" THEN ToUint(address.bytes)[1] \div 16 = 14
                   ELSE address.bytes[1] = 255

(***************************************************************************)
(* An endpoint is a sockaddr.  Bytes go into it, out of it and into a      *)
(* group request as a number if they are IPv4, which swaps them to and     *)
(* fro, and as they are if they are IPv6.  The scope id does not go along. *)
(***************************************************************************)
CopyOfUnswapped(family, memory) ==
  IF family = "v4" THEN Store(ToUint(memory)) ELSE memory

CopyOf(family, memory) ==
  IF family = "v4" THEN FromUInt(ToUint(memory)) ELSE memory

Zeros(n) == [i \in 1 .. n |-> 0]

NewEndpoint(family) ==
  [bytes |-> Zeros(AddressSize(family)), port |-> Zeros(2), scope |-> 0]

SetAddress(family, endpoint, address) ==
  [endpoint EXCEPT !.bytes = CopyOf(family, address.bytes)]

GetAddress(family, endpoint) == AddressOf(CopyOf(family, endpoint.bytes), 0)

SetPortUnswapped(endpoint, port) == [endpoint EXCEPT !.port = Store(port)]

SetPort(endpoint, port) == [endpoint EXCEPT !.port = Store(HostToNetwork(port))]

GetPort(endpoint) == NetworkToHost(Load(endpoint.port))

MakeEndpoint(family, address, port) ==
  SetPort(SetAddress(family, NewEndpoint(family), address), port)
=============================================================================
