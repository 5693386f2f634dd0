------------------------------- MODULE Layers -------------------------------
(***************************************************************************)
(* The header views of netbox/pdu, as printPacket() of                     *)
(* examples/pcap_reader.cpp lays them over a packet, one behind the other. *)
(* A view is a pointer into the reader's buffer and a size of 32 bits,     *)
(* which only the view's constructor checks.                               *)
(***************************************************************************)
EXTENDS FileReader

CONSTANTS
  EthernetSize, TagSize, IPv4Size, UDPSize,  (* in words, of each header   *)
  OptionsSize                                (* of options behind IPv4's   *)

ASSUME LayersAssumption ==
  {EthernetSize, TagSize, IPv4Size, UDPSize, OptionsSize} \subseteq Nat \ {0}

(* What decides lies in the first word of a header: the protocol of a      *)
(* frame, and the version, header length and protocol of an IPv4 packet.   *)
IsIP(word) == word = 0
IsTagged(word) == word = 1
IsVersion4(word) == word > 0
IsUDP(word) == word \in {2, 3}

LayerType == [layer : {"EthernetII", "IPv4", "UDP"}, at : Nat, word : Word]

-----------------------------------------------------------------------------
(* The constructors throw PDUError.                                        *)
Throws(view, headerSize) == view.size < headerSize

BehindKeepingSize(view, n) == [at |-> view.at + n, size |-> view.size]

(* payload() and payloadSize(): n words on, in unsigned arithmetic.        *)
Behind(view, n) == [at |-> view.at + n, size |-> (view.size - n) % Word32]

(* The buffer, and what is found behind its end.                           *)
WordAt(memory, at) ==
  IF at < Len(memory.buffer) THEN memory.buffer[at + 1] ELSE memory.past

Laid(layer, memory, view) ==
  {[layer |-> layer, at |-> view.at, word |-> WordAt(memory, view.at)]}

ReadUDP(memory, view) ==
  IF Throws(view, UDPSize) THEN {} ELSE Laid("UDP", memory, view)

ReadIPv4(memory, view) ==
  LET word == WordAt(memory, view.at) IN
  IF Throws(view, IPv4Size) THEN {}
  ELSE Laid("IPv4", memory, view) \cup
       IF IsVersion4(word) /\ IsUDP(word)
       THEN ReadUDP(memory, Behind(view, IPv4Size)) ELSE {}

(* printPacket(): the headers that are read.                               *)
PrintPacket(memory, captureLength) ==
  LET eth    == [at |-> 0, size |-> captureLength]
      word   == WordAt(memory, 0)
      offset == IF IsTagged(word) THEN TagSize ELSE 0
  IN IF Throws(eth, EthernetSize) THEN {}
     ELSE Laid("EthernetII", memory, eth) \cup
          IF IsIP(word) \/ IsTagged(word)
          THEN ReadIPv4(memory, Behind(Behind(eth, EthernetSize), offset)) ELSE {}

-----------------------------------------------------------------------------
(***************************************************************************)
(* The headers a frame has, each inside the bytes that were captured: UDP  *)
(* begins behind the options of IPv4, of which printPacket() knows         *)
(* nothing.  (The type behind a tag is not told apart.)                    *)
(***************************************************************************)
HasOptions(word) == word = 3

HeaderAt(layer, frame, at, size) ==
  IF at + size <= Len(frame)
  THEN {[layer |-> layer, at |-> at, word |-> frame[at + 1]]} ELSE {}

UDPOf(frame, at) == HeaderAt("UDP", frame, at, UDPSize)

IPv4Of(frame, at) ==
  HeaderAt("IPv4", frame, at, IPv4Size) \cup
  IF at < Len(frame) /\ IsVersion4(frame[at + 1]) /\ IsUDP(frame[at + 1])
  THEN UDPOf(frame, at + IPv4Size +
                    IF HasOptions(frame[at + 1]) THEN OptionsSize ELSE 0)
  ELSE {}

HeadersOf(frame) ==
  HeaderAt("EthernetII", frame, 0, EthernetSize) \cup
  IF frame = <<>> THEN {}
  ELSE IF IsIP(frame[1]) THEN IPv4Of(frame, EthernetSize)
  ELSE IF IsTagged(frame[1]) THEN IPv4Of(frame, EthernetSize + TagSize)
  ELSE {}

(* A frame that ends inside its 802.1Q tag.                                *)
TagCutShort(frame) ==
  /\ Len(frame) \in EthernetSize .. EthernetSize + TagSize - 1
  /\ IsTagged(frame[1])

(* The headers up to IPv4 are the frame's.  What is read for UDP behind    *)
(* them lies in the frame, but where the options are.                      *)
OptionsForPorts(headers, frame) ==
  /\ \E ip \in headers : ip.layer = "IPv4" /\ HasOptions(ip.word)
  /\ {h \in headers : h.layer # "UDP"} = {h \in HeadersOf(frame) : h.layer # "UDP"}
  /\ \A h \in headers : h.layer = "UDP" => h \in UDPOf(frame, h.at)
=============================================================================
