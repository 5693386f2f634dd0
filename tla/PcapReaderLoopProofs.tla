------------------------ MODULE PcapReaderLoopProofs ------------------------
(***************************************************************************)
(* pcap_reader.cpp prints the records of its file, and for each of them    *)
(* the headers of that packet: for every file, every snapshot length and   *)
(* every size of a header.                                                 *)
(***************************************************************************)
EXTENDS PcapReaderLoop, PcapReaderProofs, WellFoundedInduction

(* A view of what is left of a frame from "at" on.                         *)
ViewOf(frame, at) == [at |-> at, size |-> Len(frame) - at]

(* A frame at the start of the buffer.                                     *)
Holds(memory, frame) ==
  /\ frame \in Seq(Word)
  /\ Len(frame) \in Word
  /\ Len(frame) <= Len(memory.buffer)
  /\ \A i \in 1 .. Len(frame) : memory.buffer[i] = frame[i]

LEMMA SizesType ==
  /\ EthernetSize \in Nat \ {0} /\ TagSize \in Nat \ {0} /\ OptionsSize \in Nat \ {0}
  /\ IPv4Size \in Nat \ {0} /\ UDPSize \in Nat \ {0}
BY LayersAssumption

(* A step of a size that fits does not wrap.                               *)
LEMMA BehindFits ==
  ASSUME NEW frame \in Seq(Word), Len(frame) \in Word,
         NEW at \in Nat, NEW n \in Nat, at + n <= Len(frame)
  PROVE  Behind(ViewOf(frame, at), n) = ViewOf(frame, at + n)
<1>1. Len(frame) \in Nat /\ Len(frame) < Word32 /\ Word32 \in Nat \ {0}
  BY FileReaderAssumption, LenProperties DEF Word
<1>2. Len(frame) - at - n \in 0 .. Word32 - 1
  BY <1>1
<1>3. (Len(frame) - at - n) % Word32 = Len(frame) - at - n
  BY <1>1, <1>2
<1>4. Len(frame) - at - n = Len(frame) - (at + n)
  BY <1>1
<1>5. QED
  BY <1>3, <1>4 DEF Behind, ViewOf

LEMMA WordInFrame ==
  ASSUME NEW memory, NEW frame, Holds(memory, frame), NEW at \in Nat, at < Len(frame),
         Len(memory.buffer) \in Nat
  PROVE  WordAt(memory, at) = frame[at + 1]
<1>1. Len(frame) \in Nat
  BY LenProperties DEF Holds
<1>2. at < Len(memory.buffer) /\ at + 1 \in 1 .. Len(frame)
  BY <1>1 DEF Holds
<1>3. QED
  BY <1>2 DEF WordAt, Holds

(* A view whose constructor does not throw shows a header of the frame.    *)
LEMMA UDPView ==
  ASSUME NEW memory, NEW frame, Holds(memory, frame), Len(memory.buffer) \in Nat,
         NEW at \in Nat
  PROVE  ReadUDP(memory, ViewOf(frame, at)) = UDPOf(frame, at)
<1>1. Len(frame) \in Nat
  BY LenProperties DEF Holds
<1>2. CASE at + UDPSize <= Len(frame)
  <2>1. WordAt(memory, at) = frame[at + 1]
    BY <1>1, <1>2, SizesType, WordInFrame
  <2>2. ~(Len(frame) - at < UDPSize)
    BY <1>1, <1>2, SizesType
  <2>3. QED
    BY <1>2, <2>1, <2>2 DEF ReadUDP, UDPOf, HeaderAt, Throws, Laid, ViewOf
<1>3. CASE ~(at + UDPSize <= Len(frame))
  <2>1. Len(frame) - at < UDPSize
    BY <1>1, <1>3, SizesType
  <2>2. QED
    BY <1>3, <2>1 DEF ReadUDP, UDPOf, HeaderAt, Throws, ViewOf
<1>4. QED
  BY <1>2, <1>3

(* What printPacket() takes for the headers of a frame: it steps over no   *)
(* options.                                                                *)
IPv4Read(frame, at) ==
  HeaderAt("IPv4", frame, at, IPv4Size) \cup
  IF at < Len(frame) /\ IsVersion4(frame[at + 1]) /\ IsUDP(frame[at + 1])
  THEN UDPOf(frame, at + IPv4Size) ELSE {}

HeadersRead(frame) ==
  HeaderAt("EthernetII", frame, 0, EthernetSize) \cup
  IF frame = <<>> THEN {}
  ELSE IF IsIP(frame[1]) THEN IPv4Read(frame, EthernetSize)
  ELSE IF IsTagged(frame[1]) THEN IPv4Read(frame, EthernetSize + TagSize)
  ELSE {}

LEMMA IPv4View ==
  ASSUME NEW memory, NEW frame, Holds(memory, frame), Len(memory.buffer) \in Nat,
         NEW at \in Nat
  PROVE  ReadIPv4(memory, ViewOf(frame, at)) = IPv4Read(frame, at)
<1>1. Len(frame) \in Nat /\ frame \in Seq(Word) /\ Len(frame) \in Word
  BY LenProperties DEF Holds
<1>2. CASE at + IPv4Size <= Len(frame)
  <2>1. WordAt(memory, at) = frame[at + 1]
    BY <1>1, <1>2, SizesType, WordInFrame
  <2>2. ~(Len(frame) - at < IPv4Size) /\ at < Len(frame)
    BY <1>1, <1>2, SizesType
  <2>3. Behind(ViewOf(frame, at), IPv4Size) = ViewOf(frame, at + IPv4Size)
    BY <1>1, <1>2, SizesType, BehindFits
  <2>4. ReadUDP(memory, ViewOf(frame, at + IPv4Size)) = UDPOf(frame, at + IPv4Size)
    <3>1. at + IPv4Size \in Nat
      BY SizesType
    <3>2. QED
      BY <3>1, UDPView
  <2>5. ~Throws(ViewOf(frame, at), IPv4Size)
    BY <2>2 DEF Throws, ViewOf
  <2>6. Laid("IPv4", memory, ViewOf(frame, at)) = HeaderAt("IPv4", frame, at, IPv4Size)
    BY <1>2, <2>1 DEF Laid, HeaderAt, ViewOf
  <2>7. WordAt(memory, ViewOf(frame, at).at) = frame[at + 1]
    BY <2>1 DEF ViewOf
  <2>8. QED
    BY <2>2, <2>3, <2>4, <2>5, <2>6, <2>7 DEF ReadIPv4, IPv4Read
<1>3. CASE ~(at + IPv4Size <= Len(frame))
  <2>1. Len(frame) - at < IPv4Size /\ ~(at + IPv4Size + UDPSize <= Len(frame))
    BY <1>1, <1>3, SizesType
  <2>2. Throws(ViewOf(frame, at), IPv4Size)
    BY <2>1 DEF Throws, ViewOf
  <2>3. HeaderAt("IPv4", frame, at, IPv4Size) = {}
    BY <1>3 DEF HeaderAt
  <2>4. UDPOf(frame, at + IPv4Size) = {}
    BY <2>1 DEF UDPOf, HeaderAt
  <2>5. QED
    BY <2>2, <2>3, <2>4 DEF ReadIPv4, IPv4Read
<1>4. QED
  BY <1>2, <1>3

-----------------------------------------------------------------------------
(***************************************************************************)
(* printPacket(), given the length of a frame that the buffer starts with, *)
(* reads headers inside the frame and nothing behind it, unless the frame  *)
(* ends inside its 802.1Q tag.                                             *)
(***************************************************************************)
LEMMA PrintPacketFrame ==
  ASSUME NEW memory, NEW frame, Holds(memory, frame), Len(memory.buffer) \in Nat,
         ~TagCutShort(frame)
  PROVE  PrintPacket(memory, Len(frame)) = HeadersRead(frame)
<1> DEFINE eth == [at |-> 0, size |-> Len(frame)]
           word == WordAt(memory, 0)
           offset == IF IsTagged(word) THEN TagSize ELSE 0
<1>1. Len(frame) \in Nat /\ frame \in Seq(Word) /\ Len(frame) \in Word
  BY LenProperties DEF Holds
<1>2. CASE Len(frame) < EthernetSize
  <2>1. PrintPacket(memory, Len(frame)) = {}
    BY <1>2 DEF PrintPacket, Throws
  <2>2. HeaderAt("EthernetII", frame, 0, EthernetSize) = {}
    BY <1>1, <1>2, SizesType DEF HeaderAt
  <2>3. IPv4Read(frame, EthernetSize) = {} /\ IPv4Read(frame, EthernetSize + TagSize) = {}
    BY <1>1, <1>2, SizesType DEF IPv4Read, HeaderAt
  <2>4. QED
    BY <2>1, <2>2, <2>3 DEF HeadersRead
<1>3. CASE ~(Len(frame) < EthernetSize)
  <2>1. ~Throws(eth, EthernetSize)
    BY <1>3 DEF Throws
  <2>2. 0 < Len(frame) /\ 0 + EthernetSize <= Len(frame) /\ frame # <<>>
    BY <1>1, <1>3, SizesType, EmptySeq
  <2>3. word = frame[1]
    <3>1. WordAt(memory, 0) = frame[0 + 1]
      BY <2>2, WordInFrame
    <3>2. QED
      BY <3>1
  <2>4. eth = ViewOf(frame, 0)
    BY <1>1 DEF ViewOf
  <2>5. Laid("EthernetII", memory, eth) = HeaderAt("EthernetII", frame, 0, EthernetSize)
    BY <2>2, <2>3 DEF Laid, HeaderAt
  <2>6. Behind(eth, EthernetSize) = ViewOf(frame, EthernetSize)
    <3>1. Behind(ViewOf(frame, 0), EthernetSize) = ViewOf(frame, 0 + EthernetSize)
      BY <1>1, <2>2, SizesType, BehindFits
    <3>2. 0 + EthernetSize = EthernetSize
      BY SizesType
    <3>3. QED
      BY <2>4, <3>1, <3>2
  <2>7. PrintPacket(memory, Len(frame)) =
          Laid("EthernetII", memory, eth) \cup
          IF IsIP(word) \/ IsTagged(word)
          THEN ReadIPv4(memory, Behind(Behind(eth, EthernetSize), offset)) ELSE {}
    BY <2>1 DEF PrintPacket
  <2> HIDE DEF eth
  <2>8. CASE IsTagged(frame[1])
    <3>1. EthernetSize + TagSize <= Len(frame)
      BY <1>1, <1>3, <2>8, SizesType DEF TagCutShort
    <3>2. Behind(ViewOf(frame, EthernetSize), TagSize) = ViewOf(frame, EthernetSize + TagSize)
      BY <1>1, <3>1, SizesType, BehindFits
    <3>3. EthernetSize + TagSize \in Nat
      BY SizesType
    <3>4. ReadIPv4(memory, ViewOf(frame, EthernetSize + TagSize))
            = IPv4Read(frame, EthernetSize + TagSize)
      BY <3>3, IPv4View
    <3>5. ~IsIP(frame[1]) /\ offset = TagSize
      BY <2>3, <2>8 DEF IsIP, IsTagged
    <3>6. PrintPacket(memory, Len(frame)) =
            Laid("EthernetII", memory, eth) \cup IPv4Read(frame, EthernetSize + TagSize)
      BY <2>3, <2>6, <2>7, <2>8, <3>2, <3>4, <3>5
    <3>7. QED
      BY <2>2, <2>5, <2>8, <3>5, <3>6 DEF HeadersRead
  <2>9. CASE ~IsTagged(frame[1])
    <3>1. Behind(ViewOf(frame, EthernetSize), 0) = ViewOf(frame, EthernetSize)
      <4>1. EthernetSize + 0 <= Len(frame) /\ EthernetSize + 0 = EthernetSize
        BY <1>1, <2>2, SizesType
      <4>2. QED
        BY <1>1, <4>1, SizesType, BehindFits
    <3>2. ReadIPv4(memory, ViewOf(frame, EthernetSize)) = IPv4Read(frame, EthernetSize)
      BY SizesType, IPv4View
    <3>3. offset = 0
      BY <2>3, <2>9
    <3>4. PrintPacket(memory, Len(frame)) =
            Laid("EthernetII", memory, eth) \cup
            IF IsIP(frame[1]) THEN IPv4Read(frame, EthernetSize) ELSE {}
      BY <2>3, <2>6, <2>7, <2>9, <3>1, <3>2, <3>3
    <3>5. QED
      BY <2>2, <2>5, <2>9, <3>4 DEF HeadersRead
  <2>10. QED
    BY <2>8, <2>9
<1>4. QED
  BY <1>2, <1>3

-----------------------------------------------------------------------------
(***************************************************************************)
(* What is read for headers and what they are differ only behind an IPv4   *)
(* header with options, and there by the UDP header.                       *)
(***************************************************************************)
Below(laid) == {h \in laid : h.layer # "UDP"}

UDPInside(laid, frame) ==
  \A h \in laid : h.layer = "UDP" => h \in UDPOf(frame, h.at)

ShowsOptions(laid) == \E ip \in laid : ip.layer = "IPv4" /\ HasOptions(ip.word)

LEMMA UDPOfLayer ==
  ASSUME NEW frame, NEW at
  PROVE  Below(UDPOf(frame, at)) = {} /\ UDPInside(UDPOf(frame, at), frame)
<1>1. \A h \in UDPOf(frame, at) : h.layer = "UDP" /\ h.at = at
  BY DEF UDPOf, HeaderAt
<1>2. QED
  BY <1>1 DEF Below, UDPInside

LEMMA HeaderAtLayer ==
  ASSUME NEW layer, layer # "UDP", NEW frame, NEW at, NEW size
  PROVE  LET header == HeaderAt(layer, frame, at, size)
         IN Below(header) = header /\ UDPInside(header, frame)
<1>1. \A h \in HeaderAt(layer, frame, at, size) : h.layer = layer
  BY DEF HeaderAt
<1>2. QED
  BY <1>1 DEF Below, UDPInside

LEMMA UnionBelow ==
  ASSUME NEW A, NEW B, NEW frame
  PROVE  /\ Below(A \cup B) = Below(A) \cup Below(B)
         /\ UDPInside(A, frame) /\ UDPInside(B, frame) => UDPInside(A \cup B, frame)
BY DEF Below, UDPInside

LEMMA IPv4Options ==
  ASSUME NEW frame, Len(frame) \in Nat, NEW at \in Nat
  PROVE  /\ Below(IPv4Read(frame, at)) = Below(IPv4Of(frame, at))
         /\ UDPInside(IPv4Read(frame, at), frame)
         /\ \/ IPv4Read(frame, at) = IPv4Of(frame, at)
            \/ ShowsOptions(IPv4Read(frame, at))
<1> DEFINE ip == HeaderAt("IPv4", frame, at, IPv4Size)
           hasUDP == at < Len(frame) /\ IsVersion4(frame[at + 1]) /\ IsUDP(frame[at + 1])
           behind == at + IPv4Size + IF HasOptions(frame[at + 1]) THEN OptionsSize ELSE 0
           read == IF hasUDP THEN UDPOf(frame, at + IPv4Size) ELSE {}
           is == IF hasUDP THEN UDPOf(frame, behind) ELSE {}
<1>1. IPv4Read(frame, at) = ip \cup read /\ IPv4Of(frame, at) = ip \cup is
  BY DEF IPv4Read, IPv4Of
<1>2. Below(read) = {} /\ UDPInside(read, frame) /\ Below(is) = {}
  <2>1. Below({}) = {} /\ UDPInside({}, frame)
    BY DEF Below, UDPInside
  <2>2. QED
    BY <2>1, UDPOfLayer
<1>3. UDPInside(ip, frame)
  BY HeaderAtLayer
<1>4. Below(ip \cup read) = Below(ip \cup is) /\ UDPInside(ip \cup read, frame)
  <2> HIDE DEF ip, read, is
  <2>1. /\ Below(ip \cup read) = Below(ip) \cup Below(read)
        /\ Below(ip \cup is) = Below(ip) \cup Below(is)
    BY UnionBelow
  <2>2. UDPInside(ip \cup read, frame)
    BY <1>2, <1>3, UnionBelow
  <2>3. QED
    BY <1>2, <2>1, <2>2
<1>5. read = is \/ ShowsOptions(ip \cup read)
  <2>1. CASE HasOptions(frame[at + 1]) /\ at + IPv4Size <= Len(frame)
    <3> DEFINE header == [layer |-> "IPv4", at |-> at, word |-> frame[at + 1]]
    <3>1. ip = {header}
      BY <2>1 DEF HeaderAt
    <3>2. header \in ip \cup read
      BY <3>1
    <3>3. header.layer = "IPv4" /\ header.word = frame[at + 1]
      OBVIOUS
    <3> HIDE DEF header, ip, read
    <3>4. QED
      BY <2>1, <3>2, <3>3 DEF ShowsOptions
  <2>2. CASE ~HasOptions(frame[at + 1])
    <3>1. behind = at + IPv4Size
      BY <2>2, SizesType
    <3>2. QED
      BY <3>1
  <2>3. CASE HasOptions(frame[at + 1]) /\ ~(at + IPv4Size <= Len(frame))
    <3>1. behind = at + IPv4Size + OptionsSize
      BY <2>3
    <3>2. /\ ~(at + IPv4Size + UDPSize <= Len(frame))
          /\ ~(at + IPv4Size + OptionsSize + UDPSize <= Len(frame))
      BY <2>3, SizesType
    <3>3. UDPOf(frame, at + IPv4Size) = {} /\ UDPOf(frame, at + IPv4Size + OptionsSize) = {}
      BY <3>2 DEF UDPOf, HeaderAt
    <3>4. QED
      BY <3>1, <3>3
  <2>4. QED
    BY <2>1, <2>2, <2>3
<1>6. QED
  BY <1>1, <1>4, <1>5

LEMMA ReadOrOptions ==
  ASSUME NEW frame \in Seq(Word)
  PROVE  \/ HeadersRead(frame) = HeadersOf(frame)
         \/ OptionsForPorts(HeadersRead(frame), frame)
<1>1. Len(frame) \in Nat
  BY LenProperties
<1>2. CASE frame = <<>> \/ (~IsIP(frame[1]) /\ ~IsTagged(frame[1]))
  BY <1>2 DEF HeadersRead, HeadersOf
<1>3. ASSUME NEW at \in Nat,
             HeadersRead(frame) = HeaderAt("EthernetII", frame, 0, EthernetSize)
                                  \cup IPv4Read(frame, at),
             HeadersOf(frame) = HeaderAt("EthernetII", frame, 0, EthernetSize)
                                \cup IPv4Of(frame, at)
      PROVE  \/ HeadersRead(frame) = HeadersOf(frame)
             \/ OptionsForPorts(HeadersRead(frame), frame)
  <2> DEFINE eth == HeaderAt("EthernetII", frame, 0, EthernetSize)
           read == IPv4Read(frame, at)
           is == IPv4Of(frame, at)
  <2>1. UDPInside(eth, frame)
    BY HeaderAtLayer
  <2>2. /\ Below(read) = Below(is)
        /\ UDPInside(read, frame)
        /\ read = is \/ ShowsOptions(read)
    BY <1>1, IPv4Options
  <2>3. HeadersRead(frame) = eth \cup read /\ HeadersOf(frame) = eth \cup is
    BY <1>3
  <2> HIDE DEF eth, read, is
  <2>4. /\ Below(eth \cup read) = Below(eth) \cup Below(read)
        /\ Below(eth \cup is) = Below(eth) \cup Below(is)
    BY UnionBelow
  <2>5. Below(HeadersRead(frame)) = Below(HeadersOf(frame))
    BY <2>2, <2>3, <2>4
  <2>6. UDPInside(HeadersRead(frame), frame)
    <3>1. UDPInside(eth \cup read, frame)
      BY <2>1, <2>2, UnionBelow
    <3>2. QED
      BY <2>3, <3>1
  <2>7. CASE read = is
    BY <2>7, <2>3
  <2>8. CASE ShowsOptions(read)
    <3>1. ShowsOptions(HeadersRead(frame))
      BY <2>8, <2>3 DEF ShowsOptions
    <3>2. QED
      BY <2>5, <2>6, <3>1 DEF OptionsForPorts, Below, UDPInside, ShowsOptions
  <2>9. QED
    BY <2>7, <2>8, <2>2
<1>4. CASE frame # <<>> /\ IsIP(frame[1])
  <2>1. EthernetSize \in Nat
    BY SizesType
  <2>2. /\ HeadersRead(frame) = HeaderAt("EthernetII", frame, 0, EthernetSize)
                                \cup IPv4Read(frame, EthernetSize)
        /\ HeadersOf(frame) = HeaderAt("EthernetII", frame, 0, EthernetSize)
                              \cup IPv4Of(frame, EthernetSize)
    BY <1>4 DEF HeadersRead, HeadersOf
  <2>3. QED
    BY <1>3, <2>1, <2>2
<1>5. CASE frame # <<>> /\ ~IsIP(frame[1]) /\ IsTagged(frame[1])
  <2>1. EthernetSize + TagSize \in Nat
    BY SizesType
  <2>2. /\ HeadersRead(frame) = HeaderAt("EthernetII", frame, 0, EthernetSize)
                                \cup IPv4Read(frame, EthernetSize + TagSize)
        /\ HeadersOf(frame) = HeaderAt("EthernetII", frame, 0, EthernetSize)
                              \cup IPv4Of(frame, EthernetSize + TagSize)
    BY <1>5 DEF HeadersRead, HeadersOf
  <2>3. QED
    BY <1>3, <2>1, <2>2
<1>6. QED
  BY <1>2, <1>4, <1>5

(* What a view shows is a word, wherever it lies.                          *)
LEMMA LaidType ==
  ASSUME NEW buffer \in Seq(Word), NEW past \in Word, NEW view, view.at \in Nat,
         NEW layer \in {"EthernetII", "IPv4", "UDP"}
  PROVE  Laid(layer, [buffer |-> buffer, past |-> past], view) \subseteq LayerType
<1> DEFINE memory == [buffer |-> buffer, past |-> past]
<1>1. Len(buffer) \in Nat
  BY LenProperties
<1>2. CASE view.at < Len(buffer)
  <2>1. view.at + 1 \in 1 .. Len(buffer)
    BY <1>1, <1>2
  <2>2. buffer[view.at + 1] \in Word
    BY <2>1, ElementOfSeq
  <2>3. QED
    BY <1>2, <2>2 DEF Laid, WordAt, LayerType
<1>3. CASE ~(view.at < Len(buffer))
  BY <1>3 DEF Laid, WordAt, LayerType
<1>4. QED
  BY <1>2, <1>3

LEMMA PrintPacketType ==
  ASSUME NEW buffer \in Seq(Word), NEW past \in Word, NEW captureLength \in Nat
  PROVE  PrintPacket([buffer |-> buffer, past |-> past], captureLength) \subseteq LayerType
<1> DEFINE memory == [buffer |-> buffer, past |-> past]
<1>1. ASSUME NEW view, NEW n \in Nat, view.at \in Nat
      PROVE  Behind(view, n).at \in Nat
  BY <1>1 DEF Behind
<1>2. ASSUME NEW view, view.at \in Nat
      PROVE  ReadUDP(memory, view) \subseteq LayerType
  BY <1>2, LaidType DEF ReadUDP
<1>3. ASSUME NEW view, view.at \in Nat
      PROVE  ReadIPv4(memory, view) \subseteq LayerType
  <2>1. Laid("IPv4", memory, view) \subseteq LayerType
    BY <1>3, LaidType
  <2>2. Behind(view, IPv4Size).at \in Nat
    BY <1>1, <1>3, SizesType
  <2>3. ReadUDP(memory, Behind(view, IPv4Size)) \subseteq LayerType
    BY <1>2, <2>2
  <2> HIDE DEF memory
  <2>4. QED
    BY <2>1, <2>3 DEF ReadIPv4
<1> DEFINE eth == [at |-> 0, size |-> captureLength]
           offset == IF IsTagged(WordAt(memory, 0)) THEN TagSize ELSE 0
<1>4. Laid("EthernetII", memory, eth) \subseteq LayerType
  BY LaidType
<1>5. offset \in Nat /\ EthernetSize \in Nat
  BY SizesType
<1>6. Behind(Behind(eth, EthernetSize), offset).at \in Nat
  <2>1. Behind(eth, EthernetSize).at \in Nat
    BY <1>5 DEF Behind
  <2> HIDE DEF eth, offset
  <2>2. QED
    BY <1>1, <1>5, <2>1
<1>7. ReadIPv4(memory, Behind(Behind(eth, EthernetSize), offset)) \subseteq LayerType
  <2> HIDE DEF memory, eth, offset
  <2>1. QED
    BY <1>3, <1>6
<1>8. PrintPacket(memory, captureLength)
        \in {{}, Laid("EthernetII", memory, eth),
             Laid("EthernetII", memory, eth)
               \cup ReadIPv4(memory, Behind(Behind(eth, EthernetSize), offset))}
  <2> HIDE DEF memory
  <2>1. QED
    BY DEF PrintPacket
<1>9. QED
  <2> HIDE DEF eth, offset
  <2>1. QED
    BY <1>4, <1>7, <1>8

-----------------------------------------------------------------------------
(***************************************************************************)
(* The inductive invariant: the reader agrees with the file it was made    *)
(* from, so what readPacket() leaves in the buffer is the frame that       *)
(* PrintsItsHeaders compares the headers with.                             *)
(***************************************************************************)
IInv ==
  /\ TypeOK
  /\ Coherent(reader)
  /\ PrintsItsHeaders

LEMMA InitIInv == Init => IInv
<1> SUFFICES ASSUME Init
             PROVE  IInv
  OBVIOUS
<1>1. PICK f \in FileType : reader = NewReader(f)
  BY LoopAssumption DEF Init
<1>2. reader \in ReaderType /\ Coherent(reader)
  BY <1>1, NewReaderType
<1>3. printed = <<>> /\ headers = {} /\ printed \in Seq(PacketType)
  BY EmptySeq DEF Init
<1>4. QED
  BY <1>2, <1>3 DEF IInv, TypeOK, Coherent, PrintsItsHeaders

(* The packet that was just appended is the last one.                      *)
LEMMA LastAppended ==
  ASSUME NEW s \in Seq(PacketType), NEW p \in PacketType
  PROVE  /\ Append(s, p) \in Seq(PacketType)
         /\ Append(s, p) # <<>>
         /\ Last(Append(s, p)) = p
<1>1. /\ Append(s, p) \in Seq(PacketType)
      /\ Len(Append(s, p)) = Len(s) + 1
      /\ Append(s, p)[Len(s) + 1] = p
  BY AppendProperties
<1>2. Len(s) \in Nat
  BY LenProperties
<1>3. Append(s, p) # <<>>
  BY <1>1, <1>2, EmptySeq
<1>4. QED
  BY <1>1, <1>3 DEF Last

LEMMA IterateIInv == IInv /\ Iterate => IInv'
<1> SUFFICES ASSUME IInv, Iterate
             PROVE  IInv'
  OBVIOUS
<1> DEFINE read == ReadPacket(reader)
<1>1. /\ reader \in ReaderType /\ Coherent(reader)
      /\ printed \in Seq(PacketType) /\ headers \subseteq LayerType
  BY DEF IInv, TypeOK
<1>2. reader' = read.reader
  BY DEF Iterate
<1>3. CASE ~(IsGood(reader.file) /\ HasRecord(reader.src, reader.file.pos))
  <2>1. /\ read.reader \in ReaderType /\ read.reader.src = reader.src
        /\ Coherent(read.reader) /\ read.packet.isNull
    BY <1>1, <1>3, ReadPacketNone
  <2>2. UNCHANGED <<printed, headers>>
    BY <2>1 DEF Iterate
  <2> HIDE DEF read
  <2>3. TypeOK' /\ Coherent(reader')
    BY <1>1, <1>2, <2>1, <2>2 DEF TypeOK, Coherent
  <2>4. PrintsItsHeaders'
    BY <1>2, <2>1, <2>2 DEF IInv, PrintsItsHeaders
  <2>5. QED
    BY <2>3, <2>4 DEF IInv
<1>4. CASE IsGood(reader.file) /\ HasRecord(reader.src, reader.file.pos)
  <2> DEFINE packet == read.packet
             data == reader.src.data
             frame == SubSeq(data, packet.off + 1, packet.off + packet.caplen)
  <2>1. /\ read.reader \in ReaderType /\ read.reader.src = reader.src
        /\ Coherent(read.reader)
        /\ read.packet \in PacketType /\ ~read.packet.isNull
        /\ read.packet.caplen <= Len(read.reader.buffer)
        /\ SubSeq(read.reader.buffer, 1, read.packet.caplen) = frame
    BY <1>1, <1>4, ReadPacketNext
  <2>2. /\ printed' = Append(printed, packet)
        /\ \E past \in Word :
             headers' = PrintPacket([buffer |-> reader'.buffer, past |-> past],
                                    Last(printed').caplen)
    BY <2>1 DEF Iterate
  <2> HIDE DEF read
  <2>3. printed' \in Seq(PacketType) /\ printed' # <<>> /\ Last(printed') = packet
    BY <1>1, <2>1, <2>2, LastAppended
  <2>4. /\ packet.caplen \in Word /\ packet.caplen \in Nat
        /\ reader'.buffer \in Seq(Word) /\ Len(reader'.buffer) \in Nat
    BY <1>2, <2>1, LenProperties DEF PacketType, ReaderType, Word
  <2>5. PICK past \in Word :
          headers' = PrintPacket([buffer |-> reader'.buffer, past |-> past], packet.caplen)
    BY <2>2, <2>3
  <2>6. headers' \subseteq LayerType
    BY <2>4, <2>5, PrintPacketType
  <2>7. /\ frame \in Seq(Word) /\ Len(frame) = packet.caplen
        /\ \A i \in 1 .. Len(frame) : reader'.buffer[i] = frame[i]
    <3>1. 0 \in Nat /\ 0 + 1 = 1 /\ 0 + packet.caplen = packet.caplen
          /\ packet.caplen <= Len(reader'.buffer)
      BY <1>2, <2>1, <2>4
    <3>2. /\ SubSeq(reader'.buffer, 0 + 1, 0 + packet.caplen) \in Seq(Word)
          /\ Len(SubSeq(reader'.buffer, 0 + 1, 0 + packet.caplen)) = packet.caplen
          /\ \A i \in 1 .. packet.caplen :
               SubSeq(reader'.buffer, 0 + 1, 0 + packet.caplen)[i] = reader'.buffer[0 + i]
      <4> HIDE DEF packet
      <4>1. QED
        BY <2>4, <3>1, Block
    <3>3. SubSeq(reader'.buffer, 0 + 1, 0 + packet.caplen) = frame
      BY <1>2, <2>1, <3>1
    <3>4. \A i \in 1 .. packet.caplen : 0 + i = i
      BY <2>4
    <3> HIDE DEF packet, frame
    <3>5. QED
      BY <3>2, <3>3, <3>4
  <2>8. \/ TagCutShort(frame)
        \/ headers' = HeadersOf(frame)
        \/ OptionsForPorts(headers', frame)
    <3> DEFINE memory == [buffer |-> reader'.buffer, past |-> past]
    <3>1. Holds(memory, frame) /\ Len(memory.buffer) \in Nat
      BY <1>2, <2>1, <2>4, <2>7 DEF Holds
    <3> HIDE DEF memory, frame
    <3>2. ~TagCutShort(frame) => PrintPacket(memory, Len(frame)) = HeadersRead(frame)
      BY <3>1, PrintPacketFrame
    <3>3. ~TagCutShort(frame) => headers' = HeadersRead(frame)
      BY <2>5, <2>7, <3>2 DEF memory
    <3>4. frame \in Seq(Word)
      BY <3>1 DEF Holds
    <3>5. QED
      BY <3>3, <3>4, ReadOrOptions
  <2>9. PrintsItsHeaders'
    BY <1>2, <2>1, <2>3, <2>8 DEF PrintsItsHeaders
  <2>10. QED
    BY <1>2, <2>1, <2>3, <2>6, <2>9 DEF IInv, TypeOK, Coherent
<1>5. QED
  BY <1>3, <1>4

THEOREM Invariance == Spec => []IInv
<1>1. Init => IInv
  BY InitIInv
<1>2. IInv /\ [Next]_vars => IInv'
  <2> SUFFICES ASSUME IInv, [Next]_vars
               PROVE  IInv'
    OBVIOUS
  <2>1. CASE Next
    BY <2>1, IterateIInv DEF Next
  <2>2. CASE UNCHANGED vars
    BY <2>2 DEF vars, IInv, TypeOK, PrintsItsHeaders
  <2>3. QED
    BY <2>1, <2>2
<1>3. QED
  BY <1>1, <1>2, PTL DEF Spec

(* The reader, the packets and the headers always have their types.        *)
THEOREM TypeCorrect == Spec => []TypeOK
<1>1. IInv => TypeOK
  BY DEF IInv
<1>2. QED
  BY <1>1, Invariance, PTL

(* Headers of a packet are never read out of an earlier packet's bytes,    *)
(* nor from behind the buffer, except of a frame that ends inside its tag; *)
(* and UDP's never from elsewhere, but out of the options of IPv4.         *)
THEOREM OwnHeaders == Spec => []PrintsItsHeaders
<1>1. IInv => PrintsItsHeaders
  BY DEF IInv
<1>2. QED
  BY <1>1, Invariance, PTL
-----------------------------------------------------------------------------
(***************************************************************************)
(* Chain is defined by recursion from a record to the next one.  Its table *)
(* is made from the end of the file to its start: ChainFrom(g, f, m) says  *)
(* that g is the table for the positions from m on.                        *)
(***************************************************************************)
LEMMA Induction ==
  ASSUME NEW T, 0 \in T, \A n \in Nat : n \in T => n + 1 \in T
  PROVE  \A n \in Nat : n \in T
<1>1. SUFFICES ASSUME Nat \ T # {}
               PROVE  FALSE
  OBVIOUS
<1>2. PICK k \in Nat \ T : \A m \in Nat \ T : ~(<<m, k>> \in OpToRel(<, Nat))
  BY <1>1, NatLessThanWellFounded, WFMin
<1>3. \A m \in Nat \ T : ~(m < k)
  BY <1>2 DEF OpToRel
<1>4. k # 0 /\ k - 1 \in Nat /\ k - 1 < k /\ k - 1 + 1 = k
  OBVIOUS
<1>5. QED
  BY <1>3, <1>4

ChainFrom(g, f, m) ==
  g = [p \in m .. Len(f.data) |->
         IF HasRecord(f, p) THEN <<p>> \o g[NextRecord(f, p)] ELSE <<>>]

LEMMA ChainFromAt ==
  ASSUME NEW g, NEW f, NEW m, ChainFrom(g, f, m), NEW p \in m .. Len(f.data)
  PROVE  g[p] = IF HasRecord(f, p) THEN <<p>> \o g[NextRecord(f, p)] ELSE <<>>
<1> DEFINE h == [q \in m .. Len(f.data) |->
                   IF HasRecord(f, q) THEN <<q>> \o g[NextRecord(f, q)] ELSE <<>>]
<1>1. h[p] = IF HasRecord(f, p) THEN <<p>> \o g[NextRecord(f, p)] ELSE <<>>
  OBVIOUS
<1>2. g = h
  BY DEF ChainFrom
<1> HIDE DEF h
<1>3. QED
  BY <1>1, <1>2

LEMMA ChainFromOneBefore ==
  ASSUME NEW f \in FileType, NEW g, NEW m \in 1 .. Len(f.data), ChainFrom(g, f, m)
  PROVE  \E h : ChainFrom(h, f, m - 1)
<1> DEFINE len == Len(f.data)
           first == IF HasRecord(f, m - 1) THEN <<m - 1>> \o g[NextRecord(f, m - 1)] ELSE <<>>
           h == [p \in m - 1 .. len |-> IF p = m - 1 THEN first ELSE g[p]]
<1>1. len \in Nat /\ m - 1 \in Nat /\ m - 1 \in m - 1 .. len
  BY LenProperties DEF FileType
<1>2. h[m - 1] = first /\ \A p \in m .. len : h[p] = g[p]
  BY <1>1
<1>3. h = [p \in m - 1 .. len |-> h[p]]
  OBVIOUS
<1> HIDE DEF h
<1>4. ASSUME NEW p \in m - 1 .. len
      PROVE  h[p] = IF HasRecord(f, p) THEN <<p>> \o h[NextRecord(f, p)] ELSE <<>>
  <2>1. p \in Nat /\ HasRecord(f, p) => NextRecord(f, p) \in p + 1 .. len
    BY <1>1, NextRecordWithin
  <2>2. HasRecord(f, p) => NextRecord(f, p) \in m .. len
    BY <1>1, <2>1
  <2>3. HasRecord(f, p) => h[NextRecord(f, p)] = g[NextRecord(f, p)]
    BY <1>2, <2>2
  <2>4. CASE p = m - 1
    BY <1>2, <2>3, <2>4
  <2>5. CASE p # m - 1
    <3>1. p \in m .. len
      BY <1>1, <2>5
    <3>2. g[p] = IF HasRecord(f, p) THEN <<p>> \o g[NextRecord(f, p)] ELSE <<>>
      BY <3>1, ChainFromAt
    <3>3. QED
      BY <1>2, <2>3, <3>1, <3>2
  <2>6. QED
    BY <2>4, <2>5
<1>5. ChainFrom(h, f, m - 1)
  BY <1>3, <1>4 DEF ChainFrom
<1>6. QED
  BY <1>5

LEMMA ChainFromExists ==
  ASSUME NEW f \in FileType
  PROVE  \E g : ChainFrom(g, f, 0)
<1> DEFINE len == Len(f.data)
           T == {n \in Nat : n <= len => \E g : ChainFrom(g, f, len - n)}
<1>1. len \in Nat
  BY LenProperties DEF FileType
<1>2. 0 \in T
  <2> DEFINE g == [p \in len .. len |-> <<>>]
  <2>1. \A p \in len .. len : ~HasRecord(f, p)
    BY <1>1 DEF HasRecord, HeaderWords
  <2>2. ChainFrom(g, f, len)
    BY <2>1 DEF ChainFrom
  <2>3. len - 0 = len
    BY <1>1
  <2>4. QED
    BY <2>2, <2>3
<1>3. ASSUME NEW n \in Nat, n \in T
      PROVE  n + 1 \in T
  <2>1. SUFFICES ASSUME n + 1 <= len
                 PROVE  \E h : ChainFrom(h, f, len - (n + 1))
    OBVIOUS
  <2>2. PICK g : ChainFrom(g, f, len - n)
    BY <1>1, <1>3, <2>1
  <2>3. len - n \in 1 .. len /\ len - n - 1 = len - (n + 1)
    BY <1>1, <2>1
  <2>4. \E h : ChainFrom(h, f, len - n - 1)
    BY <2>2, <2>3, ChainFromOneBefore
  <2>5. QED
    BY <2>3, <2>4
<1>4. len \in T
  <2> HIDE DEF T
  <2>1. QED
    BY <1>1, <1>2, <1>3, Induction
<1>5. len - len = 0
  BY <1>1
<1>6. QED
  BY <1>1, <1>4, <1>5

ChainTable(f) == CHOOSE g : ChainFrom(g, f, 0)

LEMMA ChainIsTable ==
  ASSUME NEW f \in FileType
  PROVE  ChainFrom(ChainTable(f), f, 0) /\ Chain(f) = ChainTable(f)[0]
<1>1. ChainFrom(ChainTable(f), f, 0)
  BY ChainFromExists DEF ChainTable
<1>2. Chain(f) = ChainTable(f)[0]
  BY DEF Chain, ChainTable, ChainFrom
<1>3. QED
  BY <1>1, <1>2

(* The chain from a position on is a sequence of positions.                *)
LEMMA ChainTableType ==
  ASSUME NEW f \in FileType, NEW p \in 0 .. Len(f.data)
  PROVE  /\ ChainTable(f)[p] \in Seq(Nat)
         /\ ChainTable(f)[p] = IF HasRecord(f, p)
                               THEN <<p>> \o ChainTable(f)[NextRecord(f, p)] ELSE <<>>
<1> DEFINE len == Len(f.data)
           g == ChainTable(f)
           T == {n \in Nat : \A q \in 0 .. len : len - q <= n => g[q] \in Seq(Nat)}
<1>1. len \in Nat
  BY LenProperties DEF FileType
<1>2. \A q \in 0 .. len :
        g[q] = IF HasRecord(f, q) THEN <<q>> \o g[NextRecord(f, q)] ELSE <<>>
  BY ChainIsTable, ChainFromAt
<1> HIDE DEF g
<1>3. 0 \in T
  <2>1. \A q \in 0 .. len : len - q <= 0 => ~HasRecord(f, q)
    BY <1>1 DEF HasRecord, HeaderWords
  <2>2. \A q \in 0 .. len : len - q <= 0 => g[q] = <<>>
    BY <1>2, <2>1
  <2>3. <<>> \in Seq(Nat)
    BY EmptySeq
  <2>4. QED
    BY <2>2, <2>3
<1>4. ASSUME NEW n \in Nat, n \in T
      PROVE  n + 1 \in T
  <2>1. SUFFICES ASSUME NEW q \in 0 .. len, len - q <= n + 1
                 PROVE  g[q] \in Seq(Nat)
    OBVIOUS
  <2>2. CASE HasRecord(f, q)
    <3>1. q \in Nat /\ NextRecord(f, q) \in q + 1 .. len
      BY <2>2, NextRecordWithin
    <3>2. NextRecord(f, q) \in 0 .. len /\ len - NextRecord(f, q) <= n
      BY <1>1, <2>1, <3>1
    <3>3. g[NextRecord(f, q)] \in Seq(Nat)
      BY <1>4, <3>2
    <3>4. <<q>> \in Seq(Nat)
      BY <3>1
    <3>5. <<q>> \o g[NextRecord(f, q)] \in Seq(Nat)
      BY <3>3, <3>4, ConcatProperties
    <3>6. QED
      BY <1>2, <2>2, <3>5
  <2>3. CASE ~HasRecord(f, q)
    BY <1>2, <2>3, EmptySeq
  <2>4. QED
    BY <2>2, <2>3
<1>5. len \in T
  <2> HIDE DEF T
  <2>1. QED
    BY <1>1, <1>3, <1>4, Induction
<1>6. g[p] \in Seq(Nat)
  BY <1>1, <1>5
<1>7. QED
  BY <1>2, <1>6 DEF g
-----------------------------------------------------------------------------
(* The packets whose records begin at the given positions.                 *)
PacketsAt(f, starts) == [i \in DOMAIN starts |-> PacketAt(f, starts[i])]

Packets(f) == PacketType \cup {PacketAt(f, p) : p \in Nat}

LEMMA PacketsAtType ==
  ASSUME NEW f, NEW starts \in Seq(Nat)
  PROVE  /\ PacketsAt(f, starts) \in Seq(Packets(f))
         /\ Len(PacketsAt(f, starts)) = Len(starts)
         /\ \A i \in 1 .. Len(starts) : PacketsAt(f, starts)[i] = PacketAt(f, starts[i])
<1>1. Len(starts) \in Nat /\ DOMAIN starts = 1 .. Len(starts)
  BY LenProperties
<1>2. PacketsAt(f, starts) = [i \in 1 .. Len(starts) |-> PacketAt(f, starts[i])]
  BY <1>1 DEF PacketsAt
<1>3. \A i \in 1 .. Len(starts) : PacketAt(f, starts[i]) \in Packets(f)
  <2>1. \A i \in 1 .. Len(starts) : starts[i] \in Nat
    BY ElementOfSeq
  <2>2. QED
    BY <2>1 DEF Packets
<1>4. QED
  BY <1>1, <1>2, <1>3

LEMMA PrefixByElements ==
  ASSUME NEW S, NEW s \in Seq(S), NEW t \in Seq(S), Len(s) <= Len(t),
         \A i \in 1 .. Len(s) : s[i] = t[i]
  PROVE  IsPrefix(s, t)
<1>1. Len(s) \in Nat /\ Len(t) \in Nat /\ 1 \in Int
  BY LenProperties
<1>2. \A i \in 1 .. Len(s) : t[i] \in S
  BY <1>1, ElementOfSeq
<1>3. /\ SubSeq(t, 1, Len(s)) \in Seq(S)
      /\ Len(SubSeq(t, 1, Len(s))) = Len(s)
      /\ \A i \in 1 .. Len(s) : SubSeq(t, 1, Len(s))[i] = t[i]
  <2>1. /\ SubSeq(t, 1, Len(s)) \in Seq(S)
        /\ Len(SubSeq(t, 1, Len(s))) = IF 1 <= Len(s) THEN Len(s) - 1 + 1 ELSE 0
        /\ \A i \in 1 .. Len(s) - 1 + 1 : SubSeq(t, 1, Len(s))[i] = t[1 + i - 1]
    BY <1>1, <1>2, SubSeqProperties
  <2>2. QED
    BY <1>1, <2>1
<1>4. SubSeq(s, 1, Len(s)) = s
  BY SubSeqFull
<1>5. s = SubSeq(t, 1, Len(s))
  BY <1>3, SeqEqual
<1>6. QED
  BY <1>4, <1>5 DEF IsPrefix

LEMMA PrefixElements ==
  ASSUME NEW S, NEW s \in Seq(S), NEW t \in Seq(S), IsPrefix(s, t)
  PROVE  Len(s) <= Len(t) /\ \A i \in 1 .. Len(s) : s[i] = t[i]
<1>1. Len(s) \in Nat /\ Len(t) \in Nat /\ 1 \in Int /\ Len(s) <= Len(t)
  BY LenProperties DEF IsPrefix
<1>2. \A i \in 1 .. Len(s) : t[i] \in S
  BY <1>1, ElementOfSeq
<1>3. \A i \in 1 .. Len(s) : SubSeq(t, 1, Len(s))[i] = t[i]
  <2>1. \A i \in 1 .. Len(s) - 1 + 1 : SubSeq(t, 1, Len(s))[i] = t[1 + i - 1]
    BY <1>1, <1>2, SubSeqProperties
  <2>2. QED
    BY <1>1, <2>1
<1>4. SubSeq(s, 1, Len(s)) = s
  BY SubSeqFull
<1>5. QED
  BY <1>1, <1>3, <1>4 DEF IsPrefix

LEMMA PrefixOfItself ==
  ASSUME NEW S, NEW s \in Seq(S)
  PROVE  IsPrefix(s, s)
BY LenProperties, PrefixByElements

LEMMA EmptyIsPrefix ==
  ASSUME NEW S, NEW s \in Seq(S)
  PROVE  IsPrefix(<<>>, s)
<1>1. <<>> \in Seq(S) /\ Len(<<>>) = 0 /\ Len(s) \in Nat
  BY EmptySeq, LenProperties
<1>2. Len(<<>>) <= Len(s) /\ \A i \in 1 .. Len(<<>>) : <<>>[i] = s[i]
  BY <1>1
<1>3. QED
  BY <1>1, <1>2, PrefixByElements

LEMMA PrefixOfAppend ==
  ASSUME NEW S, NEW s \in Seq(S), NEW t \in Seq(S), NEW e \in S, IsPrefix(s, t)
  PROVE  IsPrefix(s, Append(t, e))
<1>1. Len(s) \in Nat /\ Len(t) \in Nat
  BY LenProperties
<1>2. Len(s) <= Len(t) /\ \A i \in 1 .. Len(s) : s[i] = t[i]
  BY PrefixElements
<1>3. /\ Append(t, e) \in Seq(S) /\ Len(Append(t, e)) = Len(t) + 1
      /\ \A i \in 1 .. Len(t) : Append(t, e)[i] = t[i]
  BY AppendProperties
<1>4. Len(s) <= Len(Append(t, e)) /\ \A i \in 1 .. Len(s) : s[i] = Append(t, e)[i]
  BY <1>1, <1>2, <1>3
<1>5. QED
  BY <1>3, <1>4, PrefixByElements

LEMMA PacketsAtPrefix ==
  ASSUME NEW f, NEW w \in Seq(Nat), NEW v \in Seq(Nat)
  PROVE  IsPrefix(PacketsAt(f, w), PacketsAt(f, w \o v))
<1> DEFINE all == w \o v
<1>1. /\ all \in Seq(Nat) /\ Len(all) = Len(w) + Len(v)
      /\ Len(w) \in Nat /\ Len(v) \in Nat
      /\ \A i \in 1 .. Len(w) + Len(v) :
           all[i] = IF i <= Len(w) THEN w[i] ELSE v[i - Len(w)]
  BY ConcatProperties, LenProperties
<1> HIDE DEF all
<1>2. \A i \in 1 .. Len(w) : i \in 1 .. Len(all) /\ all[i] = w[i]
  BY <1>1
<1>3. /\ PacketsAt(f, w) \in Seq(Packets(f)) /\ Len(PacketsAt(f, w)) = Len(w)
      /\ \A i \in 1 .. Len(w) : PacketsAt(f, w)[i] = PacketAt(f, w[i])
  BY PacketsAtType
<1>4. /\ PacketsAt(f, all) \in Seq(Packets(f)) /\ Len(PacketsAt(f, all)) = Len(all)
      /\ \A i \in 1 .. Len(all) : PacketsAt(f, all)[i] = PacketAt(f, all[i])
  BY <1>1, PacketsAtType
<1>5. /\ Len(PacketsAt(f, w)) <= Len(PacketsAt(f, all))
      /\ \A i \in 1 .. Len(PacketsAt(f, w)) : PacketsAt(f, w)[i] = PacketsAt(f, all)[i]
  BY <1>1, <1>2, <1>3, <1>4
<1>6. IsPrefix(PacketsAt(f, w), PacketsAt(f, all))
  BY <1>3, <1>4, <1>5, PrefixByElements
<1>7. QED
  BY <1>6 DEF all

LEMMA PacketsAtAppend ==
  ASSUME NEW f, NEW w \in Seq(Nat), NEW p \in Nat
  PROVE  PacketsAt(f, Append(w, p)) = Append(PacketsAt(f, w), PacketAt(f, p))
<1> DEFINE all == Append(w, p)
           more == Append(PacketsAt(f, w), PacketAt(f, p))
<1>1. /\ all \in Seq(Nat) /\ Len(all) = Len(w) + 1 /\ Len(w) \in Nat
      /\ \A i \in 1 .. Len(w) : all[i] = w[i]
      /\ all[Len(w) + 1] = p
  BY AppendProperties, LenProperties
<1>2. /\ PacketsAt(f, w) \in Seq(Packets(f)) /\ Len(PacketsAt(f, w)) = Len(w)
      /\ \A i \in 1 .. Len(w) : PacketsAt(f, w)[i] = PacketAt(f, w[i])
  BY PacketsAtType
<1>3. PacketAt(f, p) \in Packets(f)
  BY DEF Packets
<1>4. /\ more \in Seq(Packets(f)) /\ Len(more) = Len(PacketsAt(f, w)) + 1
      /\ \A i \in 1 .. Len(PacketsAt(f, w)) : more[i] = PacketsAt(f, w)[i]
      /\ more[Len(PacketsAt(f, w)) + 1] = PacketAt(f, p)
  BY <1>2, <1>3, AppendProperties
<1> HIDE DEF all, more
<1>5. /\ PacketsAt(f, all) \in Seq(Packets(f)) /\ Len(PacketsAt(f, all)) = Len(all)
      /\ \A i \in 1 .. Len(all) : PacketsAt(f, all)[i] = PacketAt(f, all[i])
  BY <1>1, PacketsAtType
<1>6. ASSUME NEW i \in 1 .. Len(all)
      PROVE  PacketsAt(f, all)[i] = more[i]
  <2>1. CASE i \in 1 .. Len(w)
    BY <1>1, <1>2, <1>4, <1>5, <2>1
  <2>2. CASE i = Len(w) + 1
    BY <1>1, <1>2, <1>4, <1>5, <2>2
  <2>3. QED
    BY <1>1, <2>1, <2>2
<1>7. PacketsAt(f, all) = more
  BY <1>1, <1>2, <1>4, <1>5, <1>6, SeqEqual
<1>8. QED
  BY <1>7 DEF all, more
-----------------------------------------------------------------------------
(***************************************************************************)
(* What has been printed, as long as the reader is in step with the file:  *)
(* the packets at a part w of the chain, with the rest of the chain where  *)
(* the reader stands, or all of it once the stream is not good any more.   *)
(***************************************************************************)
PlaceBehind(f, starts) == IF starts = <<>> THEN 0 ELSE NextRecord(f, Last(starts))

InStep(w) ==
  /\ printed = PacketsAt(reader.src, w)
  /\ IF IsGood(reader.file)
     THEN /\ Chain(reader.src) = w \o ChainTable(reader.src)[reader.file.pos]
          /\ reader.file.pos = PlaceBehind(reader.src, w)
     ELSE Chain(reader.src) = w

(* An overlong record puts the reader out of step, but not before all      *)
(* records were printed.  A file without records prints nothing.           *)
Readable(f) == HeaderAccepted(f) /\ f.header.snaplen > 0

Following ==
  IF Readable(reader.src)
  THEN \/ \E w \in Seq(Nat) : InStep(w)
       \/ Overlong(reader.src) /\ IsPrefix(Records(reader.src), printed)
  ELSE printed = <<>>

LEMMA RecordsType ==
  ASSUME NEW f \in FileType
  PROVE  /\ Chain(f) \in Seq(Nat)
         /\ Records(f) = PacketsAt(f, Chain(f))
         /\ Records(f) \in Seq(Packets(f))
<1>1. 0 \in 0 .. Len(f.data)
  BY LenProperties DEF FileType
<1>2. Chain(f) \in Seq(Nat)
  BY <1>1, ChainIsTable, ChainTableType
<1>3. Records(f) = PacketsAt(f, Chain(f))
  BY DEF Records, PacketsAt
<1>4. QED
  BY <1>2, <1>3, PacketsAtType

LEMMA NoRecords ==
  ASSUME NEW f \in FileType, ~Readable(f)
  PROVE  Records(f) = <<>>
<1>1. 0 \in 0 .. Len(f.data) /\ ~HasRecord(f, 0)
  BY LenProperties DEF FileType, Readable, HasRecord
<1>2. Chain(f) = <<>>
  BY <1>1, ChainIsTable, ChainTableType
<1>3. Len(Chain(f)) = 0
  BY <1>2, EmptySeq
<1>4. Records(f) \in Seq(Packets(f)) /\ Len(Records(f)) = 0
  BY <1>3, RecordsType, PacketsAtType
<1>5. QED
  BY <1>4, EmptySeq

LEMMA InitFollowing == Init => Following
<1> SUFFICES ASSUME Init
             PROVE  Following
  OBVIOUS
<1>1. PICK f \in FileType : reader = NewReader(f)
  BY LoopAssumption DEF Init
<1>2. /\ reader.src = f /\ reader.file.pos = 0 /\ IsGood(reader.file)
      /\ printed = <<>>
  BY <1>1, NewReaderType DEF Init
<1>3. 0 \in 0 .. Len(f.data)
  BY LenProperties DEF FileType
<1>4. /\ <<>> \in Seq(Nat) /\ Len(<<>>) = 0
      /\ <<>> \o ChainTable(f)[0] = Chain(f)
  BY <1>3, EmptySeq, ChainTableType, ChainIsTable, ConcatEmptySeq
<1>5. PacketsAt(f, <<>>) = <<>>
  <2>1. PacketsAt(f, <<>>) \in Seq(Packets(f)) /\ Len(PacketsAt(f, <<>>)) = 0
    BY <1>4, PacketsAtType
  <2>2. QED
    BY <2>1, EmptySeq
<1>6. InStep(<<>>)
  BY <1>2, <1>4, <1>5 DEF InStep, PlaceBehind
<1>7. QED
  BY <1>2, <1>4, <1>6 DEF Following

(* A record is printed: it is the next of the chain, if the reader is in   *)
(* step.                                                                   *)
LEMMA RecordFollows ==
  ASSUME IInv, Following, Iterate,
         IsGood(reader.file), HasRecord(reader.src, reader.file.pos)
  PROVE  Following'
<1> DEFINE f == reader.src
           p == reader.file.pos
           read == ReadPacket(reader)
           packet == PacketAt(f, p)
<1>1. /\ reader \in ReaderType /\ Coherent(reader) /\ reader' = read.reader
      /\ printed \in Seq(PacketType)
  BY DEF IInv, TypeOK, Iterate
<1>2. /\ f \in FileType /\ p \in Nat /\ Readable(f)
      /\ NextRecord(f, p) \in p + 1 .. Len(f.data)
      /\ p \in 0 .. Len(f.data)
  <2>1. f \in FileType /\ p \in Nat /\ Readable(f) /\ Len(f.data) \in Nat
    BY <1>1, LenProperties DEF ReaderType, StreamType, FileType, Readable, HasRecord
  <2>2. NextRecord(f, p) \in p + 1 .. Len(f.data)
    BY <2>1, NextRecordWithin
  <2>3. QED
    BY <2>1, <2>2
<1>3. /\ read.reader.src = f /\ IsGood(read.reader.file)
      /\ read.reader.file.pos = NextRecord(f, p)
      /\ read.packet \in PacketType /\ ~read.packet.isNull
      /\ read.packet.sec = f.data[p + 1]
      /\ read.packet.nsec = NsecOf(f, p)
      /\ read.packet.off = p + HeaderWords
      /\ read.packet.caplen = f.data[p + 3]
  BY <1>1, ReadPacketNext
<1>4. printed' = Append(printed, read.packet)
  BY <1>3 DEF Iterate
<1>5. /\ reader'.src = f /\ IsGood(reader'.file) /\ reader'.file.pos = NextRecord(f, p)
  BY <1>1, <1>3
<1> HIDE DEF read
<1>6. read.packet = packet
  <2>1. read.packet.isNull = FALSE
    BY <1>3 DEF PacketType
  <2>2. QED
    BY <1>3, <2>1 DEF PacketAt, PacketType
<1> HIDE DEF f, p, packet
<1>7. CASE \E w \in Seq(Nat) : InStep(w)
  <2>1. PICK w \in Seq(Nat) : InStep(w)
    BY <1>7
  <2>2. /\ printed = PacketsAt(f, w)
        /\ Chain(f) = w \o ChainTable(f)[p]
    BY <2>1 DEF InStep, f, p
  <2> DEFINE rest == ChainTable(f)[NextRecord(f, p)]
  <2>0. PICK all : all = Append(w, p)
    OBVIOUS
  <2>3. /\ all \in Seq(Nat) /\ all = w \o <<p>> /\ <<p>> \in Seq(Nat)
        /\ all # <<>> /\ all[Len(all)] = p
    <3>1. /\ all \in Seq(Nat) /\ all # <<>> /\ Len(all) = Len(w) + 1
          /\ all[Len(w) + 1] = p
      BY <1>2, <2>0, AppendProperties
    <3>2. all = w \o <<p>> /\ <<p>> \in Seq(Nat)
      BY <1>2, <2>0, AppendIsConcat
    <3>3. QED
      BY <3>1, <3>2
  <2>4. rest \in Seq(Nat) /\ ChainTable(f)[p] = <<p>> \o rest
    <3>1. NextRecord(f, p) \in 0 .. Len(f.data) /\ HasRecord(f, p)
      BY <1>2 DEF f, p
    <3>2. QED
      BY <1>2, <3>1, ChainTableType
  <2>5. printed' = PacketsAt(f, all)
    BY <1>2, <1>4, <1>6, <2>0, <2>2, PacketsAtAppend DEF packet
  <2> HIDE DEF rest
  <2>6. Chain(f) = all \o rest
    <3>1. (w \o <<p>>) \o rest = w \o (<<p>> \o rest)
      BY <2>3, <2>4, ConcatAssociative
    <3>2. QED
      BY <2>2, <2>3, <2>4, <3>1
  <2>7. PlaceBehind(f, all) = NextRecord(f, p)
    BY <2>3 DEF PlaceBehind, Last
  <2>8. InStep(all)'
    <3>1. printed' = PacketsAt(reader'.src, all)
      BY <1>5, <2>5
    <3>2. Chain(reader'.src) = all \o ChainTable(reader'.src)[reader'.file.pos]
      BY <1>5, <2>6 DEF rest
    <3>3. reader'.file.pos = PlaceBehind(reader'.src, all)
      BY <1>5, <2>7
    <3>4. QED
      BY <1>5, <3>1, <3>2, <3>3 DEF InStep
  <2>9. QED
    BY <1>2, <1>5, <2>3, <2>8 DEF Following
<1>8. CASE Overlong(f) /\ IsPrefix(Records(f), printed)
  <2>1. /\ printed \in Seq(Packets(f)) /\ Records(f) \in Seq(Packets(f))
        /\ read.packet \in Packets(f)
    <3>1. PacketType \subseteq Packets(f)
      BY DEF Packets
    <3>2. QED
      BY <1>1, <1>2, <1>3, <3>1, SeqMonotonic, RecordsType
  <2>2. IsPrefix(Records(f), printed')
    BY <1>4, <1>8, <2>1, PrefixOfAppend
  <2>3. QED
    BY <1>2, <1>5, <1>8, <2>2 DEF Following
<1>9. QED
  BY <1>2, <1>7, <1>8 DEF Following, f

(* No record is there: the stream ends or breaks behind the last one, or   *)
(* the reader passes the header of an overlong one.                        *)
LEMMA NothingFollows ==
  ASSUME IInv, Following, Iterate,
         ~(IsGood(reader.file) /\ HasRecord(reader.src, reader.file.pos))
  PROVE  Following'
<1> DEFINE f == reader.src
           p == reader.file.pos
           read == ReadPacket(reader)
<1>1. /\ reader \in ReaderType /\ Coherent(reader) /\ reader' = read.reader
      /\ f \in FileType
  BY DEF IInv, TypeOK, Iterate, ReaderType
<1>2. read.reader.src = f /\ read.packet.isNull
  BY <1>1, ReadPacketNone
<1>3. reader'.src = f /\ printed' = printed
  BY <1>1, <1>2 DEF Iterate
<1>4. CASE ~Readable(f)
  BY <1>3, <1>4 DEF Following
<1>5. CASE Readable(f)
  <2>1. \/ ~IsGood(reader'.file)
        \/ /\ IsGood(reader.file)
           /\ p + HeaderWords <= Len(f.data)
           /\ f.data[p + 3] > f.header.snaplen
    BY <1>1, <1>5, ReadPacketStops DEF Readable
  <2> HIDE DEF read
  <2>2. CASE Overlong(f) /\ IsPrefix(Records(f), printed)
    BY <1>3, <1>5, <2>2 DEF Following
  <2>3. CASE \E w \in Seq(Nat) : InStep(w)
    <3>1. PICK w \in Seq(Nat) : InStep(w)
      BY <2>3
    <3>2. printed = PacketsAt(f, w)
      BY <3>1 DEF InStep
    <3>3. Chain(f) = w
      <4>1. CASE ~IsGood(reader.file)
        BY <3>1, <4>1 DEF InStep
      <4>2. CASE IsGood(reader.file)
        <5>1. p \in 0 .. Len(f.data)
          <6>1. /\ reader.file \in StreamType /\ reader.file.data = f.data
                /\ p <= Len(f.data) /\ p \in Nat /\ Len(f.data) \in Nat
            BY <1>1, <1>5, LenProperties
               DEF ReaderType, StreamType, FileType, Coherent, Readable
          <6>2. QED
            BY <6>1
        <5>2. ~HasRecord(f, p)
          BY <4>2
        <5>3. ChainTable(f)[p] = <<>>
          BY <1>1, <5>1, <5>2, ChainTableType
        <5>4. Chain(f) = w \o <<>>
          BY <3>1, <4>2, <5>3 DEF InStep
        <5>5. QED
          BY <5>4, ConcatEmptySeq
      <4>3. QED
        BY <4>1, <4>2
    <3>4. CASE ~IsGood(reader'.file)
      <4>1. InStep(w)'
        BY <1>3, <3>2, <3>3, <3>4 DEF InStep
      <4>2. QED
        BY <1>3, <1>5, <4>1 DEF Following
    <3>5. CASE IsGood(reader'.file)
      <4>1. p = PlaceBehind(f, w)
        BY <2>1, <3>1, <3>5 DEF InStep
      <4>2. Overlong(f)
        BY <2>1, <3>3, <3>5, <4>1 DEF Overlong, PlaceBehind
      <4>3. Records(f) = printed /\ Records(f) \in Seq(Packets(f))
        BY <1>1, <3>2, <3>3, RecordsType
      <4>4. IsPrefix(Records(f), printed)
        BY <4>3, PrefixOfItself
      <4>5. QED
        BY <1>3, <1>5, <4>2, <4>4 DEF Following
    <3>6. QED
      BY <3>4, <3>5
  <2>4. QED
    BY <1>5, <2>2, <2>3 DEF Following
<1>6. QED
  BY <1>4, <1>5

LEMMA FollowingAlways == Spec => []Following
<1>1. IInv /\ Following /\ [Next]_vars => Following'
  <2> SUFFICES ASSUME IInv, Following, [Next]_vars
               PROVE  Following'
    OBVIOUS
  <2>1. CASE Iterate
    BY <2>1, RecordFollows, NothingFollows
  <2>2. CASE UNCHANGED vars
    BY <2>2 DEF vars, Following, InStep
  <2>3. QED
    BY <2>1, <2>2 DEF Next
<1>2. QED
  BY <1>1, InitFollowing, Invariance, PTL DEF Spec

(***************************************************************************)
(* Whatever bytes a file is made of, what is printed are its records, each *)
(* once and in their order; all of them before anything that stands behind *)
(* an overlong one.                                                        *)
(***************************************************************************)
THEOREM RecordsPrinted == Spec => []PrintsRecords
<1>1. IInv /\ Following => PrintsRecords
  <2> SUFFICES ASSUME IInv, Following
               PROVE  PrintsRecords
    OBVIOUS
  <2> DEFINE f == reader.src
  <2>1. f \in FileType
    BY DEF IInv, TypeOK, ReaderType
  <2>2. Records(f) \in Seq(Packets(f)) /\ Records(f) = PacketsAt(f, Chain(f))
    BY <2>1, RecordsType
  <2>3. CASE Readable(f)
    <3>1. CASE \E w \in Seq(Nat) : InStep(w)
      <4>1. PICK w \in Seq(Nat) : InStep(w)
        BY <3>1
      <4>2. printed = PacketsAt(f, w)
        BY <4>1 DEF InStep
      <4>3. CASE ~IsGood(reader.file)
        <5>1. printed = Records(f)
          BY <2>2, <4>1, <4>2, <4>3 DEF InStep
        <5>2. QED
          BY <2>2, <5>1, PrefixOfItself DEF PrintsRecords
      <4>4. CASE IsGood(reader.file)
        <5>1. Chain(f) = w \o ChainTable(f)[reader.file.pos]
          BY <4>1, <4>4 DEF InStep
        <5>2. reader.file.pos \in 0 .. Len(f.data)
          <6>1. /\ reader.file.data = f.data /\ reader.file.pos <= Len(f.data)
                /\ reader.file.pos \in Nat
            BY <2>3 DEF IInv, TypeOK, ReaderType, StreamType, Coherent, Readable
          <6>2. Len(f.data) \in Nat
            BY <2>1, LenProperties DEF FileType
          <6>3. QED
            BY <6>1, <6>2
        <5>3. ChainTable(f)[reader.file.pos] \in Seq(Nat)
          BY <2>1, <5>2, ChainTableType
        <5>4. IsPrefix(printed, Records(f))
          BY <2>2, <4>2, <5>1, <5>3, PacketsAtPrefix
        <5>5. QED
          BY <5>4 DEF PrintsRecords
      <4>5. QED
        BY <4>3, <4>4
    <3>2. CASE Overlong(f) /\ IsPrefix(Records(f), printed)
      BY <3>2 DEF PrintsRecords
    <3>3. QED
      BY <2>3, <3>1, <3>2 DEF Following
  <2>4. CASE ~Readable(f)
    <3>1. printed = <<>>
      BY <2>4 DEF Following
    <3>2. QED
      BY <2>2, <3>1, EmptyIsPrefix DEF PrintsRecords
  <2>5. QED
    BY <2>3, <2>4
<1>2. QED
  BY <1>1, Invariance, FollowingAlways, PTL

(***************************************************************************)
(* When eof() ends the loop, no record is left that was not printed.       *)
(***************************************************************************)
THEOREM AllPrinted == Spec => []PrintsAll
<1>1. IInv /\ Following => PrintsAll
  <2> SUFFICES ASSUME IInv, Following, ~UntilEof
               PROVE  IsPrefix(Records(reader.src), printed)
    BY DEF PrintsAll
  <2> DEFINE f == reader.src
  <2>1. f \in FileType /\ ~IsGood(reader.file)
    BY DEF IInv, TypeOK, ReaderType, UntilEof, IsEof, IsGood
  <2>2. Records(f) \in Seq(Packets(f)) /\ Records(f) = PacketsAt(f, Chain(f))
    BY <2>1, RecordsType
  <2>3. CASE Readable(f)
    <3>1. CASE \E w \in Seq(Nat) : InStep(w)
      <4>1. printed = Records(f)
        BY <2>1, <2>2, <3>1 DEF InStep
      <4>2. QED
        BY <2>2, <4>1, PrefixOfItself
    <3>2. QED
      BY <2>3, <3>1 DEF Following
  <2>4. CASE ~Readable(f)
    <3>1. printed = Records(f)
      BY <2>1, <2>4, NoRecords DEF Following
    <3>2. QED
      BY <2>2, <3>1, PrefixOfItself
  <2>5. QED
    BY <2>3, <2>4
<1>2. QED
  BY <1>1, Invariance, FollowingAlways, PTL
(***************************************************************************)
(* What LoopEnds rests on besides fairness.  Every iteration brings the    *)
(* reader on in its file, which is finite, or finds the end of it, unless  *)
(* a decoder has thrown: the loop over eof() does not turn on the spot.    *)
(***************************************************************************)
EndingKnown ==
  /\ reader.file.ending \in {"eof", reader.src.ending}
  /\ EndsKnown(reader.file)

IterationAdvances ==
  \/ IsEof(reader.file)'
  \/ reader.src.ending = "throw" /\ ~IsGood(reader.file)'
  \/ reader.file.pos' \in reader.file.pos + 1 .. Len(reader.src.data)

LEMMA InitEndingKnown == Init => EndingKnown
<1> SUFFICES ASSUME Init
             PROVE  EndingKnown
  OBVIOUS
<1>1. PICK f \in FileType : reader = NewReader(f)
  BY LoopAssumption DEF Init
<1>2. reader.src = f /\ IsGood(reader.file)
  BY <1>1, NewReaderType
<1>3. reader.file.ending \in {"eof", f.ending}
  BY <1>1 DEF NewReader, Open, Unopened, Stream
<1>4. QED
  BY <1>2, <1>3 DEF EndingKnown, EndsKnown

LEMMA IterateAdvances ==
  IInv /\ EndingKnown /\ Iterate => EndingKnown' /\ IterationAdvances
<1> SUFFICES ASSUME IInv, EndingKnown, Iterate
             PROVE  EndingKnown' /\ IterationAdvances
  OBVIOUS
<1> DEFINE f == reader.src
           p == reader.file.pos
           after == ReadPacket(reader).reader
<1>1. reader \in ReaderType /\ Coherent(reader) /\ reader' = after
  BY DEF IInv, TypeOK, Iterate
<1>2. after.src = f /\ after \in ReaderType /\ Coherent(after)
  BY <1>1, ReadPacketNext, ReadPacketNone
<1>3. /\ IsGood(after.file) => after.file.pos > p
      /\ after.file.ending = reader.file.ending
      /\ EndsKnown(after.file)
  BY <1>1, ReadPacketAdvances DEF EndingKnown
<1> HIDE DEF after
<1>4. EndingKnown'
  BY <1>1, <1>2, <1>3 DEF EndingKnown
<1>5. CASE IsGood(after.file)
  <2>1. /\ after.file.pos \in Nat /\ p \in Nat /\ after.file.pos > p
        /\ after.file.pos <= Len(after.file.data) /\ f.data \in Seq(Word)
        /\ after.file.data \in {f.data, <<>>}
    BY <1>1, <1>2, <1>3, <1>5 DEF ReaderType, StreamType, FileType, Coherent
  <2>2. Len(f.data) \in Nat /\ Len(<<>>) = 0
    BY <2>1, LenProperties, EmptySeq
  <2>3. after.file.pos \in p + 1 .. Len(f.data)
    <3>1. CASE after.file.data = f.data
      BY <2>1, <2>2, <3>1
    <3>2. CASE after.file.data = <<>>
      <4>1. after.file.pos <= 0
        BY <2>1, <2>2, <3>2
      <4>2. QED
        BY <2>1, <4>1
    <3>3. QED
      BY <2>1, <3>1, <3>2
  <2>4. QED
    BY <1>1, <1>4, <2>3 DEF IterationAdvances
<1>6. CASE ~IsGood(after.file)
  <2>1. after.file.eof \/ f.ending = "throw"
    BY <1>3, <1>6 DEF EndsKnown, EndingKnown
  <2>2. QED
    BY <1>1, <1>4, <1>6, <2>1 DEF IterationAdvances, IsEof
<1>7. QED
  BY <1>5, <1>6

(* The loop over eof() never turns on the spot, but where it was thrown at. *)
THEOREM EveryIterationAdvances == Spec => [][IterationAdvances]_vars
<1>1. Spec => []EndingKnown
  <2>1. IInv /\ EndingKnown /\ [Next]_vars => EndingKnown'
    <3>1. EndingKnown /\ UNCHANGED vars => EndingKnown'
      BY DEF vars, EndingKnown
    <3>2. QED
      BY <3>1, IterateAdvances DEF Next
  <2>2. QED
    BY <2>1, InitEndingKnown, Invariance, PTL DEF Spec
<1>2. IInv /\ EndingKnown /\ [Next]_vars => [IterationAdvances]_vars
  BY IterateAdvances DEF Next
<1>3. QED
  BY <1>1, <1>2, Invariance, PTL DEF Spec
=============================================================================
