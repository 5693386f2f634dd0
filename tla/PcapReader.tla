----------------------------- MODULE PcapReader -----------------------------
(***************************************************************************)
(* pcap::Reader: one capture file, its resolution, and the one buffer that *)
(* every packet it returns points into.                                    *)
(***************************************************************************)
EXTENDS FileReader

CONSTANTS
  UsecScale,    (* nanoseconds of a microsecond: 1000                      *)
  NsPerSec,     (* nanoseconds of a second: 1000000000                     *)
  MaxSnapLen    (* largest snapshot length accepted: 65535                 *)

(* The nanoseconds of a second fit a word: 10^9 < 2^32.                    *)
ASSUME ReaderAssumption ==
  /\ UsecScale \in Nat \ {0}
  /\ NsPerSec \in 1 .. Word32
  /\ MaxSnapLen \in Nat

(* Words of a PacketHeader: ts_sec, ts_usec and caplen.  The fourth, the   *)
(* length on the wire, is only ever copied and is left out.                *)
HeaderWords == 3

(***************************************************************************)
(* A packet as its user sees it.  "isNull" is data_ == nullptr, the test   *)
(* of operator bool; "off" is no field of the code: it is where in the     *)
(* file the payload came from, for the properties to compare the buffer    *)
(* with.                                                                   *)
(***************************************************************************)
PacketType ==
  [sec : Word, nsec : Word, caplen : Word, isNull : BOOLEAN, off : Nat]

NoPacket == [sec |-> 0, nsec |-> 0, caplen |-> 0, isNull |-> TRUE, off |-> 0]

(* A reader; "src" is the file it was made from and no field of the code.  *)
ReaderType ==
  [ src : FileType, file : StreamType, scale : {"Up", "PassThrough"},
    timezone : Int, buffer : Seq(Word) ]

Zeros(n) == [i \in 1 .. n |-> 0]

(***************************************************************************)
(* Reader(filename) with readFileHeader().  Whatever is wrong with the     *)
(* header, the stream is replaced by a default-constructed one; scale_ is  *)
(* set by then if the magic was known.                                     *)
(***************************************************************************)
HeaderRead(f) == f.exists /\ f.header.complete

HeaderAccepted(f) ==
  /\ HeaderRead(f)
  /\ f.header.magic \in {"usec", "nsec"}
  /\ f.header.snaplen <= MaxSnapLen
  /\ f.header.linktype = "ethernet"

NewReader(f) ==
  [ src      |-> f,
    file     |-> IF HeaderAccepted(f) THEN Open(f) ELSE Unopened,
    scale    |-> IF HeaderRead(f) /\ f.header.magic = "usec"
                 THEN "Up" ELSE "PassThrough",
    timezone |-> IF HeaderAccepted(f) THEN f.header.thiszone ELSE 0,
    buffer   |-> IF HeaderAccepted(f) THEN Zeros(f.header.snaplen) ELSE <<>> ]

ReaderOk(r) == IsOk(r.file)                           \* operator bool

(* The words of a read, copied over the start of the buffer.               *)
OverlayResizing(buffer, words) == words

Overlay(buffer, words) ==
  [i \in 1 .. Len(buffer) |-> IF i <= Len(words) THEN words[i] ELSE buffer[i]]

(* header.ts_usec *= 1000, in the 32 bits of the field.                    *)
Nanoseconds(r, frac) ==
  IF r.scale = "Up" THEN (frac * UsecScale) % Word32 ELSE frac

(* The length in a header does not fit the buffer; a payload is cut short. *)
NeverTooLong(r, caplen) == FALSE

TooLongAtLimit(r, caplen) == caplen >= Len(r.buffer)

TooLong(r, caplen) == caplen > Len(r.buffer)

NeverShort(count, caplen) == FALSE

Short(count, caplen) == count # caplen

(***************************************************************************)
(* readPacket(): the reader afterwards and the packet returned.            *)
(***************************************************************************)
ReadPacket(r) ==
  LET head   == Read(r.file, HeaderWords)
      caplen == head.words[3]
      body   == Read(head.stream, caplen)
      filled == [r EXCEPT !.file = body.stream,
                          !.buffer = Overlay(r.buffer, body.words)]
  IN
  IF head.count # HeaderWords \/ TooLong(r, caplen) THEN
    [reader |-> [r EXCEPT !.file = head.stream], packet |-> NoPacket]
  ELSE IF Short(body.count, caplen) THEN
    [reader |-> filled, packet |-> NoPacket]
  ELSE
    [reader |-> filled,
     packet |-> [ sec    |-> head.words[1],
                  nsec   |-> Nanoseconds(r, head.words[2]),
                  caplen |-> caplen,
                  isNull |-> r.buffer = <<>>,    \* data() of an empty vector
                  off    |-> r.file.pos + HeaderWords ]]

-----------------------------------------------------------------------------
(***************************************************************************)
(* What the capture format says, independently of how the reader goes      *)
(* about it: the record at position p of a file, whether it is whole, and  *)
(* where the next one begins.                                              *)
(***************************************************************************)
HasRecord(f, p) ==
  /\ HeaderAccepted(f)
  /\ f.header.snaplen > 0
  /\ p + HeaderWords <= Len(f.data)
  /\ f.data[p + 3] <= f.header.snaplen
  /\ p + HeaderWords + f.data[p + 3] <= Len(f.data)

NextRecord(f, p) == p + HeaderWords + f.data[p + 3]

(***************************************************************************)
(* The time of a record.  The format counts the fraction of its second at  *)
(* the file's resolution; a fraction of a second or more is corrupt and is *)
(* no time of the format: it is taken for what 32 bits keep of it.         *)
(***************************************************************************)
Fraction(f, p) ==
  IF f.header.magic = "usec" THEN f.data[p + 2] * UsecScale ELSE f.data[p + 2]

NsecOf(f, p) ==
  IF Fraction(f, p) < NsPerSec THEN Fraction(f, p) ELSE Fraction(f, p) % Word32

TimeOf(f, p) == f.data[p + 1] * NsPerSec + NsecOf(f, p)

(* How a reader that may have read something relates to its file.          *)
Coherent(r) ==
  /\ r.file.pos <= Len(r.file.data)
  /\ IF HeaderAccepted(r.src)
     THEN /\ r.file.data = r.src.data
          /\ Len(r.buffer) = r.src.header.snaplen
          /\ r.scale = IF r.src.header.magic = "usec" THEN "Up" ELSE "PassThrough"
     ELSE r.file.data = <<>>
=============================================================================
