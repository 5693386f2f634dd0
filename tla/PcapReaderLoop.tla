--------------------------- MODULE PcapReaderLoop ---------------------------
(***************************************************************************)
(* examples/pcap_reader.cpp: one file, read with a pcap::Reader until its  *)
(* eof() is true; packets that test true are printed, header by header.    *)
(***************************************************************************)
EXTENDS PcapReader, Layers, SequencesExt

CONSTANT Contents     (* what the path leads to *)

ASSUME LoopAssumption == Contents \subseteq FileType

VARIABLES
  reader,
  printed,    (* history: the packets printed               *)
  headers     (* history: what was read of the last of them *)

vars == <<reader, printed, headers>>

TypeOK ==
  /\ reader \in ReaderType
  /\ HeaderAccepted(reader.src) => Len(reader.buffer) = reader.src.header.snaplen
  /\ printed \in Seq(PacketType)
  /\ headers \subseteq LayerType

(* A constructor that throws, or a reader that tests false, ends main().   *)
Init ==
  /\ \E f \in Contents :
       /\ ~OpenThrows(f)
       /\ ReaderOk(NewReader(f))
       /\ reader = NewReader(f)
  /\ printed = <<>>
  /\ headers = {}

(* One iteration of while (!reader.eof()).                                 *)
UntilEof == ~IsEof(reader.file)

Iterate ==
  /\ UntilEof
  /\ LET read == ReadPacket(reader) IN
     /\ reader' = read.reader
     /\ IF read.packet.isNull THEN UNCHANGED <<printed, headers>>
        ELSE /\ printed' = Append(printed, read.packet)
             /\ \E past \in Word :
                  headers' = PrintPacket([buffer |-> reader'.buffer, past |-> past],
                                         Last(printed').caplen)

Next == Iterate

Spec == Init /\ [][Next]_vars

(* The program keeps running.                                              *)
FairSpec == Spec /\ WF_vars(Iterate)

-----------------------------------------------------------------------------
(* Where the records of a file begin, one behind the other.                *)
Chain(f) ==
  LET from[p \in 0 .. Len(f.data)] ==
        IF HasRecord(f, p) THEN <<p>> \o from[NextRecord(f, p)] ELSE <<>>
  IN from[0]

PacketAt(f, p) ==
  [ sec    |-> f.data[p + 1],
    nsec   |-> NsecOf(f, p),
    caplen |-> f.data[p + 3],
    isNull |-> FALSE,
    off    |-> p + HeaderWords ]

Records(f) == [i \in DOMAIN Chain(f) |-> PacketAt(f, Chain(f)[i])]

(* Behind the last record: a header, with a length no buffer is made for.  *)
Overlong(f) ==
  LET starts == Chain(f)
      p == IF starts = <<>> THEN 0 ELSE NextRecord(f, Last(starts))
  IN /\ p + HeaderWords <= Len(f.data)
     /\ f.data[p + 3] > f.header.snaplen

(***************************************************************************)
(* What is printed are the records of the file, each once, in their order, *)
(* for a file of any bytes: payload bytes are never taken for a header.    *)
(* (An overlong record is not skipped: what lies behind it is not in step  *)
(* with the records any more.)                                             *)
(***************************************************************************)
PrintsRecords ==
  \/ IsPrefix(printed, Records(reader.src))
  \/ Overlong(reader.src) /\ IsPrefix(Records(reader.src), printed)

(***************************************************************************)
(* The headers that are printed for a packet are those in its own bytes,   *)
(* and not in what the buffer holds behind them of an earlier packet.  The *)
(* one frame it is not true of is the one that ends inside its tag: the    *)
(* size of what is left wraps, and the checks of all views pass.  With     *)
(* IPv4 options the ports are options, but still bytes of the packet.      *)
(***************************************************************************)
PrintsItsHeaders ==
  printed # <<>> =>
    LET p == Last(printed)
        frame == SubSeq(reader.src.data, p.off + 1, p.off + p.caplen)
    IN \/ TagCutShort(frame)
       \/ headers = HeadersOf(frame)
       \/ OptionsForPorts(headers, frame)

(* The loop has not ended before every record was printed.                 *)
PrintsAll == ~UntilEof => IsPrefix(Records(reader.src), printed)

(* eof() becomes true one day, unless the decoder throws.                  *)
LoopEnds == reader.src.ending = "eof" ~> IsEof(reader.file)
=============================================================================
