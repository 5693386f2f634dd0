-------------------------- MODULE PcapPacketSource --------------------------
(***************************************************************************)
(* PcapPacketSource: merges the packets of any number of capture files in  *)
(* the order of their time stamps.  Each reader has at most one packet     *)
(* waiting in queue_, a multimap from time stamp to packet and reader; the *)
(* reader of the packet handed out last is put back by the next call.      *)
(*                                                                         *)
(* The user may call the source in any order, also from within the done    *)
(* callback, which readNextPacket() invokes while it is still running.     *)
(***************************************************************************)
EXTENDS PcapReader, SequencesExt

CONSTANTS
  Contents,     (* what the paths given to addFile lead to                 *)
  MaxReaders,   (* bound: files that are added                             *)
  MaxDepth      (* bound: done callbacks running inside one another        *)

ASSUME SourceAssumption ==
  /\ Contents \subseteq FileType
  /\ MaxReaders \in Nat
  /\ MaxDepth \in Nat

VARIABLES
  storage_,       (* the readers; an index stands for a pcap::Reader* *)
  queue_,         (* the multimap's entries in iteration order        *)
  current_,       (* reader 0 is nullptr                              *)
  doneCallback_,  (* is a callback installed?                         *)
  depth,          (* done callbacks on the stack                      *)
  since,          (* history: packets delivered when a file was added *)
  cursor,         (* history: end of the last packet of each file     *)
  delivered       (* history: the packets handed out                  *)

vars ==
  <<storage_, queue_, current_, doneCallback_, depth, since, cursor, delivered>>

Context == [packet : PacketType, reader : Nat]
Entry == [key : Nat, packet : PacketType, reader : Nat \ {0}]
Delivery == [reader : Nat \ {0}, off : Nat, key : Nat]

TypeOK ==
  /\ storage_ \in Seq(ReaderType)
  /\ queue_ \in Seq(Entry)
  /\ current_ \in Context
  /\ current_.reader \in 0 .. Len(storage_)
  /\ \A i \in 1 .. Len(queue_) : queue_[i].reader \in 1 .. Len(storage_)
  /\ doneCallback_ \in BOOLEAN
  /\ depth \in 0 .. MaxDepth
  /\ since \in Seq(Nat) /\ Len(since) = Len(storage_)
  /\ cursor \in Seq(Nat) /\ Len(cursor) = Len(storage_)
  /\ delivered \in Seq(Delivery)

Init ==
  /\ storage_ = <<>>
  /\ queue_ = <<>>
  /\ current_ = [packet |-> NoPacket, reader |-> 0]
  /\ doneCallback_ = FALSE
  /\ depth = 0
  /\ since = <<>>
  /\ cursor = <<>>
  /\ delivered = <<>>

-----------------------------------------------------------------------------
MakeUnixTimeNs(packet) == packet.sec * NsPerSec + packet.nsec

(* Where multimap::emplace puts a key: behind the keys that are not larger. *)
UpperBound(queue, key) ==
  CHOOSE n \in 0 .. Len(queue) :
    /\ \A i \in 1 .. n : queue[i].key <= key
    /\ \A i \in n + 1 .. Len(queue) : queue[i].key > key

EmplaceAtEnd(queue, entry) == Append(queue, entry)

EmplaceAtLowerBound(queue, entry) ==
  InsertAt(queue, Cardinality({i \in DOMAIN queue : queue[i].key < entry.key}) + 1,
           entry)

Emplace(queue, entry) == InsertAt(queue, UpperBound(queue, entry.key) + 1, entry)

(* Without the test of the packet, the empty packet of a drained reader is *)
(* queued as well.                                                         *)
ReturnToQueueUnchecked(storage, queue, i) ==
  LET read == ReadPacket(storage[i]) IN
  [ storage |-> [storage EXCEPT ![i] = read.reader],
    queue   |-> Emplace(queue, [ key    |-> MakeUnixTimeNs(read.packet),
                                 packet |-> read.packet,
                                 reader |-> i ]) ]

(***************************************************************************)
(* returnToQueue(reader): the reader's next packet joins the queue; a      *)
(* reader without one is in no queue any more.                             *)
(***************************************************************************)
ReturnToQueue(storage, queue, i) ==
  LET read == ReadPacket(storage[i]) IN
  [ storage |-> [storage EXCEPT ![i] = read.reader],
    queue   |-> IF read.packet.isNull THEN queue
                ELSE Emplace(queue, [ key    |-> MakeUnixTimeNs(read.packet),
                                      packet |-> read.packet,
                                      reader |-> i ]) ]

(***************************************************************************)
(* addFile(filename).  The constructor of the reader may throw: then the   *)
(* call has no effect.  A reader that is not valid would be dropped.       *)
(***************************************************************************)
AddFile(f) ==
  /\ Len(storage_) < MaxReaders
  /\ ~OpenThrows(f)
  /\ ReaderOk(NewReader(f))
  /\ LET i     == Len(storage_) + 1
         added == ReturnToQueue(Append(storage_, NewReader(f)), queue_, i)
     IN /\ storage_' = added.storage
        /\ queue_' = added.queue
  /\ since' = Append(since, Len(delivered))
  /\ cursor' = Append(cursor, 0)
  /\ UNCHANGED <<current_, doneCallback_, depth, delivered>>

-----------------------------------------------------------------------------
(* readNextPacket() begins by putting back the reader it handed out last.  *)
PutBackNothing == [storage |-> storage_, queue |-> queue_]

PutBack ==
  IF current_.reader = 0 THEN [storage |-> storage_, queue |-> queue_]
  ELSE ReturnToQueue(storage_, queue_, current_.reader)

(* A packet is there: its entry moves from the queue to current_.  "put"   *)
(* is PutBack, bound by a quantifier for TLC to evaluate it only once.     *)
Deliver(put, remaining) ==
  LET front == Head(put.queue) IN
  /\ storage_' = put.storage
  /\ queue_' = remaining
  /\ current_' = [packet |-> front.packet, reader |-> front.reader]
  /\ cursor' = [cursor EXCEPT ![front.reader] =
                  front.packet.off + front.packet.caplen]
  /\ delivered' = Append(delivered, [ reader |-> front.reader,
                                      off    |-> front.packet.off,
                                      key    |-> front.key ])
  /\ UNCHANGED <<doneCallback_, depth, since>>

ReadAvailableNoErase ==
  /\ depth < MaxDepth
  /\ \E put \in {PutBack} : put.queue # <<>> /\ Deliver(put, put.queue)

ReadAvailable ==
  /\ depth < MaxDepth
  /\ \E put \in {PutBack} : put.queue # <<>> /\ Deliver(put, Tail(put.queue))

(* None is there: the callback, if installed, starts to run; the empty     *)
(* packet is returned when it ends.                                        *)
Exhausted(put) ==
  /\ put.queue = <<>>
  /\ storage_' = put.storage
  /\ depth' = IF doneCallback_ THEN depth + 1 ELSE depth
  /\ UNCHANGED <<queue_, doneCallback_, since, cursor, delivered>>

ReadExhaustedNoReset ==
  /\ depth < MaxDepth
  /\ \E put \in {PutBack} : Exhausted(put)
  /\ UNCHANGED current_

ReadExhausted ==
  /\ depth < MaxDepth
  /\ \E put \in {PutBack} : Exhausted(put)
  /\ current_' = [current_ EXCEPT !.reader = 0]

ReadNextPacket == ReadAvailable \/ ReadExhausted

(* The done callback ends, and with it the call that invoked it.           *)
CallbackReturns ==
  /\ depth > 0
  /\ depth' = depth - 1
  /\ UNCHANGED <<storage_, queue_, current_, doneCallback_, since, cursor, delivered>>

(* setDoneCallback(callback), which may be empty.  Assigning the function  *)
(* that is being executed is undefined, so no user does it.                *)
SetDoneCallback(installed) ==
  /\ depth = 0
  /\ doneCallback_' = installed
  /\ UNCHANGED <<storage_, queue_, current_, depth, since, cursor, delivered>>

IsDoneIgnoringCurrent == queue_ = <<>>

IsDone == queue_ = <<>> /\ current_.reader = 0

Next ==
  \/ \E f \in Contents : AddFile(f)
  \/ ReadNextPacket
  \/ CallbackReturns
  \/ \E installed \in BOOLEAN : SetDoneCallback(installed)

Spec == Init /\ [][Next]_vars

(***************************************************************************)
(* The user's loop of examples/packet_source.cpp, while (!isDone())        *)
(* readNextPacket(), keeps running, and callbacks end.                     *)
(***************************************************************************)
Loop == ~IsDone /\ depth = 0 /\ ReadNextPacket

Fairness == WF_vars(Loop) /\ WF_vars(CallbackReturns)

FairSpec == Spec /\ Fairness

-----------------------------------------------------------------------------
HasNext(i) == HasRecord(storage_[i].src, cursor[i])

(***************************************************************************)
(* Every reader has at most one packet in the queue or in the user's hands *)
(* (returnToQueue is called once for every packet that left the queue): the *)
(* reader's only buffer can hold no more.                                  *)
(***************************************************************************)
OneOutstanding ==
  /\ \A i, j \in DOMAIN queue_ :
       i # j => queue_[i].reader # queue_[j].reader
  /\ \A i \in DOMAIN queue_ : queue_[i].reader # current_.reader

(***************************************************************************)
(* "The returned packet will be available until next call                  *)
(* readNextPacket()": whatever is added or called in between, the buffer   *)
(* the packet points into still holds the bytes of its record, and so it   *)
(* does for the packets that wait in the queue.                            *)
(***************************************************************************)
Intact(packet, reader) ==
  /\ packet.caplen <= Len(reader.buffer)
  /\ SubSeq(reader.buffer, 1, packet.caplen)
       = SubSeq(reader.src.data, packet.off + 1, packet.off + packet.caplen)

BuffersIntact ==
  /\ \A i \in DOMAIN queue_ :
       Intact(queue_[i].packet, storage_[queue_[i].reader])
  /\ current_.reader # 0 =>
       Intact(current_.packet, storage_[current_.reader])

(***************************************************************************)
(* "Return true if no more data available": when isDone() says so, every   *)
(* record that can be read from any file added so far was handed out.      *)
(***************************************************************************)
DoneMeansDrained ==
  IsDone => \A i \in DOMAIN storage_ : ~HasNext(i)

(***************************************************************************)
(* Packets come out in the order of their time stamps.  A later packet j   *)
(* is older than an earlier packet i only if its file was added after i    *)
(* was handed out, or is itself out of order behind i.                     *)
(***************************************************************************)
SortedOutput ==
  \A i, j \in DOMAIN delivered :
    i < j /\ delivered[j].key < delivered[i].key =>
      \/ since[delivered[j].reader] >= i
      \/ \E k \in i .. j - 1 :
           /\ delivered[k].reader = delivered[j].reader
           /\ delivered[k].key > delivered[j].key

(***************************************************************************)
(* Files with equal time stamps take turns: while a file that was there    *)
(* waits with a packet of the same time stamp, no other one is served      *)
(* twice (multimap::emplace puts a key behind its equals).                 *)
(***************************************************************************)
TiesTakeTurns ==
  \A i, j \in DOMAIN delivered :
    /\ i < j
    /\ delivered[i].reader = delivered[j].reader
    /\ delivered[i].key = delivered[j].key
    => \A waiting \in DOMAIN storage_ :
         /\ since[waiting] < i
         /\ HasNext(waiting)
         /\ TimeOf(storage_[waiting].src, cursor[waiting]) = delivered[i].key
         => \E k \in i + 1 .. Len(delivered) : delivered[k].reader = waiting

(***************************************************************************)
(* The loop over isDone() and readNextPacket() comes to its end, whatever  *)
(* the files contain.                                                      *)
(***************************************************************************)
LoopEnds == ~IsDone ~> IsDone

-----------------------------------------------------------------------------
(***************************************************************************)
(* The inductive invariant: the queue is sorted; a file has a record left  *)
(* only if its reader is in the queue or handed out; a queued packet is    *)
(* the next record of its file, its reader stands right behind it and the  *)
(* buffer holds it; the reader handed out stands behind the packet.        *)
(***************************************************************************)
Sorted(queue) == \A i, j \in DOMAIN queue : i < j => queue[i].key <= queue[j].key

ReadersCoherent == \A i \in DOMAIN storage_ : Coherent(storage_[i])

IsNextOf(entry, reader, position) ==
  /\ HasRecord(reader.src, position)
  /\ IsGood(reader.file)
  /\ reader.file.pos = NextRecord(reader.src, position)
  /\ entry.key = TimeOf(reader.src, position)
  /\ entry.packet.off = position + HeaderWords
  /\ entry.packet.caplen = reader.src.data[position + 3]
  /\ Intact(entry.packet, reader)

QueueHoldsNext ==
  \A i \in DOMAIN queue_ :
    IsNextOf(queue_[i], storage_[queue_[i].reader], cursor[queue_[i].reader])

CurrentIsLast ==
  current_.reader # 0 =>
    /\ IsGood(storage_[current_.reader].file)
    /\ storage_[current_.reader].file.pos = cursor[current_.reader]
    /\ Intact(current_.packet, storage_[current_.reader])

IdleAreDrained ==
  \A i \in DOMAIN storage_ :
    HasNext(i) => \/ current_.reader = i
                  \/ \E j \in DOMAIN queue_ : queue_[j].reader = i

IInv ==
  /\ TypeOK
  /\ OneOutstanding
  /\ Sorted(queue_)
  /\ ReadersCoherent
  /\ QueueHoldsNext
  /\ CurrentIsLast
  /\ IdleAreDrained

(***************************************************************************)
(* The source implements a merge of the files' records: each record once,  *)
(* in file order, the earliest first, and the end only when none is left.  *)
(***************************************************************************)
Merge == INSTANCE PacketMerge WITH
  files   <- [i \in DOMAIN storage_ |-> storage_[i].src],
  pos     <- cursor,
  emitted <- [d \in DOMAIN delivered |->
                [file |-> delivered[d].reader, key |-> delivered[d].key]],
  ended   <- IsDone

MergeSpec == Merge!Spec

(***************************************************************************)
(* "Return true if file valid" (Reader.h:44), the test addFile relies on   *)
(* to drop a file it cannot read.                                          *)
(***************************************************************************)
OnlyValidFilesAdded ==
  \A i \in DOMAIN storage_ : HeaderAccepted(storage_[i].src)
=============================================================================
