------------------------------ MODULE Receiver ------------------------------
(***************************************************************************)
(* A stream received into a netbox::StaticBuffer and parsed through a      *)
(* netbox::ConsumingBuffer: prepare() gives recv() the free end of the     *)
(* storage, commit() adds what arrived, the parser takes whole records off *)
(* a view of data(), consume() moves what it left to the front.            *)
(*                                                                         *)
(* The program is any that keeps the contract of the two classes: it       *)
(* commits what recv() returned, into the region it just prepared, and     *)
(* consumes what its view took.                                            *)
(*                                                                         *)
(* The bytes are numbered as they are sent, over all connections, so that  *)
(* a lost, repeated, displaced or left-over byte shows.                    *)
(***************************************************************************)
EXTENDS Results, Sequences

CONSTANTS
  Capacity,     (* of the storage                                          *)
  RecordSize,   (* bytes the parser waits for                              *)
  MaxBytes      (* bound: bytes sent over all connections                  *)

ASSUME ReceiverAssumption ==
  /\ Capacity \in Nat /\ Capacity < Word
  /\ RecordSize \in 1 .. Capacity
  /\ MaxBytes \in Nat

VARIABLES
  peer,         (* what the other end did: it still sends, or shut, or reset *)
  sent,         (* the last byte sent                                      *)
  first,        (* the last byte before this connection                    *)
  arrived,      (* the last byte recv() copied                             *)
  data_, size_, (* StaticBuffer: the storage, and how much is committed    *)
  pc,           (* where the program is                                    *)
  region,       (* the MutableBuffer that prepare() returned               *)
  result,       (* the TransmitResult of recv()                            *)
  view,         (* the ConsumingBuffer of the parser                       *)
  handled       (* history: the bytes parsed on this connection            *)

network == <<peer, sent, first>>
buffer == <<data_, size_>>
vars == <<network, arrived, buffer, pc, region, result, view, handled>>

Steps == {"idle", "prepared", "received", "parsing", "closed", "failed"}
Slice == [at : 0 .. Capacity, size : 0 .. Capacity]

TypeOK ==
  /\ peer \in {"open", "shut", "reset"}
  /\ sent \in 0 .. MaxBytes
  /\ first \in 0 .. sent
  /\ arrived \in first .. sent
  /\ data_ \in [0 .. Capacity - 1 -> 0 .. MaxBytes]
  /\ size_ \in 0 .. Capacity
  /\ pc \in Steps
  /\ region \in Slice
  /\ result \in [value : -1 .. Capacity, code : Errno]
  /\ view \in Slice
  /\ handled \in Seq(0 .. MaxBytes)

Nothing == [at |-> 0, size |-> 0]

(* The storage is not initialised: 0 is no byte of any connection.         *)
Init ==
  /\ peer = "open"
  /\ sent = 0
  /\ first = 0
  /\ arrived = 0
  /\ data_ = [i \in 0 .. Capacity - 1 |-> 0]
  /\ size_ = 0
  /\ pc = "idle"
  /\ region = Nothing
  /\ result = TransmitResult(-1, NoError)
  /\ view = Nothing
  /\ handled = <<>>

-----------------------------------------------------------------------------
(* The other end.                                                          *)
PeerSends ==
  /\ peer = "open"
  /\ sent < MaxBytes
  /\ sent' = sent + 1
  /\ UNCHANGED <<peer, first, arrived, buffer, pc, region, result, view, handled>>

PeerLeaves ==
  /\ peer = "open"
  /\ peer' \in {"shut", "reset"}
  /\ UNCHANGED <<sent, first, arrived, buffer, pc, region, result, view, handled>>

-----------------------------------------------------------------------------
(* prepare(), and prepare(size), which throws if there is less room and    *)
(* changes nothing then.                                                   *)
Prepare(size) ==
  /\ pc = "idle"
  /\ region' = [at |-> size_, size |-> size]
  /\ pc' = "prepared"
  /\ UNCHANGED <<network, arrived, buffer, result, view, handled>>

PrepareAll == Prepare(Capacity - size_)

PrepareSize == \E size \in 1 .. Capacity : ~(Capacity - size_ < size) /\ Prepare(size)

-----------------------------------------------------------------------------
(* recv(socket, region) on a non-blocking socket.                          *)
Returns(value, errno) ==
  /\ pc = "prepared"
  /\ result' = TransmitResult(value, errno)
  /\ pc' = "received"
  /\ UNCHANGED <<network, size_, region, view, handled>>

RecvBytes ==
  \E n \in 1 .. region.size :
    /\ arrived + n <= sent
    /\ arrived' = arrived + n
    /\ data_' = [i \in 0 .. Capacity - 1 |->
                   IF i \in region.at .. region.at + n - 1
                   THEN arrived + 1 + i - region.at ELSE data_[i]]
    /\ Returns(n, NoError)

(* The end of the stream; and a region of no bytes gets none.              *)
RecvNothing ==
  /\ region.size = 0 \/ (arrived = sent /\ peer = "shut")
  /\ Returns(0, NoError)
  /\ UNCHANGED <<arrived, data_>>

RecvFails ==
  /\ \/ arrived = sent /\ peer = "open" /\ Returns(-1, "EAGAIN")
     \/ peer = "reset" /\ Returns(-1, "ECONNRESET")
  /\ UNCHANGED <<arrived, data_>>

-----------------------------------------------------------------------------
CommittedOver(size) == size

Committed(size) == size_ + size

(* "if (result)": commit() what arrived and look at all there is.          *)
Commit ==
  /\ pc = "received"
  /\ Succeeded(result)
  /\ size_' = Committed(Bytes(result))
  /\ view' = [at |-> 0, size |-> Committed(Bytes(result))]
  /\ pc' = "parsing"
  /\ UNCHANGED <<network, arrived, data_, region, result, handled>>

Complain ==
  /\ pc = "received"
  /\ ~Succeeded(result)
  /\ pc' = IF IsTryAgain(result.code) THEN "idle"
           ELSE IF IsClosed(result) THEN "closed" ELSE "failed"
  /\ UNCHANGED <<network, arrived, buffer, region, result, view, handled>>

-----------------------------------------------------------------------------
(* ConsumingBuffer: consume(size) steps over the bytes that were looked at. *)
Incomplete == view.size < RecordSize

ParseRecord ==
  /\ pc = "parsing"
  /\ ~Incomplete
  /\ handled' = handled \o [i \in 1 .. RecordSize |-> data_[view.at + i - 1]]
  /\ view' = [at |-> view.at + RecordSize, size |-> view.size - RecordSize]
  /\ UNCHANGED <<network, arrived, buffer, pc, region, result>>

MovedNot(size) == data_

MovedOneShort(size) ==
  [i \in 0 .. Capacity - 1 |-> IF i < size_ - size - 1 THEN data_[i + size] ELSE data_[i]]

(* StaticBuffer::consume(size): memmove() of the rest to the front.        *)
Moved(size) ==
  [i \in 0 .. Capacity - 1 |-> IF i < size_ - size THEN data_[i + size] ELSE data_[i]]

Consume(size) ==
  /\ data_' = IF size_ = size THEN data_ ELSE Moved(size)
  /\ size_' = size_ - size

FinishParsing ==
  /\ pc = "parsing"
  /\ Incomplete
  /\ Consume(size_ - view.size)
  /\ pc' = "idle"
  /\ UNCHANGED <<network, arrived, region, result, view, handled>>

-----------------------------------------------------------------------------
ResetKeepingSize ==
  /\ pc \in {"closed", "failed"}
  /\ peer' = "open"
  /\ first' = sent
  /\ arrived' = sent
  /\ handled' = <<>>
  /\ pc' = "idle"
  /\ UNCHANGED <<sent, buffer, region, result, view>>

(* A new connection with the same storage: reset(data, size).              *)
Reset ==
  /\ pc \in {"closed", "failed"}
  /\ size_' = 0
  /\ peer' = "open"
  /\ first' = sent
  /\ arrived' = sent
  /\ handled' = <<>>
  /\ pc' = "idle"
  /\ UNCHANGED <<sent, data_, region, result, view>>

-----------------------------------------------------------------------------
Program ==
  \/ PrepareAll \/ PrepareSize
  \/ RecvBytes \/ RecvNothing \/ RecvFails
  \/ Commit \/ Complain
  \/ ParseRecord \/ FinishParsing

Next == PeerSends \/ PeerLeaves \/ Program \/ Reset

Spec == Init /\ [][Next]_vars

FairSpec == Spec /\ WF_vars(Program)
-----------------------------------------------------------------------------
(* The byte behind those of the view, and behind those of the buffer.      *)
Parsed == first + Len(handled)

(***************************************************************************)
(* What was parsed are the bytes of this connection, in order, without a   *)
(* gap: memmove() displaces none, the next region lies right behind them,  *)
(* and the storage keeps none of an earlier connection.                    *)
(***************************************************************************)
HandledInOrder == \A i \in 1 .. Len(handled) : handled[i] = first + i

(***************************************************************************)
(* A byte that arrived is parsed, or it is committed, or the program holds *)
(* the result that commits it: none is lost on the way.                    *)
(***************************************************************************)
Unconsumed == IF pc = "parsing" THEN view.size ELSE size_

NoByteLost ==
  arrived = Parsed + Unconsumed
              + (IF pc = "received" /\ Succeeded(result) THEN Bytes(result) ELSE 0)

(***************************************************************************)
(* isClosed() can be believed: "could be true if recv into buffer of size  *)
(* 0" (result.h:67), and a program that parses what it can has always room *)
(* for a byte more.  Once it takes the connection for closed every whole   *)
(* record was parsed.                                                      *)
(***************************************************************************)
ClosedMeansClosed ==
  pc = "closed" => /\ peer = "shut"
                   /\ sent - Parsed < RecordSize

(***************************************************************************)
(* The inductive invariant: the contents of the storage.                   *)
(***************************************************************************)
Contents ==
  \A i \in 0 .. Unconsumed - 1 :
    data_[(IF pc = "parsing" THEN view.at ELSE 0) + i] = Parsed + i + 1

RegionIsTheEnd ==
  pc \in {"prepared", "received"} =>
    /\ region.at = size_
    /\ region.size \in 1 .. Capacity - size_

ResultIsIn ==
  pc = "received" =>
    /\ result.value <= region.size
    /\ IsClosed(result) => peer = "shut" /\ arrived = sent
    /\ Succeeded(result) =>
         \A i \in 0 .. result.value - 1 : data_[size_ + i] = Parsed + size_ + i + 1

ViewIsTheRest == pc = "parsing" => view.at + view.size = size_

RoomLeft == pc # "parsing" => size_ < RecordSize

ClosedAtTheEnd == pc = "closed" => peer = "shut" /\ arrived = sent

IInv ==
  /\ TypeOK
  /\ HandledInOrder
  /\ NoByteLost
  /\ Contents
  /\ RegionIsTheEnd
  /\ ResultIsIn
  /\ ViewIsTheRest
  /\ RoomLeft
  /\ ClosedAtTheEnd

(***************************************************************************)
(* What was sent and what was parsed are a channel of bytes.               *)
(***************************************************************************)
Written == [i \in 1 .. sent - first |-> first + i]

Channel == INSTANCE ByteChannel WITH
  Byte <- 1 .. MaxBytes,
  written <- Written,
  read <- handled

ChannelSpec == Channel!Spec

(***************************************************************************)
(* A whole record that was sent is parsed, unless the connection fails.    *)
(***************************************************************************)
RecordsArrive ==
  \A n \in 0 .. MaxBytes :
    (Len(handled) = n /\ sent - Parsed >= RecordSize)
      ~> (Len(handled) # n \/ pc = "failed")
=============================================================================
