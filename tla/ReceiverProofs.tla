--------------------------- MODULE ReceiverProofs ---------------------------
(***************************************************************************)
(* The inductive invariant of Receiver for storage, records and streams of *)
(* any size, and what follows from it.                                     *)
(***************************************************************************)
EXTENDS Receiver, SequenceTheorems, TLAPS

LEMMA SmallModulo == ASSUME NEW n \in 0 .. Word - 1 PROVE n % Word = n
  BY ResultsAssumption, Z3

(* bytes() of a call that transmitted some is their number.                *)
LEMMA BytesOfSuccess ==
  ASSUME TypeOK, Succeeded(result)
  PROVE  /\ result.value \in 1 .. Capacity
         /\ Bytes(result) = result.value
<1>1. result.value \in 1 .. Capacity
  BY ReceiverAssumption DEF TypeOK, Succeeded
<1>2. result.value \in 0 .. Word - 1
  BY <1>1, ReceiverAssumption, ResultsAssumption
<1>3. QED
  BY <1>1, <1>2, SmallModulo DEF Bytes

LEMMA InitEstablishesIInv == Init => IInv
<1> SUFFICES ASSUME Init PROVE IInv
  OBVIOUS
<1> USE ReceiverAssumption DEF Init
<1>1. result = [value |-> -1, code |-> NoError] /\ ~Succeeded(result)
  BY DEF TransmitResult, Succeeded
<1>2. TypeOK
  BY <1>1 DEF TypeOK, Steps, Slice, Nothing, Errno
<1>3. HandledInOrder /\ Parsed = 0
  BY DEF HandledInOrder, Parsed
<1>4. Unconsumed = 0
  BY DEF Unconsumed
<1>5. NoByteLost /\ Contents
  BY <1>3, <1>4 DEF NoByteLost, Contents
<1>6. RegionIsTheEnd /\ ResultIsIn /\ ViewIsTheRest /\ RoomLeft /\ ClosedAtTheEnd
  BY DEF RegionIsTheEnd, ResultIsIn, ViewIsTheRest, RoomLeft, ClosedAtTheEnd
<1>7. QED
  BY <1>2, <1>3, <1>5, <1>6 DEF IInv

-----------------------------------------------------------------------------
(* The other end only adds to what is still to come, and leaves only while *)
(* it is there.                                                            *)
LEMMA PeerPreserves == ASSUME IInv, PeerSends \/ PeerLeaves PROVE IInv'
<1> USE ReceiverAssumption
<1>1. /\ peer = "open"
      /\ first' = first /\ arrived' = arrived
      /\ data_' = data_ /\ size_' = size_
      /\ pc' = pc /\ region' = region /\ result' = result
      /\ view' = view /\ handled' = handled
  BY DEF PeerSends, PeerLeaves, buffer
<1>2. /\ peer' \in {"open", "shut", "reset"}
      /\ sent' \in 0 .. MaxBytes /\ sent <= sent'
  BY DEF PeerSends, PeerLeaves, IInv, TypeOK
<1>3. TypeOK'
  BY <1>1, <1>2 DEF IInv, TypeOK
<1>4. HandledInOrder' /\ NoByteLost' /\ Contents'
  BY <1>1 DEF IInv, HandledInOrder, NoByteLost, Contents, Parsed, Unconsumed, Succeeded, Bytes
<1>5. RegionIsTheEnd' /\ ViewIsTheRest' /\ RoomLeft'
  BY <1>1 DEF IInv, RegionIsTheEnd, ViewIsTheRest, RoomLeft
<1>6. ResultIsIn'
  BY <1>1 DEF IInv, ResultIsIn, IsClosed, Succeeded, Parsed
<1>7. ClosedAtTheEnd'
  BY <1>1 DEF IInv, ClosedAtTheEnd
<1>8. QED
  BY <1>3, <1>4, <1>5, <1>6, <1>7 DEF IInv

-----------------------------------------------------------------------------
(* There is room for a byte at least, because what is left of the storage  *)
(* is more than what is missing to a record.                               *)
LEMMA PreparePreserves ==
  ASSUME IInv, NEW size \in 1 .. Capacity - size_, Prepare(size)
  PROVE  IInv'
<1> USE ReceiverAssumption
<1>1. /\ peer' = peer /\ sent' = sent /\ first' = first /\ arrived' = arrived
      /\ data_' = data_ /\ size_' = size_
      /\ pc = "idle" /\ pc' = "prepared"
      /\ region' = [at |-> size_, size |-> size]
      /\ result' = result /\ view' = view /\ handled' = handled
  BY DEF Prepare, network, buffer
<1>2. TypeOK'
  BY <1>1 DEF IInv, TypeOK, Steps, Slice
<1>3. HandledInOrder' /\ NoByteLost' /\ Contents'
  BY <1>1 DEF IInv, HandledInOrder, NoByteLost, Contents, Parsed, Unconsumed
<1>4. RegionIsTheEnd'
  BY <1>1 DEF RegionIsTheEnd
<1>5. ResultIsIn' /\ ViewIsTheRest' /\ RoomLeft' /\ ClosedAtTheEnd'
  BY <1>1 DEF IInv, ResultIsIn, ViewIsTheRest, RoomLeft, ClosedAtTheEnd
<1>6. QED
  BY <1>2, <1>3, <1>4, <1>5 DEF IInv

LEMMA PreparesPreserve == ASSUME IInv, PrepareAll \/ PrepareSize PROVE IInv'
<1> USE ReceiverAssumption
<1>1. CASE PrepareAll
  <2>1. size_ < RecordSize /\ size_ \in 0 .. Capacity
    BY <1>1 DEF PrepareAll, Prepare, IInv, RoomLeft, TypeOK
  <2>2. Capacity - size_ \in 1 .. Capacity - size_
    BY <2>1
  <2>3. QED
    BY <1>1, <2>2, PreparePreserves DEF PrepareAll
<1>2. CASE PrepareSize
  <2>1. PICK size \in 1 .. Capacity : ~(Capacity - size_ < size) /\ Prepare(size)
    BY <1>2 DEF PrepareSize
  <2>2. size \in 1 .. Capacity - size_
    BY <2>1 DEF IInv, TypeOK
  <2>3. QED
    BY <2>1, <2>2, PreparePreserves
<1>3. QED
  BY <1>1, <1>2

-----------------------------------------------------------------------------
(* recv() copies behind the committed bytes and touches none of them.      *)
LEMMA RecvBytesPreserves == ASSUME IInv, RecvBytes PROVE IInv'
<1> USE ReceiverAssumption
<1>1. PICK n \in 1 .. region.size :
        /\ arrived + n <= sent
        /\ arrived' = arrived + n
        /\ data_' = [i \in 0 .. Capacity - 1 |->
                       IF i \in region.at .. region.at + n - 1
                       THEN arrived + 1 + i - region.at ELSE data_[i]]
        /\ Returns(n, NoError)
  BY DEF RecvBytes
<1>2. /\ peer' = peer /\ sent' = sent /\ first' = first
      /\ size_' = size_
      /\ pc = "prepared" /\ pc' = "received"
      /\ region' = region /\ view' = view /\ handled' = handled
      /\ result' = TransmitResult(n, NoError)
  BY <1>1 DEF Returns, network
<1>3. region.at = size_ /\ region.size \in 1 .. Capacity - size_
  BY <1>2 DEF IInv, RegionIsTheEnd
<1>4. size_ \in 0 .. Capacity /\ n \in 1 .. Capacity - size_ /\ n <= region.size
  BY <1>3 DEF IInv, TypeOK
<1>5. result' = [value |-> n, code |-> NoError]
  BY <1>2, <1>4 DEF TransmitResult
<1>6. TypeOK'
  <2>1. arrived' \in first' .. sent'
    BY <1>1, <1>2 DEF IInv, TypeOK
  <2>2. \A i \in size_ .. size_ + n - 1 : arrived + 1 + i - size_ \in 0 .. MaxBytes
    BY <1>1, <1>4 DEF IInv, TypeOK
  <2>3. data_' \in [0 .. Capacity - 1 -> 0 .. MaxBytes]
    BY <1>1, <1>3, <1>4, <2>2 DEF IInv, TypeOK
  <2>4. result' \in [value : -1 .. Capacity, code : Errno]
    BY <1>4, <1>5 DEF Errno
  <2>5. QED
    BY <1>2, <2>1, <2>3, <2>4 DEF IInv, TypeOK, Steps
<1>7. Succeeded(result)' /\ ~IsClosed(result)' /\ result.value' = n
  BY <1>4, <1>5 DEF Succeeded, IsClosed
<1>8. Bytes(result)' = n
  <2>1. n \in 0 .. Word - 1
    BY <1>4, ResultsAssumption
  <2>2. QED
    BY <1>5, <2>1, SmallModulo DEF Bytes
<1>9. Unconsumed' = size_ /\ Unconsumed = size_ /\ Parsed' = Parsed
  BY <1>2 DEF Unconsumed, Parsed
<1>10. Parsed \in Int /\ arrived = Parsed + size_
  BY <1>2, <1>9 DEF IInv, NoByteLost, TypeOK, Parsed
<1>11. NoByteLost'
  BY <1>1, <1>2, <1>7, <1>8, <1>9, <1>10 DEF NoByteLost
<1>12. Contents'
  <2>1. \A i \in 0 .. size_ - 1 : data_[i] = Parsed + i + 1
    BY <1>2, <1>4, <1>9 DEF IInv, Contents
  <2>2. \A i \in 0 .. size_ - 1 : data_'[i] = data_[i]
    BY <1>1, <1>3, <1>4
  <2>3. QED
    BY <1>2, <1>4, <1>9, <2>1, <2>2 DEF Contents
<1>13. ResultIsIn'
  <2>1. \A i \in 0 .. n - 1 : data_'[size_ + i] = Parsed + size_ + i + 1
    BY <1>1, <1>3, <1>4, <1>10
  <2>2. QED
    BY <1>2, <1>4, <1>7, <1>9, <2>1 DEF ResultIsIn
<1>14. HandledInOrder' /\ RegionIsTheEnd' /\ ViewIsTheRest' /\ RoomLeft' /\ ClosedAtTheEnd'
  BY <1>2 DEF IInv, HandledInOrder, RegionIsTheEnd, ViewIsTheRest, RoomLeft, ClosedAtTheEnd
<1>15. QED
  BY <1>6, <1>11, <1>12, <1>13, <1>14 DEF IInv

(* It returns 0 at the end of the stream only: the region is never empty.  *)
LEMMA RecvNothingPreserves == ASSUME IInv, RecvNothing \/ RecvFails PROVE IInv'
<1> USE ReceiverAssumption
<1>1. /\ peer' = peer /\ sent' = sent /\ first' = first /\ arrived' = arrived
      /\ data_' = data_ /\ size_' = size_
      /\ pc = "prepared" /\ pc' = "received"
      /\ region' = region /\ view' = view /\ handled' = handled
  BY DEF RecvNothing, RecvFails, Returns, network
<1>2. \/ /\ RecvNothing
         /\ result' = [value |-> 0, code |-> NoError]
      \/ /\ RecvFails
         /\ \E errno \in Errno : result' = [value |-> -1, code |-> errno]
  BY DEF RecvNothing, RecvFails, Returns, TransmitResult, Errno
<1>3. RecvNothing => peer = "shut" /\ arrived = sent
  BY <1>1 DEF RecvNothing, IInv, RegionIsTheEnd, TypeOK, Slice
<1>4. result' \in [value : -1 .. Capacity, code : Errno]
  BY <1>2 DEF Errno
<1>5. ~Succeeded(result)' /\ result.value' <= 0
  BY <1>2 DEF Succeeded
<1>6. IsClosed(result)' => peer = "shut" /\ arrived = sent
  BY <1>2, <1>3 DEF IsClosed
<1>7. TypeOK'
  BY <1>1, <1>4 DEF IInv, TypeOK, Steps
<1>8. NoByteLost' /\ Contents'
  BY <1>1, <1>5 DEF IInv, NoByteLost, Contents, Parsed, Unconsumed
<1>9. RegionIsTheEnd'
  BY <1>1 DEF IInv, RegionIsTheEnd
<1>10. ResultIsIn'
  <2>1. region.size \in Nat /\ result'.value \in Int
    BY <1>4 DEF IInv, TypeOK, Slice
  <2>2. QED
    BY <1>1, <1>5, <1>6, <2>1 DEF ResultIsIn
<1>11. HandledInOrder' /\ ViewIsTheRest' /\ RoomLeft' /\ ClosedAtTheEnd'
  BY <1>1 DEF IInv, HandledInOrder, ViewIsTheRest, RoomLeft, ClosedAtTheEnd
<1>12. QED
  BY <1>7, <1>8, <1>9, <1>10, <1>11 DEF IInv

-----------------------------------------------------------------------------
(* The bytes that recv() copied lie behind the others and join them.       *)
LEMMA CommitPreserves == ASSUME IInv, Commit PROVE IInv'
<1> USE ReceiverAssumption
<1>1. /\ pc = "received"
      /\ Succeeded(result)
      /\ size_' = size_ + Bytes(result)
      /\ view' = [at |-> 0, size |-> size_ + Bytes(result)]
      /\ pc' = "parsing"
      /\ peer' = peer /\ sent' = sent /\ first' = first /\ arrived' = arrived
      /\ data_' = data_ /\ region' = region /\ result' = result /\ handled' = handled
  BY DEF Commit, Committed, network
<1>2. result.value \in 1 .. Capacity /\ Bytes(result) = result.value
  BY <1>1, BytesOfSuccess DEF IInv
<1>3. size_ \in 0 .. Capacity /\ region.size \in 1 .. Capacity - size_ /\ result.value <= region.size
  BY <1>1 DEF IInv, TypeOK, RegionIsTheEnd, ResultIsIn
<1>4. size_' \in 0 .. Capacity /\ size_' = size_ + result.value
  BY <1>1, <1>2, <1>3
<1>5. TypeOK'
  BY <1>1, <1>2, <1>4 DEF IInv, TypeOK, Steps, Slice
<1>6. Unconsumed' = size_' /\ Unconsumed = size_ /\ Parsed' = Parsed
  BY <1>1, <1>2 DEF Unconsumed, Parsed
<1>7. Parsed \in Int
  BY DEF IInv, TypeOK, Parsed
<1>8. NoByteLost'
  BY <1>1, <1>2, <1>3, <1>4, <1>6, <1>7 DEF IInv, NoByteLost
<1>9. Contents'
  <2>1. \A i \in 0 .. size_ - 1 : data_[i] = Parsed + i + 1
    BY <1>1, <1>3, <1>6 DEF IInv, Contents
  <2>2. \A i \in 0 .. result.value - 1 : data_[size_ + i] = Parsed + size_ + i + 1
    BY <1>1 DEF IInv, ResultIsIn
  <2>3. \A j \in size_ .. size_' - 1 : data_[j] = Parsed + j + 1
    <3> TAKE j \in size_ .. size_' - 1
    <3>1. j - size_ \in 0 .. result.value - 1 /\ size_ + (j - size_) = j
      BY <1>2, <1>3, <1>4
    <3>2. data_[size_ + (j - size_)] = Parsed + size_ + (j - size_) + 1
      BY <2>2, <3>1
    <3>3. QED
      BY <1>3, <1>7, <3>1, <3>2
  <2>4. \A j \in 0 .. size_' - 1 : data_[j] = Parsed + j + 1
    BY <1>3, <2>1, <2>3
  <2>5. view'.at = 0
    BY <1>1
  <2>6. QED
    BY <1>1, <1>4, <1>6, <2>4, <2>5 DEF Contents
<1>10. ViewIsTheRest'
  BY <1>1, <1>4 DEF ViewIsTheRest
<1>11. HandledInOrder' /\ RegionIsTheEnd' /\ ResultIsIn' /\ RoomLeft' /\ ClosedAtTheEnd'
  BY <1>1 DEF IInv, HandledInOrder, RegionIsTheEnd, ResultIsIn, RoomLeft, ClosedAtTheEnd
<1>12. QED
  BY <1>5, <1>8, <1>9, <1>10, <1>11 DEF IInv

LEMMA ComplainPreserves == ASSUME IInv, Complain PROVE IInv'
<1>1. /\ pc = "received"
      /\ ~Succeeded(result)
      /\ pc' \in {"idle", "closed", "failed"}
      /\ pc' = "closed" => IsClosed(result)
      /\ peer' = peer /\ sent' = sent /\ first' = first /\ arrived' = arrived
      /\ data_' = data_ /\ size_' = size_
      /\ region' = region /\ result' = result /\ view' = view /\ handled' = handled
  BY DEF Complain, network, buffer
<1>2. TypeOK'
  BY <1>1 DEF IInv, TypeOK, Steps
<1>3. HandledInOrder' /\ NoByteLost' /\ Contents'
  BY <1>1 DEF IInv, HandledInOrder, NoByteLost, Contents, Parsed, Unconsumed
<1>4. RegionIsTheEnd' /\ ResultIsIn' /\ ViewIsTheRest' /\ RoomLeft'
  BY <1>1 DEF IInv, RegionIsTheEnd, ResultIsIn, ViewIsTheRest, RoomLeft
<1>5. ClosedAtTheEnd'
  BY <1>1 DEF IInv, ResultIsIn, ClosedAtTheEnd
<1>6. QED
  BY <1>2, <1>3, <1>4, <1>5 DEF IInv

-----------------------------------------------------------------------------
(* A record is the next bytes of the view.                                 *)
LEMMA ParseRecordProperties ==
  ASSUME IInv, ParseRecord
  PROVE  /\ handled' \in Seq(0 .. MaxBytes)
         /\ Len(handled') = Len(handled) + RecordSize
         /\ \A i \in 1 .. Len(handled') : handled'[i] = first + i
<1> USE ReceiverAssumption
<1> DEFINE record == [i \in 1 .. RecordSize |-> data_[view.at + i - 1]]
<1>1. /\ pc = "parsing"
      /\ ~(view.size < RecordSize)
      /\ handled' = handled \o record
  BY DEF ParseRecord, Incomplete
<1>2. /\ view.at \in 0 .. Capacity /\ view.size \in 0 .. Capacity
      /\ view.at + view.size = size_ /\ size_ \in 0 .. Capacity
      /\ first \in Nat /\ Len(handled) \in Nat /\ handled \in Seq(0 .. MaxBytes)
      /\ data_ \in [0 .. Capacity - 1 -> 0 .. MaxBytes]
  BY <1>1 DEF IInv, TypeOK, ViewIsTheRest, Slice
<1>3. \A i \in 0 .. view.size - 1 : data_[view.at + i] = first + Len(handled) + i + 1
  BY <1>1 DEF IInv, Contents, Unconsumed, Parsed
<1>4. \A i \in 1 .. RecordSize : record[i] = first + Len(handled) + i
  <2> TAKE i \in 1 .. RecordSize
  <2>1. i - 1 \in 0 .. view.size - 1
    BY <1>1, <1>2
  <2>2. data_[view.at + (i - 1)] = first + Len(handled) + (i - 1) + 1
    BY <1>3, <2>1
  <2>3. QED
    BY <1>2, <2>2
<1>5. record \in Seq(0 .. MaxBytes) /\ Len(record) = RecordSize
  <2>1. \A i \in 1 .. RecordSize : view.at + i - 1 \in 0 .. Capacity - 1
    BY <1>1, <1>2
  <2>2. \A i \in 1 .. RecordSize : data_[view.at + i - 1] \in 0 .. MaxBytes
    BY <1>2, <2>1
  <2>3. record \in [1 .. RecordSize -> 0 .. MaxBytes]
    BY <2>2
  <2>4. QED
    BY <2>3
<1> HIDE DEF record
<1>6. /\ handled' \in Seq(0 .. MaxBytes)
      /\ Len(handled') = Len(handled) + RecordSize
      /\ \A i \in 1 .. Len(handled) + RecordSize :
           handled'[i] = IF i <= Len(handled) THEN handled[i] ELSE record[i - Len(handled)]
  BY <1>1, <1>2, <1>5, ConcatProperties
<1>7. \A i \in 1 .. Len(handled) : handled[i] = first + i
  BY DEF IInv, HandledInOrder
<1>8. ASSUME NEW i \in 1 .. Len(handled) + RecordSize PROVE handled'[i] = first + i
  <2>1. CASE i <= Len(handled)
    <3>1. i \in 1 .. Len(handled)
      BY <1>2, <2>1
    <3>2. handled'[i] = handled[i] /\ handled[i] = first + i
      BY <1>6, <1>7, <2>1, <3>1
    <3>3. QED
      BY <3>2
  <2>2. CASE ~(i <= Len(handled))
    <3>1. i - Len(handled) \in 1 .. RecordSize
      BY <1>2, <2>2
    <3>2. record[i - Len(handled)] = first + Len(handled) + (i - Len(handled))
      BY <1>4, <3>1
    <3>3. QED
      BY <1>2, <1>6, <2>2, <3>2
  <2>3. QED
    BY <2>1, <2>2
<1>9. QED
  BY <1>6, <1>8

LEMMA ParseRecordPreserves == ASSUME IInv, ParseRecord PROVE IInv'
<1> USE ReceiverAssumption
<1>1. /\ pc = "parsing"
      /\ ~(view.size < RecordSize)
      /\ view' = [at |-> view.at + RecordSize, size |-> view.size - RecordSize]
      /\ peer' = peer /\ sent' = sent /\ first' = first /\ arrived' = arrived
      /\ data_' = data_ /\ size_' = size_
      /\ pc' = pc /\ region' = region /\ result' = result
  BY DEF ParseRecord, Incomplete, network, buffer
<1>2. /\ handled' \in Seq(0 .. MaxBytes)
      /\ Len(handled') = Len(handled) + RecordSize
      /\ \A i \in 1 .. Len(handled') : handled'[i] = first + i
  BY ParseRecordProperties
<1>3. /\ view.at \in 0 .. Capacity /\ view.size \in 0 .. Capacity
      /\ view.at + view.size = size_ /\ size_ \in 0 .. Capacity
      /\ first \in Nat /\ Len(handled) \in Nat
  BY <1>1 DEF IInv, TypeOK, ViewIsTheRest, Slice
<1>4. view' \in Slice /\ view'.at = view.at + RecordSize /\ view'.size = view.size - RecordSize
  BY <1>1, <1>3 DEF Slice
<1>5. TypeOK'
  BY <1>1, <1>2, <1>4 DEF IInv, TypeOK
<1>6. HandledInOrder'
  BY <1>1, <1>2 DEF HandledInOrder
<1>7. /\ Unconsumed = view.size /\ Unconsumed' = view.size - RecordSize
      /\ Parsed = first + Len(handled) /\ Parsed' = Parsed + RecordSize
  BY <1>1, <1>2, <1>3, <1>4 DEF Unconsumed, Parsed
<1>8. NoByteLost'
  <2>1. arrived = Parsed + Unconsumed
    BY <1>1, <1>3, <1>7 DEF IInv, NoByteLost
  <2>2. QED
    BY <1>1, <1>3, <1>7, <2>1 DEF NoByteLost
<1>9. Contents'
  <2>1. \A i \in 0 .. view.size - 1 : data_[view.at + i] = Parsed + i + 1
    BY <1>1, <1>7 DEF IInv, Contents
  <2>2. ASSUME NEW i \in 0 .. view.size - RecordSize - 1
        PROVE  data_[view.at + RecordSize + i] = Parsed + RecordSize + i + 1
    <3>1. RecordSize + i \in 0 .. view.size - 1
      BY <1>3
    <3>2. data_[view.at + (RecordSize + i)] = Parsed + (RecordSize + i) + 1
      BY <2>1, <3>1
    <3>3. Parsed \in Nat /\ i \in Nat /\ RecordSize \in Nat /\ view.at \in Nat
      BY <1>3, <1>7
    <3>4. /\ view.at + (RecordSize + i) = view.at + RecordSize + i
          /\ Parsed + (RecordSize + i) + 1 = Parsed + RecordSize + i + 1
      BY <3>3
    <3>5. QED
      BY <3>2, <3>4
  <2>3. QED
    BY <1>1, <1>4, <1>7, <2>2 DEF Contents
<1>10. ViewIsTheRest'
  BY <1>1, <1>3, <1>4 DEF ViewIsTheRest
<1>11. RegionIsTheEnd' /\ ResultIsIn' /\ RoomLeft' /\ ClosedAtTheEnd'
  BY <1>1 DEF RegionIsTheEnd, ResultIsIn, RoomLeft, ClosedAtTheEnd
<1>12. QED
  BY <1>5, <1>6, <1>8, <1>9, <1>10, <1>11 DEF IInv

(* consume() leaves in front what the view had left.                       *)
LEMMA FinishParsingPreserves == ASSUME IInv, FinishParsing PROVE IInv'
<1> USE ReceiverAssumption
<1>1. /\ pc = "parsing" /\ pc' = "idle"
      /\ view.size < RecordSize
      /\ data_' = IF size_ = size_ - view.size THEN data_ ELSE Moved(size_ - view.size)
      /\ size_' = size_ - (size_ - view.size)
      /\ peer' = peer /\ sent' = sent /\ first' = first /\ arrived' = arrived
      /\ region' = region /\ result' = result /\ view' = view /\ handled' = handled
  BY DEF FinishParsing, Incomplete, Consume, network
<1>2. /\ view.at \in 0 .. Capacity /\ view.size \in 0 .. Capacity
      /\ view.at + view.size = size_ /\ size_ \in 0 .. Capacity
      /\ data_ \in [0 .. Capacity - 1 -> 0 .. MaxBytes]
  BY <1>1 DEF IInv, TypeOK, ViewIsTheRest, Slice
<1>3. size_' = view.size /\ size_' \in 0 .. Capacity /\ size_ - view.size = view.at
  BY <1>1, <1>2
<1>4. \A i \in 0 .. view.size - 1 : data_'[i] = data_[view.at + i]
  <2> TAKE i \in 0 .. view.size - 1
  <2>1. i \in 0 .. Capacity - 1 /\ i < size_ - view.at /\ i + view.at = view.at + i
    BY <1>2
  <2>2. size_ # size_ - view.size
    BY <1>2
  <2>3. QED
    BY <1>1, <1>3, <2>1, <2>2 DEF Moved
<1>5. data_' \in [0 .. Capacity - 1 -> 0 .. MaxBytes]
  <2>1. \A i \in 0 .. Capacity - 1 : i < view.size => i + view.at \in 0 .. Capacity - 1
    BY <1>2
  <2>2. size_ - view.at = view.size
    BY <1>2
  <2>3. QED
    BY <1>1, <1>2, <1>3, <2>1, <2>2 DEF Moved
<1>6. TypeOK'
  BY <1>1, <1>3, <1>5 DEF IInv, TypeOK, Steps
<1>7. Unconsumed = view.size /\ Unconsumed' = view.size /\ Parsed' = Parsed
  BY <1>1, <1>3 DEF Unconsumed, Parsed
<1>8. NoByteLost'
  BY <1>1, <1>7 DEF IInv, NoByteLost
<1>9. Contents'
  BY <1>1, <1>4, <1>7 DEF IInv, Contents
<1>10. RoomLeft'
  BY <1>1, <1>3 DEF RoomLeft
<1>11. HandledInOrder' /\ RegionIsTheEnd' /\ ResultIsIn' /\ ViewIsTheRest' /\ ClosedAtTheEnd'
  BY <1>1 DEF IInv, HandledInOrder, RegionIsTheEnd, ResultIsIn, ViewIsTheRest, ClosedAtTheEnd
<1>12. QED
  BY <1>6, <1>8, <1>9, <1>10, <1>11 DEF IInv

LEMMA ResetPreserves == ASSUME IInv, Reset PROVE IInv'
<1> USE ReceiverAssumption
<1>1. /\ size_' = 0 /\ peer' = "open"
      /\ sent' = sent /\ first' = sent /\ arrived' = sent
      /\ handled' = << >> /\ pc' = "idle"
      /\ data_' = data_ /\ region' = region /\ result' = result /\ view' = view
  BY DEF Reset
<1>2. TypeOK'
  BY <1>1 DEF IInv, TypeOK, Steps
<1>3. HandledInOrder' /\ Parsed' = sent /\ Unconsumed' = 0
  BY <1>1 DEF IInv, TypeOK, HandledInOrder, Parsed, Unconsumed
<1>4. NoByteLost' /\ Contents'
  BY <1>1, <1>3 DEF IInv, TypeOK, NoByteLost, Contents
<1>5. RegionIsTheEnd' /\ ResultIsIn' /\ ViewIsTheRest' /\ RoomLeft' /\ ClosedAtTheEnd'
  BY <1>1 DEF RegionIsTheEnd, ResultIsIn, ViewIsTheRest, RoomLeft, ClosedAtTheEnd
<1>6. QED
  BY <1>2, <1>3, <1>4, <1>5 DEF IInv

-----------------------------------------------------------------------------
LEMMA NextPreservesIInv == IInv /\ [Next]_vars => IInv'
<1> SUFFICES ASSUME IInv, [Next]_vars PROVE IInv'
  OBVIOUS
<1>1. CASE PeerSends \/ PeerLeaves
  BY <1>1, PeerPreserves
<1>2. CASE PrepareAll \/ PrepareSize
  BY <1>2, PreparesPreserve
<1>3. CASE RecvBytes
  BY <1>3, RecvBytesPreserves
<1>4. CASE RecvNothing \/ RecvFails
  BY <1>4, RecvNothingPreserves
<1>5. CASE Commit
  BY <1>5, CommitPreserves
<1>6. CASE Complain
  BY <1>6, ComplainPreserves
<1>7. CASE ParseRecord
  BY <1>7, ParseRecordPreserves
<1>8. CASE FinishParsing
  BY <1>8, FinishParsingPreserves
<1>9. CASE Reset
  BY <1>9, ResetPreserves
<1>10. CASE UNCHANGED vars
  BY <1>10 DEF vars, network, buffer, IInv, TypeOK, HandledInOrder, NoByteLost, Contents,
               Unconsumed, Parsed, RegionIsTheEnd, ResultIsIn, ViewIsTheRest, RoomLeft,
               ClosedAtTheEnd, Succeeded, IsClosed, Bytes
<1>11. QED
  BY <1>1, <1>2, <1>3, <1>4, <1>5, <1>6, <1>7, <1>8, <1>9, <1>10 DEF Next, Program

(***************************************************************************)
(* The inductive invariant.                                                *)
(***************************************************************************)
THEOREM Invariance == Spec => []IInv
<1>1. Init => IInv
  BY InitEstablishesIInv
<1>2. IInv /\ [Next]_vars => IInv'
  BY NextPreservesIInv
<1>3. QED
  BY <1>1, <1>2, PTL DEF Spec

(***************************************************************************)
(* The records that are parsed are the bytes of this connection, in order  *)
(* and without a gap.                                                      *)
(***************************************************************************)
THEOREM RecordsInOrder == Spec => []HandledInOrder
<1>1. IInv => HandledInOrder
  BY DEF IInv
<1>2. QED
  BY <1>1, Invariance, PTL

(***************************************************************************)
(* No byte that recv() copied is lost between commit() and consume().      *)
(***************************************************************************)
THEOREM NoneLost == Spec => []NoByteLost
<1>1. IInv => NoByteLost
  BY DEF IInv
<1>2. QED
  BY <1>1, Invariance, PTL

(***************************************************************************)
(* isClosed() tells the end of the stream, with every whole record parsed: *)
(* the storage is never so full that prepare() gives an empty region.      *)
(***************************************************************************)
THEOREM ClosedIsTheEnd == Spec => []ClosedMeansClosed
<1>1. ASSUME IInv PROVE ClosedMeansClosed
  <2> SUFFICES ASSUME pc = "closed" PROVE peer = "shut" /\ sent - Parsed < RecordSize
    BY DEF ClosedMeansClosed
  <2>1. peer = "shut" /\ arrived = sent /\ size_ < RecordSize
    BY <1>1 DEF IInv, ClosedAtTheEnd, RoomLeft
  <2>2. arrived = Parsed + size_
    BY <1>1 DEF IInv, NoByteLost, Unconsumed, TypeOK, Parsed
  <2>3. Parsed \in Int /\ size_ \in Int /\ RecordSize \in Int
    BY <1>1, ReceiverAssumption DEF IInv, TypeOK, Parsed
  <2>4. QED
    BY <2>1, <2>2, <2>3
<1>2. QED
  BY <1>1, Invariance, PTL

-----------------------------------------------------------------------------
(* The bytes behind a, n of them.                                          *)
LEMMA BytesBehind ==
  ASSUME NEW a \in Nat, NEW n \in Nat, a + n <= MaxBytes
  PROVE  /\ [i \in 1 .. n |-> a + i] \in Seq(1 .. MaxBytes)
         /\ Len([i \in 1 .. n |-> a + i]) = n
         /\ \A i \in 1 .. n : [k \in 1 .. n |-> a + k][i] = a + i
<1> DEFINE bytes == [i \in 1 .. n |-> a + i]
<1>1. MaxBytes \in Nat
  BY ReceiverAssumption
<1>2. \A i \in 1 .. n : a + i \in 1 .. MaxBytes
  BY <1>1
<1>3. bytes \in [1 .. n -> 1 .. MaxBytes]
  BY <1>2
<1>4. \A i \in 1 .. n : bytes[i] = a + i
  OBVIOUS
<1>5. bytes \in Seq(1 .. MaxBytes) /\ Len(bytes) = n
  BY <1>3
<1> HIDE DEF bytes
<1>6. QED
  BY <1>4, <1>5 DEF bytes

LEMMA WrittenProperties ==
  ASSUME IInv
  PROVE  /\ Written \in Seq(1 .. MaxBytes)
         /\ Len(Written) = sent - first
         /\ \A i \in 1 .. sent - first : Written[i] = first + i
<1>1. first \in Nat /\ sent \in Nat /\ first <= sent /\ sent <= MaxBytes
  BY ReceiverAssumption DEF IInv, TypeOK
<1>2. sent - first \in Nat /\ first + (sent - first) <= MaxBytes
  BY <1>1
<1>3. QED
  BY <1>1, <1>2, BytesBehind DEF Written

LEMMA SendWrites == ASSUME IInv, PeerSends PROVE Channel!Write
<1>1. /\ sent' = sent + 1 /\ sent < MaxBytes
      /\ first' = first /\ handled' = handled
  BY DEF PeerSends
<1>2. first \in Nat /\ sent \in Nat /\ first <= sent /\ MaxBytes \in Nat
  BY ReceiverAssumption DEF IInv, TypeOK
<1>3. sent + 1 \in 1 .. MaxBytes
  BY <1>1, <1>2
<1>4. Written' = Append(Written, sent + 1)
  <2>1. /\ Append(Written, sent + 1) \in Seq(1 .. MaxBytes)
        /\ Len(Append(Written, sent + 1)) = sent - first + 1
        /\ \A i \in 1 .. sent - first : Append(Written, sent + 1)[i] = first + i
        /\ Append(Written, sent + 1)[sent - first + 1] = sent + 1
    BY <1>2, <1>3, WrittenProperties, AppendProperties
  <2>2. /\ Written' \in Seq(1 .. MaxBytes)
        /\ Len(Written') = sent - first + 1
        /\ \A i \in 1 .. sent - first + 1 : Written'[i] = first + i
    <3>1. sent - first + 1 \in Nat /\ first + (sent - first + 1) <= MaxBytes
      BY <1>2, <1>3
    <3>2. Written' = [i \in 1 .. sent - first + 1 |-> first + i]
      <4>1. sent' - first' = sent - first + 1
        BY <1>1, <1>2
      <4>2. QED
        BY <1>1, <4>1 DEF Written
    <3>3. QED
      BY <1>2, <3>1, <3>2, BytesBehind
  <2>3. \A i \in 1 .. sent - first + 1 : Written'[i] = Append(Written, sent + 1)[i]
    <3> TAKE i \in 1 .. sent - first + 1
    <3>1. CASE i \in 1 .. sent - first
      BY <2>1, <2>2, <3>1
    <3>2. CASE i = sent - first + 1
      BY <1>2, <2>1, <2>2, <3>2
    <3>3. i \in 1 .. sent - first \/ i = sent - first + 1
      BY <1>2
    <3>4. QED
      BY <3>1, <3>2, <3>3
  <2>4. QED
    BY <2>1, <2>2, <2>3, SeqEqual
<1>5. QED
  BY <1>1, <1>3, <1>4 DEF Channel!Write

LEMMA ParseReads == ASSUME IInv, ParseRecord PROVE Channel!ReadRecord
<1> USE ReceiverAssumption
<1>1. /\ handled' \in Seq(0 .. MaxBytes)
      /\ Len(handled') = Len(handled) + RecordSize
      /\ \A i \in 1 .. Len(handled') : handled'[i] = first + i
  BY ParseRecordProperties
<1>2. /\ pc = "parsing" /\ ~(view.size < RecordSize)
      /\ sent' = sent /\ first' = first
  BY DEF ParseRecord, Incomplete, network
<1>3. /\ first \in Nat /\ sent \in Nat /\ first <= sent /\ Len(handled) \in Nat
      /\ view.size \in Nat /\ arrived <= sent /\ arrived \in Nat
  BY DEF IInv, TypeOK, Slice
<1>4. arrived = first + Len(handled) + view.size
  BY <1>2, <1>3 DEF IInv, NoByteLost, Unconsumed, Parsed
<1>5. Len(handled) + RecordSize \in 0 .. sent - first
  BY <1>2, <1>3, <1>4
<1>6. handled' = SubSeq(Written, 1, Len(handled) + RecordSize)
  <2> DEFINE n == Len(handled) + RecordSize
  <2>1. /\ Written \in Seq(1 .. MaxBytes)
        /\ Len(Written) = sent - first
        /\ \A i \in 1 .. sent - first : Written[i] = first + i
    BY WrittenProperties
  <2>2. n \in 1 .. sent - first
    BY <1>3, <1>5
  <2> HIDE DEF n
  <2>3. /\ SubSeq(Written, 1, n) \in Seq(1 .. MaxBytes)
        /\ Len(SubSeq(Written, 1, n)) = n
        /\ \A i \in 1 .. n : SubSeq(Written, 1, n)[i] = first + i
    BY <1>3, <2>1, <2>2, SubSeqProperties
  <2>4. Len(handled') = n /\ \A i \in 1 .. n : handled'[i] = first + i
    BY <1>1 DEF n
  <2>5. handled' = SubSeq(Written, 1, n)
    BY <1>1, <2>3, <2>4, SeqEqual
  <2>6. QED
    BY <2>5 DEF n
<1>7. Len(Written) = sent - first /\ Written' = Written
  BY <1>2, WrittenProperties DEF Written
<1>8. QED
  BY <1>5, <1>6, <1>7 DEF Channel!ReadRecord

LEMMA ResetRestarts == ASSUME IInv, Reset PROVE Channel!Restart
<1>1. sent' = sent /\ first' = sent /\ handled' = << >> /\ sent \in Nat
  BY ReceiverAssumption DEF Reset, IInv, TypeOK
<1>2. Written' = << >>
  <2>1. Written' = [i \in 1 .. 0 |-> sent + i]
    <3>1. sent' - first' = 0
      BY <1>1
    <3>2. QED
      BY <1>1, <3>1 DEF Written
  <2>2. 0 \in Nat /\ sent + 0 <= MaxBytes
    BY ReceiverAssumption DEF IInv, TypeOK
  <2>3. Written' \in Seq(1 .. MaxBytes) /\ Len(Written') = 0
    BY <1>1, <2>1, <2>2, BytesBehind
  <2>4. QED
    BY <2>3, EmptySeq
<1>3. QED
  BY <1>1, <1>2 DEF Channel!Restart

(***************************************************************************)
(* The receiver implements a channel of bytes read in whole records.       *)
(***************************************************************************)
THEOREM ImplementsChannel == Spec => ChannelSpec
<1>1. Init => Channel!Init
  <2> SUFFICES ASSUME Init PROVE Channel!Init
    OBVIOUS
  <2>1. IInv /\ sent - first = 0 /\ handled = << >>
    BY InitEstablishesIInv DEF Init
  <2>2. Written = << >>
    BY <2>1, WrittenProperties, EmptySeq
  <2>3. QED
    BY <2>1, <2>2 DEF Channel!Init
<1>2. IInv /\ [Next]_vars => [Channel!Next]_<<Written, handled>>
  <2> SUFFICES ASSUME IInv, [Next]_vars PROVE [Channel!Next]_<<Written, handled>>
    OBVIOUS
  <2>1. CASE PeerSends
    BY <2>1, SendWrites DEF Channel!Next
  <2>2. CASE ParseRecord
    BY <2>2, ParseReads DEF Channel!Next
  <2>3. CASE Reset
    BY <2>3, ResetRestarts DEF Channel!Next
  <2>4. CASE \/ PeerLeaves \/ PrepareAll \/ PrepareSize
             \/ RecvBytes \/ RecvNothing \/ RecvFails
             \/ Commit \/ Complain \/ FinishParsing
    BY <2>4 DEF PeerLeaves, PrepareAll, PrepareSize, Prepare, RecvBytes, RecvNothing, RecvFails,
                Returns, Commit, Complain, FinishParsing, network, Written
  <2>5. CASE UNCHANGED vars
    BY <2>5 DEF vars, network, Written
  <2>6. QED
    BY <2>1, <2>2, <2>3, <2>4, <2>5 DEF Next, Program
<1>3. QED
  BY <1>1, <1>2, Invariance, PTL DEF Spec, ChannelSpec, Channel!Spec
=============================================================================
