----------------------- MODULE PcapPacketSourceProofs -----------------------
(***************************************************************************)
(* The inductive invariant of the packet source, for any files, any number *)
(* of readers and any depth of callbacks, and what follows from it.        *)
(***************************************************************************)
EXTENDS PcapPacketSource, PcapReaderProofs, WellFoundedInduction

(* A set of numbers that is not empty has a least one.                     *)
LEMMA Least ==
  ASSUME NEW T, T \subseteq Nat, T # {}
  PROVE  \E x \in T : \A y \in T : x <= y
<1>1. PICK x \in T : \A y \in T : ~(<<y, x>> \in OpToRel(<, Nat))
  BY NatLessThanWellFounded, WFMin
<1>2. \A y \in T : ~(y < x)
  BY <1>1 DEF OpToRel
<1>3. QED
  BY <1>2

(* In a sorted queue there is a place behind the keys that are not larger. *)
LEMMA UpperBoundExists ==
  ASSUME NEW queue \in Seq(Entry), Sorted(queue), NEW key \in Nat
  PROVE  /\ UpperBound(queue, key) \in 0 .. Len(queue)
         /\ \A i \in 1 .. UpperBound(queue, key) : queue[i].key <= key
         /\ \A i \in UpperBound(queue, key) + 1 .. Len(queue) : queue[i].key > key
<1> DEFINE T == {i \in 1 .. Len(queue) : queue[i].key > key}
           IsBound(n) == /\ \A i \in 1 .. n : queue[i].key <= key
                         /\ \A i \in n + 1 .. Len(queue) : queue[i].key > key
<1>1. Len(queue) \in Nat /\ DOMAIN queue = 1 .. Len(queue)
  BY LenProperties
<1>2. \A i \in 1 .. Len(queue) : queue[i].key \in Nat
  <2>1. \A i \in 1 .. Len(queue) : queue[i] \in Entry
    BY ElementOfSeq
  <2>2. QED
    BY <2>1 DEF Entry
<1>3. \E n \in 0 .. Len(queue) : IsBound(n)
  <2>1. CASE T = {}
    <3>1. IsBound(Len(queue))
      BY <1>1, <1>2, <2>1
    <3>2. QED
      BY <1>1, <3>1
  <2>2. CASE T # {}
    <3>1. T \subseteq Nat
      BY <1>1
    <3>2. PICK x \in T : \A y \in T : x <= y
      BY <2>2, <3>1, Least
    <3>3. \A i \in 1 .. x - 1 : queue[i].key <= key
      BY <1>1, <1>2, <3>2
    <3>4. \A i \in x .. Len(queue) : queue[i].key > key
      BY <1>1, <1>2, <3>2 DEF Sorted
    <3>5. IsBound(x - 1) /\ x - 1 \in 0 .. Len(queue)
      BY <1>1, <3>2, <3>3, <3>4
    <3>6. QED
      BY <3>5
  <2>3. QED
    BY <2>1, <2>2
<1>4. QED
  BY <1>3 DEF UpperBound

(* Emplace inserts the entry at that place, and the queue stays sorted.    *)
LEMMA EmplaceProperties ==
  ASSUME NEW queue \in Seq(Entry), Sorted(queue), NEW entry \in Entry
  PROVE  LET n == UpperBound(queue, entry.key)
             after == Emplace(queue, entry)
         IN /\ n \in 0 .. Len(queue)
            /\ after \in Seq(Entry)
            /\ Len(after) = Len(queue) + 1
            /\ \A i \in 1 .. Len(after) :
                 after[i] = IF i <= n THEN queue[i]
                            ELSE IF i = n + 1 THEN entry ELSE queue[i - 1]
            /\ Sorted(after)
<1> DEFINE n == UpperBound(queue, entry.key)
           after == Emplace(queue, entry)
           front == SubSeq(queue, 1, n)
           back == SubSeq(queue, n + 1, Len(queue))
<1>1. /\ Len(queue) \in Nat /\ DOMAIN queue = 1 .. Len(queue)
      /\ \A i \in 1 .. Len(queue) : queue[i] \in Entry /\ queue[i].key \in Nat
      /\ \A i, j \in 1 .. Len(queue) : i < j => queue[i].key <= queue[j].key
      /\ entry.key \in Nat
  <2>1. \A i \in 1 .. Len(queue) : queue[i] \in Entry
    BY ElementOfSeq
  <2>2. Len(queue) \in Nat /\ DOMAIN queue = 1 .. Len(queue)
    BY LenProperties
  <2>3. QED
    BY <2>1, <2>2 DEF Entry, Sorted
<1>2. /\ n \in 0 .. Len(queue)
      /\ \A i \in 1 .. n : queue[i].key <= entry.key
      /\ \A i \in n + 1 .. Len(queue) : queue[i].key > entry.key
  BY <1>1, UpperBoundExists
<1> HIDE DEF n
<1>3. n \in Nat /\ n <= Len(queue)
  BY <1>1, <1>2
<1>4. /\ front \in Seq(Entry) /\ Len(front) = n
      /\ \A i \in 1 .. n : front[i] = queue[i]
  <2>1. /\ SubSeq(queue, 0 + 1, 0 + n) \in Seq(Entry)
        /\ Len(SubSeq(queue, 0 + 1, 0 + n)) = n
        /\ \A i \in 1 .. n : SubSeq(queue, 0 + 1, 0 + n)[i] = queue[0 + i]
    BY <1>1, <1>3, Block
  <2>2. 0 + 1 = 1 /\ 0 + n = n
    BY <1>3
  <2>3. QED
    BY <1>3, <2>1, <2>2
<1>5. /\ back \in Seq(Entry) /\ Len(back) = Len(queue) - n
      /\ \A i \in 1 .. Len(queue) - n : back[i] = queue[n + i]
  <2>1. Len(queue) - n \in Nat /\ n + (Len(queue) - n) = Len(queue)
    BY <1>1, <1>3
  <2>2. /\ SubSeq(queue, n + 1, n + (Len(queue) - n)) \in Seq(Entry)
        /\ Len(SubSeq(queue, n + 1, n + (Len(queue) - n))) = Len(queue) - n
        /\ \A i \in 1 .. Len(queue) - n :
             SubSeq(queue, n + 1, n + (Len(queue) - n))[i] = queue[n + i]
    <3>1. n + (Len(queue) - n) <= Len(queue)
      BY <1>1, <2>1
    <3>2. QED
      BY <1>3, <2>1, <3>1, Block
  <2>3. QED
    BY <2>1, <2>2
<1>6. after = (front \o <<entry>>) \o back
  <2> DEFINE k == n + 1
  <2>2. n = k - 1
    BY <1>3
  <2> HIDE DEF k
  <2>3. InsertAt(queue, k, entry)
          = SubSeq(queue, 1, n) \o <<entry>> \o SubSeq(queue, k, Len(queue))
    BY <2>2 DEF InsertAt
  <2>4. after = InsertAt(queue, k, entry)
    BY DEF Emplace, n, k
  <2> HIDE DEF after
  <2>5. QED
    BY <2>3, <2>4 DEF k
<1> HIDE DEF front, back
<1>7. <<entry>> \in Seq(Entry) /\ Len(<<entry>>) = 1 /\ <<entry>>[1] = entry
  OBVIOUS
<1>8. /\ front \o <<entry>> \in Seq(Entry)
      /\ Len(front \o <<entry>>) = n + 1
      /\ \A i \in 1 .. n + 1 :
           (front \o <<entry>>)[i] = IF i <= n THEN queue[i] ELSE entry
  <2>1. /\ front \o <<entry>> \in Seq(Entry)
        /\ Len(front \o <<entry>>) = Len(front) + Len(<<entry>>)
        /\ \A i \in 1 .. Len(front) + Len(<<entry>>) : (front \o <<entry>>)[i] =
              IF i <= Len(front) THEN front[i] ELSE <<entry>>[i - Len(front)]
    BY <1>4, <1>7, ConcatProperties
  <2>2. QED
    BY <1>3, <1>4, <1>7, <2>1
<1> DEFINE head == front \o <<entry>>
<1> HIDE DEF head
<1>9. /\ after \in Seq(Entry)
      /\ Len(after) = Len(queue) + 1
      /\ \A i \in 1 .. Len(after) :
           after[i] = IF i <= n THEN queue[i]
                      ELSE IF i = n + 1 THEN entry ELSE queue[i - 1]
  <2>1. /\ head \in Seq(Entry) /\ Len(head) = n + 1
        /\ \A i \in 1 .. n + 1 : head[i] = IF i <= n THEN queue[i] ELSE entry
        /\ after = head \o back
    BY <1>6, <1>8 DEF head
  <2>2. /\ head \o back \in Seq(Entry)
        /\ Len(head \o back) = Len(head) + Len(back)
        /\ \A i \in 1 .. Len(head) + Len(back) : (head \o back)[i] =
              IF i <= Len(head) THEN head[i] ELSE back[i - Len(head)]
    BY <1>5, <2>1, ConcatProperties
  <2> HIDE DEF after
  <2>3. Len(after) = Len(queue) + 1
    BY <1>1, <1>3, <1>5, <2>1, <2>2
  <2>4. ASSUME NEW i \in 1 .. Len(after)
        PROVE  after[i] = IF i <= n THEN queue[i]
                          ELSE IF i = n + 1 THEN entry ELSE queue[i - 1]
    <3>1. CASE i <= n + 1
      BY <1>1, <1>3, <1>5, <2>1, <2>2, <2>3, <3>1
    <3>2. CASE i > n + 1
      <4>1. i - (n + 1) \in 1 .. Len(queue) - n /\ n + (i - (n + 1)) = i - 1
        <5>1. i \in Nat /\ i <= Len(queue) + 1 /\ Len(queue) \in Nat
          BY <1>1, <2>3
        <5>2. QED
          BY <1>3, <3>2, <5>1
      <4>2. after[i] = back[i - (n + 1)]
        BY <1>1, <1>3, <1>5, <2>1, <2>2, <2>3, <3>2
      <4>3. QED
        BY <1>3, <1>5, <3>2, <4>1, <4>2
    <3>3. QED
      BY <1>3, <3>1, <3>2
  <2>5. QED
    BY <2>1, <2>2, <2>3, <2>4
<1>10. Sorted(after)
  <2> HIDE DEF after
  <2>1. DOMAIN after = 1 .. Len(after)
    BY <1>9, LenProperties
  <2>2. SUFFICES ASSUME NEW i \in 1 .. Len(after), NEW j \in 1 .. Len(after), i < j
                 PROVE  after[i].key <= after[j].key
    BY <2>1 DEF Sorted
  <2>3. CASE j <= n
    <3>1. after[i] = queue[i] /\ after[j] = queue[j]
      BY <1>3, <1>9, <2>2, <2>3
    <3>2. QED
      BY <1>1, <1>3, <2>2, <2>3, <3>1
  <2>4. CASE j = n + 1
    <3>1. after[i] = queue[i] /\ after[j] = entry
      BY <1>3, <1>9, <2>2, <2>4
    <3>2. QED
      BY <1>2, <1>3, <2>2, <2>4, <3>1
  <2>5. CASE j > n + 1
    <3>1. j - 1 \in n + 1 .. Len(queue) /\ after[j] = queue[j - 1]
      BY <1>1, <1>3, <1>9, <2>5
    <3>2. CASE i <= n
      BY <1>1, <1>2, <1>3, <1>9, <2>2, <3>1, <3>2 DEF Sorted
    <3>3. CASE i = n + 1
      BY <1>1, <1>2, <1>3, <1>9, <2>2, <3>1, <3>3
    <3>4. CASE i > n + 1
      <4>1. i \in Nat /\ j \in Nat /\ Len(queue) \in Nat /\ n \in Nat
            /\ j <= Len(queue) + 1
        BY <1>1, <1>3, <1>9
      <4>2. i - 1 \in 1 .. Len(queue) /\ j - 1 \in 1 .. Len(queue) /\ i - 1 < j - 1
        BY <2>2, <3>4, <4>1
      <4>3. ~(i <= n) /\ ~(i = n + 1)
        BY <3>4, <4>1
      <4>4. after[i] = queue[i - 1]
        BY <1>9, <4>3
      <4>5. queue[i - 1].key <= queue[j - 1].key
        <5>1. DOMAIN queue = 1 .. Len(queue)
          BY LenProperties
        <5>2. QED
          BY <4>2, <5>1 DEF Sorted
      <4>6. QED
        BY <3>1, <4>4, <4>5
    <3>5. QED
      BY <1>3, <3>2, <3>3, <3>4
  <2>6. QED
    BY <1>3, <2>3, <2>4, <2>5
<1>11. QED
  BY <1>2, <1>9, <1>10 DEF n

(* Seen as a set, the queue gains the entry and nothing else changes.      *)
LEMMA EmplaceMembers ==
  ASSUME NEW queue \in Seq(Entry), Sorted(queue), NEW entry \in Entry
  PROVE  LET after == Emplace(queue, entry) IN
         /\ \A j \in DOMAIN queue : \E k \in DOMAIN after : after[k] = queue[j]
         /\ \E k \in DOMAIN after : after[k] = entry
         /\ \A k \in DOMAIN after :
              after[k] = entry \/ \E j \in DOMAIN queue : after[k] = queue[j]
         /\ (/\ \A j \in DOMAIN queue : queue[j].reader # entry.reader
             /\ \A j, k \in DOMAIN queue : j # k => queue[j].reader # queue[k].reader)
            => \A j, k \in DOMAIN after : j # k => after[j].reader # after[k].reader
<1> DEFINE after == Emplace(queue, entry)
           n == UpperBound(queue, entry.key)
<1>1. /\ n \in 0 .. Len(queue)
      /\ after \in Seq(Entry)
      /\ Len(after) = Len(queue) + 1
      /\ \A i \in 1 .. Len(after) :
           after[i] = IF i <= n THEN queue[i]
                      ELSE IF i = n + 1 THEN entry ELSE queue[i - 1]
  BY EmplaceProperties
<1>2. /\ Len(queue) \in Nat /\ DOMAIN queue = 1 .. Len(queue)
      /\ DOMAIN after = 1 .. Len(after)
  BY <1>1, LenProperties
<1> HIDE DEF after, n
<1>3. \A k \in DOMAIN after :
        \/ k = n + 1 /\ after[k] = entry
        \/ k <= n /\ k \in DOMAIN queue /\ after[k] = queue[k]
        \/ k > n + 1 /\ k - 1 \in DOMAIN queue /\ after[k] = queue[k - 1]
  BY <1>1, <1>2
<1>4. n + 1 \in DOMAIN after /\ after[n + 1] = entry
  BY <1>1, <1>2
<1>5. ASSUME NEW j \in DOMAIN queue
      PROVE  \E k \in DOMAIN after : after[k] = queue[j]
  <2>1. CASE j <= n
    <3>1. j \in DOMAIN after /\ after[j] = queue[j]
      BY <1>1, <1>2, <2>1
    <3>2. QED
      BY <3>1
  <2>2. CASE j > n
    <3>1. j + 1 \in DOMAIN after /\ after[j + 1] = queue[j + 1 - 1] /\ j + 1 - 1 = j
      BY <1>1, <1>2, <2>2
    <3>2. QED
      BY <3>1
  <2>3. QED
    BY <1>1, <1>2, <2>1, <2>2
<1>6. ASSUME \A j \in DOMAIN queue : queue[j].reader # entry.reader,
             \A j, k \in DOMAIN queue : j # k => queue[j].reader # queue[k].reader,
             NEW j \in DOMAIN after, NEW k \in DOMAIN after, j # k
      PROVE  after[j].reader # after[k].reader
  <2>1. n \in Nat /\ j \in Nat /\ k \in Nat
    BY <1>1, <1>2
  <2>2. CASE j = n + 1
    BY <1>3, <1>6, <2>1, <2>2
  <2>3. CASE k = n + 1
    BY <1>3, <1>6, <2>1, <2>3
  <2>4. CASE j # n + 1 /\ k # n + 1
    <3>1. PICK x \in DOMAIN queue :
            /\ after[j] = queue[x]
            /\ x = IF j <= n THEN j ELSE j - 1
      BY <1>3, <2>1, <2>4
    <3>2. PICK y \in DOMAIN queue :
            /\ after[k] = queue[y]
            /\ y = IF k <= n THEN k ELSE k - 1
      BY <1>3, <2>1, <2>4
    <3>3. x # y
      BY <1>6, <2>1, <2>4, <3>1, <3>2
    <3>4. QED
      BY <1>6, <3>1, <3>2, <3>3
  <2>5. QED
    BY <2>2, <2>3, <2>4
<1>7. QED
  BY <1>3, <1>4, <1>5, <1>6 DEF after

-----------------------------------------------------------------------------
(***************************************************************************)
(* The part of the invariant that returnToQueue works on: storage, queue   *)
(* and the place in each file behind its last packet.                      *)
(***************************************************************************)
QueueInv(storage, queue, position) ==
  /\ storage \in Seq(ReaderType)
  /\ queue \in Seq(Entry)
  /\ Sorted(queue)
  /\ \A i \in DOMAIN storage : Coherent(storage[i])
  /\ \A j \in DOMAIN queue :
       /\ queue[j].reader \in DOMAIN storage
       /\ IsNextOf(queue[j], storage[queue[j].reader], position[queue[j].reader])
  /\ \A j, k \in DOMAIN queue : j # k => queue[j].reader # queue[k].reader

(***************************************************************************)
(* returnToQueue of a reader that is not in the queue and stands at its    *)
(* position keeps all that; afterwards the reader is in the queue exactly  *)
(* if there is a record left.                                              *)
(***************************************************************************)
LEMMA ReturnToQueueKeeps ==
  ASSUME NEW storage, NEW queue, NEW position,
         QueueInv(storage, queue, position),
         NEW i \in DOMAIN storage,
         \A j \in DOMAIN queue : queue[j].reader # i,
         position[i] \in Nat,
         IsGood(storage[i].file), storage[i].file.pos = position[i]
  PROVE  LET back == ReturnToQueue(storage, queue, i) IN
         /\ QueueInv(back.storage, back.queue, position)
         /\ Len(back.storage) = Len(storage)
         /\ \A k \in DOMAIN storage : back.storage[k].src = storage[k].src
         /\ \A k \in DOMAIN storage : k # i => back.storage[k] = storage[k]
         /\ \A j \in DOMAIN queue : \E k \in DOMAIN back.queue : back.queue[k] = queue[j]
         /\ \A k \in DOMAIN back.queue :
              back.queue[k].reader = i \/ \E j \in DOMAIN queue : back.queue[k] = queue[j]
         /\ IF HasRecord(storage[i].src, position[i])
            THEN \E k \in DOMAIN back.queue : back.queue[k].reader = i
            ELSE back.queue = queue
<1> DEFINE back == ReturnToQueue(storage, queue, i)
           read == ReadPacket(storage[i])
           entry == [ key    |-> MakeUnixTimeNs(read.packet),
                      packet |-> read.packet,
                      reader |-> i ]
<1>1. /\ storage \in Seq(ReaderType) /\ DOMAIN storage = 1 .. Len(storage)
      /\ Len(storage) \in Nat
      /\ queue \in Seq(Entry)
      /\ i \in 1 .. Len(storage) /\ i \in Nat \ {0}
      /\ Coherent(storage[i])
  BY LenProperties DEF QueueInv
<1>2. storage[i] \in ReaderType
  BY <1>1, ElementOfSeq
<1>3. ASSUME read.reader \in ReaderType, read.reader.src = storage[i].src, Coherent(read.reader)
      PROVE  /\ back.storage \in Seq(ReaderType)
             /\ Len(back.storage) = Len(storage)
             /\ DOMAIN back.storage = DOMAIN storage
             /\ back.storage[i] = read.reader
             /\ \A k \in DOMAIN storage : k # i => back.storage[k] = storage[k]
             /\ \A k \in DOMAIN storage : back.storage[k].src = storage[k].src
             /\ \A k \in DOMAIN storage : Coherent(back.storage[k])
  <2>1. back.storage = [storage EXCEPT ![i] = read.reader]
    BY DEF ReturnToQueue
  <2> HIDE DEF read, back
  <2>2. /\ back.storage \in Seq(ReaderType)
        /\ Len(back.storage) = Len(storage)
        /\ \A k \in 1 .. Len(storage) : back.storage[k] = IF k = i THEN read.reader ELSE storage[k]
    BY <1>1, <1>3, <2>1, ExceptSeq
  <2>3. QED
    BY <1>1, <1>3, <2>2, LenProperties DEF QueueInv
<1>4. CASE HasRecord(storage[i].src, position[i])
  <2>1. /\ read.reader \in ReaderType
        /\ read.reader.src = storage[i].src
        /\ Coherent(read.reader)
        /\ IsGood(read.reader.file)
        /\ read.reader.file.pos = NextRecord(storage[i].src, position[i])
        /\ read.packet \in PacketType
        /\ ~read.packet.isNull
        /\ read.packet.sec * NsPerSec + read.packet.nsec = TimeOf(storage[i].src, position[i])
        /\ read.packet.off = position[i] + HeaderWords
        /\ read.packet.caplen = storage[i].src.data[position[i] + 3]
        /\ read.packet.caplen <= Len(read.reader.buffer)
        /\ SubSeq(read.reader.buffer, 1, read.packet.caplen)
             = SubSeq(storage[i].src.data, read.packet.off + 1,
                      read.packet.off + read.packet.caplen)
    BY <1>1, <1>2, <1>4, ReadPacketNext
  <2>2. back.queue = Emplace(queue, entry)
    BY <2>1 DEF ReturnToQueue
  <2> HIDE DEF read
  <2>3. /\ entry \in Entry /\ entry.reader = i /\ entry.packet = read.packet
        /\ entry.key = TimeOf(storage[i].src, position[i])
    <3>1. MakeUnixTimeNs(read.packet) \in Nat
      <4>1. read.packet.sec \in Nat /\ read.packet.nsec \in Nat /\ NsPerSec \in Nat
        BY <2>1, ReaderAssumption DEF PacketType, Word
      <4>2. read.packet.sec * NsPerSec \in Nat
        BY <4>1
      <4>3. QED
        BY <4>1, <4>2 DEF MakeUnixTimeNs
    <3>2. QED
      BY <1>1, <2>1, <3>1 DEF Entry, MakeUnixTimeNs
  <2>4. IsNextOf(entry, read.reader, position[i])
    BY <1>4, <2>1, <2>3 DEF IsNextOf, Intact
  <2> HIDE DEF entry, back
  <2>5. /\ back.queue \in Seq(Entry)
        /\ Sorted(back.queue)
    BY <1>1, <2>2, <2>3, EmplaceProperties DEF QueueInv
  <2>6. /\ \A j \in DOMAIN queue : \E k \in DOMAIN back.queue : back.queue[k] = queue[j]
        /\ \E k \in DOMAIN back.queue : back.queue[k] = entry
        /\ \A k \in DOMAIN back.queue :
             back.queue[k] = entry \/ \E j \in DOMAIN queue : back.queue[k] = queue[j]
        /\ \A j, k \in DOMAIN back.queue : j # k => back.queue[j].reader # back.queue[k].reader
    <3>1. /\ Sorted(queue)
          /\ \A j \in DOMAIN queue : queue[j].reader # entry.reader
          /\ \A j, k \in DOMAIN queue : j # k => queue[j].reader # queue[k].reader
      BY <2>3 DEF QueueInv
    <3>2. QED
      BY <1>1, <2>2, <2>3, <3>1, EmplaceMembers
  <2>7. ASSUME NEW k \in DOMAIN back.queue
        PROVE  /\ back.queue[k].reader \in DOMAIN back.storage
               /\ IsNextOf(back.queue[k], back.storage[back.queue[k].reader],
                           position[back.queue[k].reader])
    <3>1. CASE back.queue[k] = entry
      BY <1>3, <2>1, <2>3, <2>4, <3>1 DEF back
    <3>2. CASE \E j \in DOMAIN queue : back.queue[k] = queue[j]
      BY <1>3, <2>1, <3>2 DEF QueueInv, back
    <3>3. QED
      BY <2>6, <3>1, <3>2
  <2>8. QED
    BY <1>3, <1>4, <2>1, <2>3, <2>5, <2>6, <2>7 DEF QueueInv, back
<1>5. CASE ~HasRecord(storage[i].src, position[i])
  <2>1. /\ read.reader \in ReaderType
        /\ read.reader.src = storage[i].src
        /\ Coherent(read.reader)
        /\ read.packet.isNull
    BY <1>1, <1>2, <1>5, ReadPacketNone
  <2>2. back.queue = queue
    BY <2>1 DEF ReturnToQueue
  <2> HIDE DEF read, back
  <2>3. QED
    BY <1>3, <1>5, <2>1, <2>2 DEF QueueInv, back
<1>6. QED
  BY <1>4, <1>5

(* The invariant, regrouped around QueueInv.                               *)
LEMMA Regroup ==
  IInv <=> /\ TypeOK
           /\ QueueInv(storage_, queue_, cursor)
           /\ \A j \in DOMAIN queue_ : queue_[j].reader # current_.reader
           /\ CurrentIsLast
           /\ IdleAreDrained
<1>1. TypeOK => /\ DOMAIN storage_ = 1 .. Len(storage_)
                /\ DOMAIN queue_ = 1 .. Len(queue_)
  BY LenProperties DEF TypeOK
<1>2. QED
  BY <1>1 DEF IInv, TypeOK, QueueInv, OneOutstanding, ReadersCoherent, QueueHoldsNext

LEMMA RegroupNext ==
  IInv' <=> /\ TypeOK'
            /\ QueueInv(storage_', queue_', cursor')
            /\ (\A j \in DOMAIN queue_ : queue_[j].reader # current_.reader)'
            /\ CurrentIsLast'
            /\ IdleAreDrained'
<1>1. TypeOK' => /\ DOMAIN storage_' = 1 .. Len(storage_')
                 /\ DOMAIN queue_' = 1 .. Len(queue_')
  BY LenProperties DEF TypeOK
<1>2. QED
  BY <1>1 DEF IInv, TypeOK, QueueInv, OneOutstanding, ReadersCoherent, QueueHoldsNext

(***************************************************************************)
(* After putting back the reader handed out last, every file that has a    *)
(* record left is in the queue.                                            *)
(***************************************************************************)
LEMMA PutBackKeeps ==
  ASSUME IInv
  PROVE  /\ QueueInv(PutBack.storage, PutBack.queue, cursor)
         /\ Len(PutBack.storage) = Len(storage_)
         /\ \A k \in DOMAIN storage_ : PutBack.storage[k].src = storage_[k].src
         /\ \A i \in DOMAIN storage_ :
              HasNext(i) <=> \E k \in DOMAIN PutBack.queue : PutBack.queue[k].reader = i
         /\ \A j \in DOMAIN queue_ :
              \E k \in DOMAIN PutBack.queue : PutBack.queue[k] = queue_[j]
         /\ \A k \in DOMAIN PutBack.queue :
              \/ PutBack.queue[k].reader = current_.reader
              \/ \E j \in DOMAIN queue_ : PutBack.queue[k] = queue_[j]
<1> DEFINE i == current_.reader
           back == PutBack
<1>1. /\ TypeOK /\ QueueInv(storage_, queue_, cursor) /\ IdleAreDrained /\ CurrentIsLast
      /\ \A j \in DOMAIN queue_ : queue_[j].reader # i
      /\ DOMAIN storage_ = 1 .. Len(storage_)
  BY Regroup, LenProperties DEF TypeOK
<1>2. /\ QueueInv(back.storage, back.queue, cursor)
      /\ Len(back.storage) = Len(storage_)
      /\ \A k \in DOMAIN storage_ : back.storage[k].src = storage_[k].src
      /\ \A j \in DOMAIN queue_ : \E k \in DOMAIN back.queue : back.queue[k] = queue_[j]
      /\ \A k \in DOMAIN back.queue :
           \/ back.queue[k].reader = i
           \/ \E j \in DOMAIN queue_ : back.queue[k] = queue_[j]
      /\ i # 0 /\ HasNext(i) => \E k \in DOMAIN back.queue : back.queue[k].reader = i
  <2>1. CASE i = 0
    BY <1>1, <2>1 DEF PutBack
  <2>2. CASE i # 0
    <3>1. back = ReturnToQueue(storage_, queue_, i)
      BY <2>2 DEF PutBack
    <3>2. /\ i \in DOMAIN storage_ /\ cursor[i] \in Nat
          /\ IsGood(storage_[i].file) /\ storage_[i].file.pos = cursor[i]
      <4>1. i \in 1 .. Len(storage_)
        BY <1>1, <2>2 DEF TypeOK
      <4>2. cursor[i] \in Nat
        BY <1>1, <4>1, ElementOfSeq DEF TypeOK
      <4>3. QED
        BY <1>1, <2>2, <4>1, <4>2 DEF CurrentIsLast
    <3> HIDE DEF back, i
    <3>3. QED
      BY <1>1, <3>1, <3>2, ReturnToQueueKeeps DEF HasNext
  <2>3. QED
    BY <2>1, <2>2
<1>3. ASSUME NEW r \in DOMAIN storage_, HasNext(r)
      PROVE  \E k \in DOMAIN back.queue : back.queue[k].reader = r
  BY <1>1, <1>2, <1>3 DEF IdleAreDrained
<1>4. ASSUME NEW k \in DOMAIN back.queue
      PROVE  HasNext(back.queue[k].reader)
  <2>1. /\ back.queue[k].reader \in DOMAIN back.storage
        /\ HasRecord(back.storage[back.queue[k].reader].src, cursor[back.queue[k].reader])
    BY <1>2 DEF QueueInv, IsNextOf
  <2>2. DOMAIN back.storage = DOMAIN storage_
    BY <1>1, <1>2, LenProperties DEF QueueInv
  <2>3. QED
    BY <1>2, <2>1, <2>2 DEF HasNext
<1>5. QED
  BY <1>2, <1>3, <1>4

-----------------------------------------------------------------------------
(* The source starts with nothing, and the invariant holds of nothing.     *)
LEMMA InitInvariant == Init => IInv
<1>1. SUFFICES ASSUME Init PROVE IInv
  OBVIOUS
<1>2. /\ \A S : <<>> \in Seq(S)
      /\ Len(<<>>) = 0 /\ DOMAIN <<>> = {}
  BY EmptySeq
<1>3. 0 \in Word
  BY FileReaderAssumption DEF Word
<1>4. TypeOK
  <2>1. [packet |-> NoPacket, reader |-> 0] \in Context
    BY <1>3 DEF Context, NoPacket, PacketType
  <2>2. current_ \in Context /\ current_.reader \in 0 .. Len(storage_)
    BY <1>1, <1>2, <2>1 DEF Init
  <2>3. depth \in 0 .. MaxDepth
    BY <1>1, SourceAssumption DEF Init
  <2>4. /\ storage_ \in Seq(ReaderType) /\ queue_ \in Seq(Entry)
        /\ since \in Seq(Nat) /\ cursor \in Seq(Nat) /\ delivered \in Seq(Delivery)
        /\ Len(since) = Len(storage_) /\ Len(cursor) = Len(storage_)
        /\ doneCallback_ \in BOOLEAN
    BY <1>1, <1>2 DEF Init
  <2>5. \A k \in 1 .. Len(queue_) : queue_[k].reader \in 1 .. Len(storage_)
    BY <1>1, <1>2 DEF Init
  <2>6. QED
    BY <2>2, <2>3, <2>4, <2>5 DEF TypeOK
<1>5. QED
  BY <1>1, <1>2, <1>4 DEF Init, IInv, OneOutstanding, Sorted, ReadersCoherent,
     QueueHoldsNext, CurrentIsLast, IdleAreDrained

(* Nothing of the invariant depends on the callback or the call depth.     *)
LEMMA KeepsWhenUnchanged ==
  ASSUME IInv, UNCHANGED <<storage_, queue_, current_, since, cursor, delivered>>,
         doneCallback_' \in BOOLEAN, depth' \in 0 .. MaxDepth
  PROVE  IInv'
<1>1. TypeOK'
  BY DEF IInv, TypeOK
<1>2. QED
  BY <1>1 DEF IInv, OneOutstanding, Sorted, ReadersCoherent, QueueHoldsNext, CurrentIsLast,
     IdleAreDrained, HasNext

(* addFile(): the new reader enters the queue unless its file is empty.    *)
LEMMA AddFileKeeps ==
  ASSUME IInv, NEW f \in Contents, AddFile(f)
  PROVE  IInv'
<1> DEFINE i == Len(storage_) + 1
           grown == Append(storage_, NewReader(f))
           added == ReturnToQueue(grown, queue_, i)
<1>1. /\ TypeOK /\ QueueInv(storage_, queue_, cursor) /\ CurrentIsLast /\ IdleAreDrained
      /\ \A j \in DOMAIN queue_ : queue_[j].reader # current_.reader
  BY Regroup
<1>2. /\ Len(storage_) \in Nat /\ DOMAIN storage_ = 1 .. Len(storage_)
      /\ Len(cursor) = Len(storage_) /\ DOMAIN queue_ = 1 .. Len(queue_)
      /\ \A k \in DOMAIN storage_ : cursor[k] \in Nat
  BY <1>1, LenProperties, ElementOfSeq DEF TypeOK
<1>3. /\ NewReader(f) \in ReaderType /\ NewReader(f).src = f
      /\ NewReader(f).file.pos = 0 /\ IsGood(NewReader(f).file) /\ Coherent(NewReader(f))
  BY NewReaderType, SourceAssumption
<1>4. /\ storage_' = added.storage /\ queue_' = added.queue
      /\ since' = Append(since, Len(delivered)) /\ cursor' = Append(cursor, 0)
      /\ UNCHANGED <<current_, doneCallback_, depth, delivered>>
  BY DEF AddFile
<1>5. /\ grown \in Seq(ReaderType) /\ Len(grown) = i /\ DOMAIN grown = 1 .. i
      /\ grown[i] = NewReader(f)
      /\ \A k \in DOMAIN storage_ : grown[k] = storage_[k]
  BY <1>1, <1>2, <1>3, AppendProperties, LenProperties DEF TypeOK
<1>6. /\ cursor' \in Seq(Nat) /\ Len(cursor') = i
      /\ cursor'[i] = 0
      /\ \A k \in DOMAIN storage_ : cursor'[k] = cursor[k]
  BY <1>1, <1>2, <1>4, AppendProperties DEF TypeOK
<1>7. since' \in Seq(Nat) /\ Len(since') = i
  <2>1. Len(delivered) \in Nat
    BY <1>1, LenProperties DEF TypeOK
  <2>2. QED
    BY <1>1, <1>2, <1>4, <2>1, AppendProperties DEF TypeOK
<1> HIDE DEF grown
<1>8. QueueInv(grown, queue_, cursor')
  <2>1. \A k \in DOMAIN grown : Coherent(grown[k])
    <3>1. \A k \in DOMAIN grown : k \in DOMAIN storage_ \/ k = i
      BY <1>2, <1>5
    <3>2. QED
      BY <1>1, <1>3, <1>5, <3>1 DEF QueueInv
  <2>2. ASSUME NEW j \in DOMAIN queue_
        PROVE  /\ queue_[j].reader \in DOMAIN grown
               /\ IsNextOf(queue_[j], grown[queue_[j].reader], cursor'[queue_[j].reader])
    <3>1. /\ queue_[j].reader \in DOMAIN storage_
          /\ IsNextOf(queue_[j], storage_[queue_[j].reader], cursor[queue_[j].reader])
      BY <1>1 DEF QueueInv
    <3>2. queue_[j].reader \in DOMAIN grown
      BY <1>2, <1>5, <3>1
    <3>3. /\ grown[queue_[j].reader] = storage_[queue_[j].reader]
          /\ cursor'[queue_[j].reader] = cursor[queue_[j].reader]
      BY <1>5, <1>6, <3>1
    <3>4. QED
      BY <3>1, <3>2, <3>3
  <2>3. QED
    BY <1>1, <1>5, <2>1, <2>2 DEF QueueInv
<1>9. /\ QueueInv(added.storage, added.queue, cursor')
      /\ Len(added.storage) = i
      /\ \A k \in DOMAIN grown : added.storage[k].src = grown[k].src
      /\ \A k \in DOMAIN grown : k # i => added.storage[k] = grown[k]
      /\ \A j \in DOMAIN queue_ : \E k \in DOMAIN added.queue : added.queue[k] = queue_[j]
      /\ \A k \in DOMAIN added.queue :
           \/ added.queue[k].reader = i
           \/ \E j \in DOMAIN queue_ : added.queue[k] = queue_[j]
      /\ HasRecord(grown[i].src, cursor'[i]) =>
           \E k \in DOMAIN added.queue : added.queue[k].reader = i
  <2>1. \A j \in DOMAIN queue_ : queue_[j].reader # i
    BY <1>1, <1>2 DEF QueueInv
  <2>2. i \in DOMAIN grown /\ cursor'[i] \in Nat /\ IsGood(grown[i].file)
        /\ grown[i].file.pos = cursor'[i]
    BY <1>2, <1>3, <1>5, <1>6
  <2>3. added = ReturnToQueue(grown, queue_, i) /\ Len(grown) = i
    BY <1>5
  <2> HIDE DEF i, added
  <2>4. QED
    BY <1>8, <2>1, <2>2, <2>3, ReturnToQueueKeeps
<1> HIDE DEF added
<1>10. DOMAIN storage_' = 1 .. i /\ DOMAIN queue_' = 1 .. Len(queue_')
  BY <1>4, <1>9, LenProperties DEF QueueInv
<1>11. TypeOK'
  <2>1. storage_' \in Seq(ReaderType) /\ queue_' \in Seq(Entry) /\ Len(storage_') = i
    BY <1>4, <1>9 DEF QueueInv
  <2>2. \A k \in 1 .. Len(queue_') : queue_'[k].reader \in 1 .. Len(storage_')
    BY <1>4, <1>9, <1>10, <2>1 DEF QueueInv
  <2>3. current_' \in Context /\ current_'.reader \in 0 .. Len(storage_')
    BY <1>1, <1>2, <1>4, <2>1 DEF TypeOK
  <2>4. QED
    BY <1>1, <1>4, <1>6, <1>7, <2>1, <2>2, <2>3 DEF TypeOK
<1>12. \A j \in DOMAIN queue_' : queue_'[j].reader # current_'.reader
  BY <1>1, <1>2, <1>4, <1>9 DEF TypeOK
<1>13. CurrentIsLast'
  <2>1. SUFFICES ASSUME current_.reader # 0
                 PROVE  /\ IsGood(storage_'[current_.reader].file)
                        /\ storage_'[current_.reader].file.pos = cursor'[current_.reader]
                        /\ Intact(current_.packet, storage_'[current_.reader])
    BY <1>4 DEF CurrentIsLast
  <2>2. /\ current_.reader \in DOMAIN storage_ /\ current_.reader # i
        /\ current_.reader \in DOMAIN grown
    BY <1>1, <1>2, <1>5, <2>1 DEF TypeOK
  <2>3. /\ storage_'[current_.reader] = storage_[current_.reader]
        /\ cursor'[current_.reader] = cursor[current_.reader]
    BY <1>4, <1>5, <1>6, <1>9, <2>2
  <2>4. QED
    BY <1>1, <2>1, <2>3 DEF CurrentIsLast
<1>14. IdleAreDrained'
  <2>1. SUFFICES ASSUME NEW k \in 1 .. i, HasRecord(storage_'[k].src, cursor'[k])
                 PROVE  \/ current_'.reader = k
                        \/ \E j \in DOMAIN queue_' : queue_'[j].reader = k
    BY <1>10 DEF IdleAreDrained, HasNext
  <2>2. CASE k = i
    BY <1>4, <1>5, <1>9, <2>1, <2>2
  <2>3. CASE k # i
    <3>1. k \in DOMAIN storage_ /\ k \in DOMAIN grown
      BY <1>2, <1>5, <2>3
    <3>2. HasNext(k)
      BY <1>4, <1>5, <1>6, <1>9, <2>1, <3>1 DEF HasNext
    <3>3. current_.reader = k \/ \E j \in DOMAIN queue_ : queue_[j].reader = k
      BY <1>1, <3>1, <3>2 DEF IdleAreDrained
    <3>4. QED
      BY <1>4, <1>9, <3>3
  <2>4. QED
    BY <2>2, <2>3
<1>15. QED
  BY <1>4, <1>9, <1>11, <1>12, <1>13, <1>14, RegroupNext

(***************************************************************************)
(* readNextPacket() with a packet: the first entry of the queue is the     *)
(* next record of its file; it leaves the queue for current_.              *)
(***************************************************************************)
LEMMA ReadAvailableKeeps ==
  ASSUME IInv, ReadAvailable
  PROVE  IInv'
<1> DEFINE back == PutBack
           front == Head(back.queue)
           r == front.reader
<1>1. TypeOK
  BY DEF IInv
<1>2. /\ QueueInv(back.storage, back.queue, cursor)
      /\ Len(back.storage) = Len(storage_)
      /\ \A k \in DOMAIN storage_ : back.storage[k].src = storage_[k].src
      /\ \A k \in DOMAIN storage_ :
           HasNext(k) <=> \E j \in DOMAIN back.queue : back.queue[j].reader = k
  BY PutBackKeeps
<1>3. /\ back.queue # <<>>
      /\ storage_' = back.storage /\ queue_' = Tail(back.queue)
      /\ current_' = [packet |-> front.packet, reader |-> r]
      /\ cursor' = [cursor EXCEPT ![r] = front.packet.off + front.packet.caplen]
      /\ delivered' = Append(delivered, [ reader |-> r, off |-> front.packet.off,
                                          key |-> front.key ])
      /\ UNCHANGED <<doneCallback_, depth, since>>
  BY DEF ReadAvailable, Deliver
<1> HIDE DEF back
<1>4. /\ back.queue \in Seq(Entry) /\ Len(back.queue) \in Nat /\ Len(back.queue) > 0
      /\ DOMAIN back.queue = 1 .. Len(back.queue)
      /\ DOMAIN storage_ = 1 .. Len(storage_) /\ DOMAIN back.storage = 1 .. Len(storage_)
      /\ Len(storage_) \in Nat
      /\ back.storage \in Seq(ReaderType)
  <2>1. /\ storage_ \in Seq(ReaderType) /\ back.storage \in Seq(ReaderType)
        /\ back.queue \in Seq(Entry) /\ Len(back.storage) = Len(storage_)
    BY <1>1, <1>2 DEF QueueInv, TypeOK
  <2>2. Len(back.queue) \in Nat /\ DOMAIN back.queue = 1 .. Len(back.queue)
    BY <2>1, LenProperties
  <2>3. /\ DOMAIN storage_ = 1 .. Len(storage_) /\ Len(storage_) \in Nat
        /\ DOMAIN back.storage = 1 .. Len(back.storage)
    BY <2>1, LenProperties
  <2>4. Len(back.queue) # 0
    BY <1>3, <2>1, EmptySeq
  <2>5. QED
    BY <2>1, <2>2, <2>3, <2>4
<1>5. /\ front = back.queue[1] /\ 1 \in DOMAIN back.queue
      /\ queue_' \in Seq(Entry)
      /\ Len(queue_') = Len(back.queue) - 1
      /\ DOMAIN queue_' = 1 .. Len(queue_')
      /\ \A j \in DOMAIN queue_' : j + 1 \in DOMAIN back.queue /\ queue_'[j] = back.queue[j + 1]
  <2>1. /\ queue_' \in Seq(Entry)
        /\ Len(queue_') = Len(back.queue) - 1
        /\ \A j \in 1 .. Len(queue_') : queue_'[j] = back.queue[j + 1]
    BY <1>3, <1>4, HeadTailProperties
  <2>2. DOMAIN queue_' = 1 .. Len(queue_')
    BY <2>1, LenProperties
  <2>3. front = back.queue[1]
    BY <1>3, <1>4
  <2>4. QED
    BY <1>4, <2>1, <2>2, <2>3
<1>6. /\ front \in Entry /\ r \in DOMAIN storage_ /\ r \in Nat \ {0}
      /\ IsNextOf(front, back.storage[r], cursor[r])
  <2>1. front \in Entry
    BY <1>4, <1>5, ElementOfSeq
  <2>2. QED
    BY <1>2, <1>4, <1>5, <2>1 DEF QueueInv, Entry
<1> HIDE DEF front, r
<1>7. /\ front.packet \in PacketType /\ front.packet.off \in Nat /\ front.packet.caplen \in Nat
      /\ front.key \in Nat /\ front.reader = r
  BY <1>6 DEF Entry, PacketType, Word, r
<1>8. /\ cursor' \in Seq(Nat) /\ Len(cursor') = Len(storage_)
      /\ cursor'[r] = front.packet.off + front.packet.caplen
      /\ \A k \in DOMAIN storage_ : k # r => cursor'[k] = cursor[k]
  <2>1. cursor \in Seq(Nat) /\ Len(cursor) = Len(storage_)
    BY <1>1 DEF TypeOK
  <2>2. front.packet.off + front.packet.caplen \in Nat
    BY <1>7
  <2>3. r \in 1 .. Len(cursor)
    BY <1>4, <1>6, <2>1
  <2>4. QED
    BY <1>3, <1>4, <2>1, <2>2, <2>3, ExceptSeq
<1>9. \A j \in DOMAIN queue_' : queue_'[j].reader # r
  <2>1. SUFFICES ASSUME NEW j \in DOMAIN queue_' PROVE back.queue[j + 1].reader # back.queue[1].reader
    BY <1>5, <1>7
  <2>2. j + 1 \in DOMAIN back.queue /\ j + 1 # 1
    BY <1>5, <2>1
  <2>3. QED
    BY <1>2, <1>5, <2>2 DEF QueueInv
<1>10. TypeOK'
  <2>1. delivered' \in Seq(Delivery)
    <3>1. [reader |-> r, off |-> front.packet.off, key |-> front.key] \in Delivery
      BY <1>6, <1>7 DEF Delivery
    <3>2. QED
      BY <1>1, <1>3, <3>1, AppendProperties DEF TypeOK
  <2>2. current_' \in Context /\ current_'.reader \in 0 .. Len(storage_')
    BY <1>2, <1>3, <1>4, <1>6, <1>7 DEF Context
  <2>3. \A j \in 1 .. Len(queue_') : queue_'[j].reader \in 1 .. Len(storage_')
    <3>1. \A j \in DOMAIN back.queue : back.queue[j].reader \in 1 .. Len(storage_)
      BY <1>2, <1>4 DEF QueueInv
    <3>2. Len(storage_') = Len(storage_)
      BY <1>2, <1>3
    <3>3. QED
      BY <1>5, <3>1, <3>2
  <2>4. /\ doneCallback_' \in BOOLEAN /\ depth' \in 0 .. MaxDepth
        /\ since' \in Seq(Nat) /\ Len(since') = Len(storage_')
    BY <1>1, <1>2, <1>3 DEF TypeOK
  <2>5. QED
    BY <1>2, <1>3, <1>4, <1>5, <1>8, <2>1, <2>2, <2>3, <2>4 DEF TypeOK
<1>11. QueueInv(storage_', queue_', cursor')
  <2>1. Sorted(queue_')
    <3>1. SUFFICES ASSUME NEW j \in DOMAIN queue_', NEW k \in DOMAIN queue_', j < k
                   PROVE  queue_'[j].key <= queue_'[k].key
      BY DEF Sorted
    <3>2. j + 1 < k + 1
      BY <1>5, <3>1
    <3>3. QED
      BY <1>2, <1>5, <3>2 DEF QueueInv, Sorted
  <2>2. ASSUME NEW j \in DOMAIN queue_'
        PROVE  /\ queue_'[j].reader \in DOMAIN storage_'
               /\ IsNextOf(queue_'[j], storage_'[queue_'[j].reader], cursor'[queue_'[j].reader])
    <3>1. /\ queue_'[j].reader \in DOMAIN back.storage
          /\ IsNextOf(queue_'[j], back.storage[queue_'[j].reader], cursor[queue_'[j].reader])
      BY <1>2, <1>5 DEF QueueInv
    <3>2. cursor'[queue_'[j].reader] = cursor[queue_'[j].reader]
      BY <1>4, <1>8, <1>9, <3>1
    <3>3. QED
      BY <1>3, <3>1, <3>2
  <2>3. ASSUME NEW j \in DOMAIN queue_', NEW k \in DOMAIN queue_', j # k
        PROVE  queue_'[j].reader # queue_'[k].reader
    <3>1. j + 1 # k + 1
      BY <1>5, <2>3
    <3>2. QED
      BY <1>2, <1>5, <3>1 DEF QueueInv
  <2>4. QED
    BY <1>2, <1>3, <1>5, <2>1, <2>2, <2>3 DEF QueueInv
<1>12. (\A j \in DOMAIN queue_ : queue_[j].reader # current_.reader)'
  BY <1>3, <1>9
<1>13. CurrentIsLast'
  <2>1. cursor'[r] = NextRecord(back.storage[r].src, cursor[r])
    <3>1. cursor[r] \in Nat
      BY <1>1, <1>4, <1>6, ElementOfSeq DEF TypeOK
    <3>2. QED
      BY <1>6, <1>8, <3>1 DEF IsNextOf, NextRecord
  <2>2. /\ IsGood(storage_'[r].file) /\ storage_'[r].file.pos = cursor'[r]
        /\ Intact(front.packet, storage_'[r])
    BY <1>3, <1>6, <2>1 DEF IsNextOf
  <2>3. QED
    BY <1>3, <2>2 DEF CurrentIsLast
<1>14. IdleAreDrained'
  <2>1. SUFFICES ASSUME NEW k \in DOMAIN storage_, HasRecord(storage_'[k].src, cursor'[k]), k # r
                 PROVE  \E j \in DOMAIN queue_' : queue_'[j].reader = k
    BY <1>3, <1>4 DEF IdleAreDrained, HasNext
  <2>2. HasNext(k)
    BY <1>2, <1>3, <1>8, <2>1 DEF HasNext
  <2>3. PICK j \in DOMAIN back.queue : back.queue[j].reader = k
    BY <1>2, <2>2
  <2>4. j # 1
    BY <1>5, <1>7, <2>1, <2>3
  <2>5. j - 1 \in DOMAIN queue_' /\ queue_'[j - 1] = back.queue[j - 1 + 1] /\ j - 1 + 1 = j
    BY <1>4, <1>5, <2>3, <2>4
  <2>6. QED
    BY <2>3, <2>5
<1>15. QED
  BY <1>10, <1>11, <1>12, <1>13, <1>14, RegroupNext

(* readNextPacket() without: nothing was waiting and nothing is left.      *)
LEMMA ReadExhaustedKeeps ==
  ASSUME IInv, ReadExhausted
  PROVE  IInv'
<1> DEFINE back == PutBack
<1>1. TypeOK /\ DOMAIN storage_ = 1 .. Len(storage_)
  BY LenProperties DEF IInv, TypeOK
<1>2. /\ QueueInv(back.storage, back.queue, cursor)
      /\ Len(back.storage) = Len(storage_)
      /\ \A k \in DOMAIN storage_ : back.storage[k].src = storage_[k].src
      /\ \A k \in DOMAIN storage_ :
           HasNext(k) <=> \E j \in DOMAIN back.queue : back.queue[j].reader = k
      /\ \A j \in DOMAIN queue_ : \E k \in DOMAIN back.queue : back.queue[k] = queue_[j]
  BY PutBackKeeps
<1>3. /\ back.queue = <<>> /\ depth < MaxDepth
      /\ storage_' = back.storage
      /\ current_' = [current_ EXCEPT !.reader = 0]
      /\ depth' = IF doneCallback_ THEN depth + 1 ELSE depth
      /\ UNCHANGED <<queue_, doneCallback_, since, cursor, delivered>>
  BY DEF ReadExhausted, Exhausted
<1> HIDE DEF back
<1>4. DOMAIN back.queue = {}
  BY <1>3, EmptySeq
<1>5. queue_ = <<>>
  <2>1. DOMAIN queue_ = {}
    BY <1>2, <1>4
  <2>2. queue_ \in Seq(Entry) /\ DOMAIN queue_ = 1 .. Len(queue_) /\ Len(queue_) \in Nat
    BY <1>1, LenProperties DEF TypeOK
  <2>3. Len(queue_) = 0
    BY <2>1, <2>2
  <2>4. QED
    BY <2>2, <2>3, EmptySeq
<1>6. DOMAIN storage_' = 1 .. Len(storage_)
  BY <1>2, <1>3, LenProperties DEF QueueInv
<1>7. TypeOK'
  <2>1. current_' \in Context /\ current_'.reader = 0
    BY <1>1, <1>3 DEF TypeOK, Context
  <2>2. depth' \in 0 .. MaxDepth
    BY <1>1, <1>3, SourceAssumption DEF TypeOK
  <2>3. storage_' \in Seq(ReaderType) /\ Len(storage_') = Len(storage_) /\ Len(storage_) \in Nat
    BY <1>1, <1>2, <1>3, LenProperties DEF QueueInv, TypeOK
  <2>4. QED
    BY <1>1, <1>3, <2>1, <2>2, <2>3 DEF TypeOK
<1>8. QueueInv(storage_', queue_', cursor')
  BY <1>2, <1>3, <1>5
<1>9. (\A j \in DOMAIN queue_ : queue_[j].reader # current_.reader)'
  BY <1>3, <1>4, <1>5
<1>10. CurrentIsLast'
  BY <1>1, <1>3 DEF CurrentIsLast, TypeOK, Context
<1>11. IdleAreDrained'
  BY <1>1, <1>2, <1>3, <1>4, <1>6 DEF IdleAreDrained, HasNext
<1>12. QED
  BY <1>7, <1>8, <1>9, <1>10, <1>11, RegroupNext

LEMMA StepKeeps == IInv /\ [Next]_vars => IInv'
<1>1. SUFFICES ASSUME IInv, [Next]_vars PROVE IInv'
  OBVIOUS
<1>2. ASSUME NEW f \in Contents, AddFile(f) PROVE IInv'
  BY <1>1, <1>2, AddFileKeeps
<1>3. CASE ReadNextPacket
  BY <1>1, <1>3, ReadAvailableKeeps, ReadExhaustedKeeps DEF ReadNextPacket
<1>4. CASE CallbackReturns
  <2>1. depth' \in 0 .. MaxDepth /\ doneCallback_' \in BOOLEAN
    BY <1>1, <1>4, SourceAssumption DEF CallbackReturns, IInv, TypeOK
  <2>2. QED
    BY <1>1, <1>4, <2>1, KeepsWhenUnchanged DEF CallbackReturns
<1>5. ASSUME NEW installed \in BOOLEAN, SetDoneCallback(installed) PROVE IInv'
  <2>1. depth' \in 0 .. MaxDepth /\ doneCallback_' \in BOOLEAN
    BY <1>1, <1>5, SourceAssumption DEF SetDoneCallback, IInv, TypeOK
  <2>2. QED
    BY <1>1, <1>5, <2>1, KeepsWhenUnchanged DEF SetDoneCallback
<1>6. CASE UNCHANGED vars
  <2>1. depth' \in 0 .. MaxDepth /\ doneCallback_' \in BOOLEAN
    BY <1>1, <1>6 DEF vars, IInv, TypeOK
  <2>2. QED
    BY <1>1, <1>6, <2>1, KeepsWhenUnchanged DEF vars
<1>7. QED
  BY <1>1, <1>2, <1>3, <1>4, <1>5, <1>6 DEF Next

-----------------------------------------------------------------------------
(***************************************************************************)
(* The inductive invariant, for every set of files, however many are added *)
(* and however deeply callbacks nest.                                      *)
(***************************************************************************)
THEOREM Invariance == Spec => []IInv
BY InitInvariant, StepKeeps, PTL DEF Spec

(* Every variable keeps its type: no reader pointer dangles, no time stamp *)
(* or length leaves its word.                                              *)
THEOREM TypeCorrect == Spec => []TypeOK
<1>1. IInv => TypeOK
  BY DEF IInv
<1>2. QED
  BY <1>1, Invariance, PTL

(* No reader ever has two packets outstanding in its one buffer.           *)
THEOREM OneOutstandingAlways == Spec => []OneOutstanding
<1>1. IInv => OneOutstanding
  BY DEF IInv
<1>2. QED
  BY <1>1, Invariance, PTL

(* A packet's bytes stay what the file holds until the next call of        *)
(* readNextPacket(), while it waits in the queue and in the user's hands.  *)
THEOREM BuffersStayIntact == Spec => []BuffersIntact
<1>1. IInv => BuffersIntact
  BY DEF IInv, BuffersIntact, QueueHoldsNext, IsNextOf, CurrentIsLast
<1>2. QED
  BY <1>1, Invariance, PTL

(* When isDone() holds, every record of every file was handed out.         *)
THEOREM DoneOnlyWhenDrained == Spec => []DoneMeansDrained
<1>1. IInv => DoneMeansDrained
  <2>1. SUFFICES ASSUME IInv, IsDone, NEW i \in DOMAIN storage_, HasNext(i)
                 PROVE  FALSE
    BY DEF DoneMeansDrained
  <2>2. TypeOK /\ queue_ = <<>> /\ current_.reader = 0 /\ DOMAIN storage_ = 1 .. Len(storage_)
    BY <2>1, LenProperties DEF IInv, IsDone, TypeOK
  <2>3. current_.reader = i \/ \E j \in DOMAIN queue_ : queue_[j].reader = i
    BY <2>1 DEF IInv, IdleAreDrained
  <2>4. QED
    BY <2>1, <2>2, <2>3, EmptySeq
<1>2. QED
  BY <1>1, Invariance, PTL

-----------------------------------------------------------------------------
(***************************************************************************)
(* The packet source implements the abstract merge, and its output is in   *)
(* the order of time, for any files, readers and callbacks.                *)
(***************************************************************************)

(* The queue is an entry for each file with a record left, but the one     *)
(* handed out: the source is done when nothing is left at all.             *)
LEMMA DoneMeansNothingLeft ==
  IInv => (IsDone <=> current_.reader = 0 /\ \A i \in DOMAIN storage_ : ~HasNext(i))
<1>1. SUFFICES ASSUME IInv, current_.reader = 0
               PROVE  queue_ = <<>> <=> \A i \in DOMAIN storage_ : ~HasNext(i)
  BY DEF IsDone
<1>2. /\ queue_ \in Seq(Entry) /\ DOMAIN queue_ = 1 .. Len(queue_) /\ Len(queue_) \in Nat
      /\ DOMAIN storage_ = 1 .. Len(storage_)
      /\ \A j \in DOMAIN queue_ : queue_[j].reader \in DOMAIN storage_
  BY <1>1, LenProperties DEF IInv, TypeOK
<1>3. queue_ = <<>> <=> DOMAIN queue_ = {}
  <2>1. DOMAIN queue_ = {} <=> Len(queue_) = 0
    BY <1>2
  <2>2. QED
    BY <1>2, <2>1, EmptySeq
<1>4. \A j \in DOMAIN queue_ : HasNext(queue_[j].reader)
  BY <1>1 DEF IInv, QueueHoldsNext, IsNextOf, HasNext
<1>5. \A i \in DOMAIN storage_ : HasNext(i) => \E j \in DOMAIN queue_ : queue_[j].reader = i
  <2>1. \A i \in DOMAIN storage_ : i # 0
    BY <1>2
  <2>2. QED
    BY <1>1, <2>1 DEF IInv, IdleAreDrained
<1>6. QED
  BY <1>2, <1>3, <1>4, <1>5

(***************************************************************************)
(* What the three kinds of step do to the files and the places in them.    *)
(***************************************************************************)
LEMMA ReturnedSource ==
  ASSUME NEW r \in ReaderType
  PROVE  ReadPacket(r).reader.src = r.src
BY DEF ReadPacket, ReaderType

SourcesStay ==
  /\ Len(storage_') = Len(storage_)
  /\ DOMAIN storage_' = DOMAIN storage_
  /\ \A i \in DOMAIN storage_ : storage_'[i].src = storage_[i].src

LEMMA PutBackSources ==
  ASSUME IInv, storage_' = PutBack.storage
  PROVE  SourcesStay
<1>1. /\ Len(storage_') = Len(storage_) /\ storage_' \in Seq(ReaderType)
      /\ \A k \in DOMAIN storage_ : storage_'[k].src = storage_[k].src
  BY PutBackKeeps DEF QueueInv
<1>2. storage_ \in Seq(ReaderType)
  BY DEF IInv, TypeOK
<1>3. DOMAIN storage_' = DOMAIN storage_
  BY <1>1, <1>2, LenProperties
<1>4. QED
  BY <1>1, <1>3 DEF SourcesStay

LEMMA AddingFiles ==
  ASSUME IInv, NEW f \in Contents, AddFile(f)
  PROVE  LET n == Len(storage_) IN
         /\ n \in Nat /\ Len(storage_') = n + 1
         /\ DOMAIN storage_ = 1 .. n /\ DOMAIN storage_' = 1 .. n + 1
         /\ storage_'[n + 1].src = f
         /\ \A i \in 1 .. n : storage_'[i].src = storage_[i].src
         /\ cursor' = Append(cursor, 0) /\ since' = Append(since, Len(delivered))
         /\ cursor'[n + 1] = 0 /\ since'[n + 1] = Len(delivered)
         /\ \A i \in 1 .. n : cursor'[i] = cursor[i] /\ since'[i] = since[i]
         /\ UNCHANGED <<current_, delivered>>
<1> DEFINE n == Len(storage_)
           grown == Append(storage_, NewReader(f))
<1>1. /\ storage_ \in Seq(ReaderType) /\ n \in Nat /\ DOMAIN storage_ = 1 .. n
      /\ cursor \in Seq(Nat) /\ Len(cursor) = n
      /\ since \in Seq(Nat) /\ Len(since) = n
      /\ Len(delivered) \in Nat
  BY LenProperties DEF IInv, TypeOK
<1>2. NewReader(f) \in ReaderType /\ NewReader(f).src = f
  BY NewReaderType, SourceAssumption
<1>3. /\ grown \in Seq(ReaderType) /\ Len(grown) = n + 1 /\ DOMAIN grown = 1 .. n + 1
      /\ grown[n + 1] = NewReader(f)
      /\ \A i \in 1 .. n : grown[i] = storage_[i]
  BY <1>1, <1>2, AppendProperties, LenProperties
<1>4. /\ storage_' = [grown EXCEPT ![n + 1] = ReadPacket(grown[n + 1]).reader]
      /\ cursor' = Append(cursor, 0) /\ since' = Append(since, Len(delivered))
      /\ UNCHANGED <<current_, delivered>>
  BY DEF AddFile, ReturnToQueue
<1> HIDE DEF grown
<1>5. n + 1 \in DOMAIN grown /\ \A i \in 1 .. n : i \in DOMAIN grown /\ i # n + 1
  BY <1>1, <1>3
<1>6. /\ DOMAIN storage_' = 1 .. n + 1
      /\ storage_'[n + 1].src = f
      /\ \A i \in 1 .. n : storage_'[i].src = storage_[i].src
  BY <1>2, <1>3, <1>4, <1>5, ReturnedSource
<1>7. Len(storage_') = n + 1
  <2>1. storage_' \in Seq(ReaderType)
    BY AddFileKeeps DEF IInv, TypeOK
  <2>2. Len(storage_') \in Nat /\ DOMAIN storage_' = 1 .. Len(storage_')
    BY <2>1, LenProperties
  <2>3. QED
    BY <1>1, <1>6, <2>2
<1>8. /\ cursor'[n + 1] = 0 /\ \A i \in 1 .. n : cursor'[i] = cursor[i]
      /\ since'[n + 1] = Len(delivered) /\ \A i \in 1 .. n : since'[i] = since[i]
  BY <1>1, <1>4, AppendProperties
<1>9. QED
  BY <1>1, <1>4, <1>6, <1>7, <1>8

(* The record handed out is the next one of its file, and no file has an   *)
(* earlier one.                                                            *)
Hands(r, delivery) ==
  /\ r \in DOMAIN storage_
  /\ HasNext(r)
  /\ \A k \in DOMAIN storage_ :
       HasNext(k) =>
         TimeOf(storage_[r].src, cursor[r]) <= TimeOf(storage_[k].src, cursor[k])
  /\ cursor' = [cursor EXCEPT ![r] = NextRecord(storage_[r].src, cursor[r])]
  /\ delivery \in Delivery
  /\ delivery.reader = r
  /\ delivery.key = TimeOf(storage_[r].src, cursor[r])
  /\ delivered' = Append(delivered, delivery)
  /\ current_'.reader = r
  /\ since' = since
  /\ SourcesStay

LEMMA HandingOut ==
  ASSUME IInv, ReadAvailable
  PROVE  \E r, delivery : Hands(r, delivery)
<1> DEFINE back == PutBack
           front == Head(back.queue)
           r == front.reader
           delivery == [reader |-> r, off |-> front.packet.off, key |-> front.key]
<1>1. TypeOK
  BY DEF IInv
<1>2. /\ QueueInv(back.storage, back.queue, cursor)
      /\ Len(back.storage) = Len(storage_)
      /\ \A k \in DOMAIN storage_ : back.storage[k].src = storage_[k].src
      /\ \A k \in DOMAIN storage_ :
           HasNext(k) <=> \E j \in DOMAIN back.queue : back.queue[j].reader = k
  BY PutBackKeeps
<1>3. /\ back.queue # <<>>
      /\ storage_' = back.storage
      /\ current_' = [packet |-> front.packet, reader |-> r]
      /\ cursor' = [cursor EXCEPT ![r] = front.packet.off + front.packet.caplen]
      /\ delivered' = Append(delivered, delivery)
      /\ since' = since
  BY DEF ReadAvailable, Deliver
<1>4. SourcesStay
  BY <1>3, PutBackSources
<1> HIDE DEF back
<1>5. /\ back.queue \in Seq(Entry) /\ Len(back.queue) \in Nat /\ Len(back.queue) > 0
      /\ DOMAIN back.queue = 1 .. Len(back.queue)
  <2>1. back.queue \in Seq(Entry)
    BY <1>2 DEF QueueInv
  <2>2. QED
    BY <1>3, <2>1, LenProperties, EmptySeq
<1>6. front = back.queue[1] /\ 1 \in DOMAIN back.queue /\ front \in Entry
  <2>1. front = back.queue[1] /\ 1 \in 1 .. Len(back.queue)
    BY <1>3, <1>5
  <2>2. QED
    BY <1>5, <2>1, ElementOfSeq
<1> HIDE DEF front
<1>7. /\ DOMAIN back.storage = DOMAIN storage_ /\ DOMAIN storage_ = 1 .. Len(storage_)
      /\ \A k \in DOMAIN storage_ : cursor[k] \in Nat
  BY <1>1, <1>2, LenProperties, ElementOfSeq DEF QueueInv, TypeOK
<1>8. \A j \in DOMAIN back.queue :
        LET k == back.queue[j].reader
        IN  k \in DOMAIN storage_ /\ back.queue[j].key = TimeOf(storage_[k].src, cursor[k])
  <2>1. SUFFICES ASSUME NEW j \in DOMAIN back.queue, NEW k, k = back.queue[j].reader
                 PROVE  /\ k \in DOMAIN storage_
                        /\ back.queue[j].key = TimeOf(storage_[k].src, cursor[k])
    OBVIOUS
  <2>2. k \in DOMAIN storage_ /\ IsNextOf(back.queue[j], back.storage[k], cursor[k])
    BY <1>2, <1>7, <2>1 DEF QueueInv
  <2>3. back.queue[j].key = TimeOf(back.storage[k].src, cursor[k])
    BY <2>2 DEF IsNextOf
  <2>4. QED
    BY <1>2, <2>2, <2>3
<1>9. /\ r \in DOMAIN storage_ /\ HasNext(r)
      /\ front.key = TimeOf(storage_[r].src, cursor[r])
  BY <1>2, <1>6, <1>8
<1>10. ASSUME NEW k \in DOMAIN storage_, HasNext(k)
       PROVE  front.key <= TimeOf(storage_[k].src, cursor[k])
  <2>1. PICK j \in DOMAIN back.queue : back.queue[j].reader = k
    BY <1>2, <1>10
  <2>2. back.queue[j].key = TimeOf(storage_[k].src, cursor[k])
    BY <1>8, <2>1
  <2>3. j = 1 \/ 1 < j
    BY <1>5
  <2>4. front.key <= back.queue[j].key
    <3>1. back.queue[1].key \in Nat
      BY <1>6 DEF Entry
    <3>2. QED
      BY <1>2, <1>6, <2>3, <3>1 DEF QueueInv, Sorted
  <2>5. QED
    BY <2>2, <2>4
<1>11. front.packet.off + front.packet.caplen = NextRecord(storage_[r].src, cursor[r])
  <2>1. IsNextOf(front, back.storage[r], cursor[r])
    BY <1>2, <1>6 DEF QueueInv
  <2>2. back.storage[r].src = storage_[r].src /\ cursor[r] \in Nat
    BY <1>2, <1>7, <1>9
  <2>3. QED
    BY <2>1, <2>2 DEF IsNextOf, NextRecord
<1>12. delivery \in Delivery
  BY <1>6 DEF Delivery, Entry, PacketType
<1>13. Hands(r, delivery)
  BY <1>3, <1>4, <1>9, <1>10, <1>11, <1>12 DEF Hands
<1>14. QED
  BY <1>13

-----------------------------------------------------------------------------
(***************************************************************************)
(* The abstract merge sees the files, and of a delivery its file and key.  *)
(***************************************************************************)
Files == [i \in DOMAIN storage_ |-> storage_[i].src]

Emitted ==
  [d \in DOMAIN delivered |-> [file |-> delivered[d].reader, key |-> delivered[d].key]]

LEMMA MergeReads ==
  ASSUME NEW f, NEW p
  PROVE  /\ Merge!HasRecord(f, p) <=> HasRecord(f, p)
         /\ Merge!NextRecord(f, p) = NextRecord(f, p)
         /\ Merge!TimeOf(f, p) = TimeOf(f, p)
BY DEF Merge!HasRecord, HasRecord, Merge!HeaderAccepted, HeaderAccepted, Merge!HeaderRead, HeaderRead,
       Merge!HeaderWords, HeaderWords, Merge!NextRecord, NextRecord, Merge!TimeOf, TimeOf,
       Merge!NsecOf, NsecOf, Merge!Fraction, Fraction

LEMMA MergeHasMore ==
  ASSUME NEW i \in DOMAIN storage_
  PROVE  Files[i] = storage_[i].src /\ (Merge!HasMore(i) <=> HasNext(i))
BY MergeReads DEF Merge!HasMore, HasNext, Files

(* A function on the first n numbers is a sequence of its values.          *)
LEMMA FunctionIsSequence ==
  ASSUME NEW S, NEW n \in Nat, NEW g \in [1 .. n -> S]
  PROVE  g \in Seq(S) /\ Len(g) = n
<1>1. g \in Seq(S)
  BY SeqDef
<1>2. DOMAIN g = 1 .. n /\ DOMAIN g = 1 .. Len(g) /\ Len(g) \in Nat
  BY <1>1, LenProperties
<1>3. QED
  BY <1>1, <1>2

LEMMA SameFiles == SourcesStay => Files' = Files
BY DEF SourcesStay, Files

LEMMA InitMerges == Init => Merge!Init
<1>1. SUFFICES ASSUME Init PROVE Merge!Init
  OBVIOUS
<1>2. DOMAIN <<>> = {}
  BY EmptySeq
<1>3. Files = <<>> /\ Emitted = <<>>
  BY <1>1, <1>2 DEF Init, Files, Emitted
<1>4. QED
  BY <1>1, <1>3 DEF Init, Merge!Init, Files, Emitted, IsDone

LEMMA AddFileAdds ==
  ASSUME IInv, NEW f \in Contents, AddFile(f)
  PROVE  Merge!Add(f)
<1> DEFINE n == Len(storage_)
<1>1. /\ n \in Nat /\ Len(storage_') = n + 1
      /\ DOMAIN storage_ = 1 .. n /\ DOMAIN storage_' = 1 .. n + 1
      /\ storage_'[n + 1].src = f
      /\ \A i \in 1 .. n : storage_'[i].src = storage_[i].src
      /\ cursor' = Append(cursor, 0) /\ cursor'[n + 1] = 0
      /\ \A i \in 1 .. n : cursor'[i] = cursor[i]
      /\ UNCHANGED <<current_, delivered>>
  BY AddingFiles
<1> HIDE DEF n
<1>2. Files' = Append(Files, f)
  <2>1. f \in FileType /\ storage_ \in Seq(ReaderType) /\ storage_' \in Seq(ReaderType)
    BY SourceAssumption, AddFileKeeps DEF IInv, TypeOK
  <2>2. \A i \in 1 .. n + 1 : storage_'[i].src \in FileType
    <3>1. SUFFICES ASSUME NEW i \in 1 .. Len(storage_') PROVE storage_'[i].src \in FileType
      BY <1>1
    <3>2. storage_'[i] \in ReaderType
      BY <2>1, ElementOfSeq
    <3>3. QED
      BY <3>2 DEF ReaderType
  <2>3. Files \in Seq(FileType) /\ Len(Files) = n
    BY <1>1, <2>2 DEF Files
  <2>4. Files' \in Seq(FileType) /\ Len(Files') = n + 1
    BY <1>1, <2>2 DEF Files
  <2>5. /\ Append(Files, f) \in Seq(FileType) /\ Len(Append(Files, f)) = n + 1
        /\ \A i \in 1 .. n : Append(Files, f)[i] = Files[i]
        /\ Append(Files, f)[n + 1] = f
    BY <2>1, <2>3, AppendProperties
  <2>6. \A i \in 1 .. n + 1 : Files'[i] = Append(Files, f)[i]
    BY <1>1, <2>5 DEF Files
  <2>7. QED
    BY <2>4, <2>5, <2>6, SeqEqual
<1>3. IsDone' <=> IsDone /\ ~HasRecord(f, 0)
  <2>1. IInv'
    BY AddFileKeeps
  <2>2. IsDone <=> current_.reader = 0 /\ \A i \in 1 .. n : ~HasNext(i)
    BY <1>1, DoneMeansNothingLeft
  <2>3. (IInv => (IsDone <=> current_.reader = 0 /\ \A i \in DOMAIN storage_ : ~HasNext(i)))'
    BY DoneMeansNothingLeft, PTL
  <2>4. IsDone' <=> current_.reader = 0
                    /\ \A i \in 1 .. n + 1 : ~HasRecord(storage_'[i].src, cursor'[i])
    BY <1>1, <2>1, <2>3 DEF HasNext
  <2>5. (\A i \in 1 .. n + 1 : ~HasRecord(storage_'[i].src, cursor'[i]))
          <=> (\A i \in 1 .. n : ~HasNext(i)) /\ ~HasRecord(f, 0)
    <3>1. \A i \in 1 .. n + 1 : i \in 1 .. n \/ i = n + 1
      BY <1>1
    <3>2. n + 1 \in 1 .. n + 1 /\ 1 .. n \subseteq 1 .. n + 1
      BY <1>1
    <3>3. ~HasRecord(storage_'[n + 1].src, cursor'[n + 1]) <=> ~HasRecord(f, 0)
      BY <1>1
    <3>4. \A i \in 1 .. n : HasRecord(storage_'[i].src, cursor'[i]) <=> HasNext(i)
      BY <1>1 DEF HasNext
    <3>5. QED
      BY <3>1, <3>2, <3>3, <3>4
  <2>6. QED
    BY <2>2, <2>4, <2>5
<1>4. QED
  BY <1>1, <1>2, <1>3, MergeReads DEF Merge!Add, Files, Emitted

LEMMA ReadAvailableEmits ==
  ASSUME IInv, ReadAvailable
  PROVE  \E i \in DOMAIN Files : Merge!Emit(i)
<1>1. PICK r, delivery : Hands(r, delivery)
  BY HandingOut
<1>2. r \in DOMAIN storage_ /\ r # 0
  <2>1. DOMAIN storage_ = 1 .. Len(storage_)
    BY LenProperties DEF IInv, TypeOK
  <2>2. QED
    BY <1>1, <2>1 DEF Hands
<1>3. /\ Merge!HasMore(r)
      /\ \A j \in DOMAIN Files :
           Merge!HasMore(j) => Merge!TimeOf(Files[r], cursor[r]) <= Merge!TimeOf(Files[j], cursor[j])
  BY <1>1, <1>2, MergeHasMore, MergeReads DEF Hands, Files
<1>4. cursor' = [cursor EXCEPT ![r] = Merge!NextRecord(Files[r], @)]
  BY <1>1, <1>2, MergeHasMore, MergeReads DEF Hands
<1>5. Emitted' = Append(Emitted, [file |-> r, key |-> Merge!TimeOf(Files[r], cursor[r])])
  <2> DEFINE m == Len(delivered)
             last == [file |-> r, key |-> Merge!TimeOf(Files[r], cursor[r])]
             Emission == [file : Nat, key : Nat]
  <2>1. /\ delivered \in Seq(Delivery) /\ m \in Nat /\ DOMAIN delivered = 1 .. m
        /\ delivery \in Delivery /\ delivered' = Append(delivered, delivery)
        /\ last = [file |-> delivery.reader, key |-> delivery.key]
    BY <1>1, <1>2, LenProperties, MergeHasMore, MergeReads DEF Hands, IInv, TypeOK
  <2>2. /\ delivered' \in Seq(Delivery) /\ DOMAIN delivered' = 1 .. m + 1
        /\ \A d \in 1 .. m : delivered'[d] = delivered[d]
        /\ delivered'[m + 1] = delivery
    BY <2>1, AppendProperties, LenProperties
  <2> HIDE DEF m, last
  <2>3. last \in Emission
    BY <2>1 DEF Delivery
  <2>4. Emitted \in Seq(Emission) /\ Len(Emitted) = m
    <3>1. \A d \in 1 .. m : delivered[d] \in Delivery
      BY <2>1, ElementOfSeq DEF m
    <3>2. \A d \in 1 .. m : [file |-> delivered[d].reader, key |-> delivered[d].key] \in Emission
      BY <3>1 DEF Delivery
    <3>3. Emitted = [d \in 1 .. m |-> [file |-> delivered[d].reader, key |-> delivered[d].key]]
      BY <2>1 DEF Emitted
    <3>4. Emitted \in [1 .. m -> Emission]
      BY <3>2, <3>3
    <3>5. QED
      BY <2>1, <3>4, FunctionIsSequence
  <2>5. Emitted' \in Seq(Emission) /\ Len(Emitted') = m + 1
    <3>1. \A d \in 1 .. m + 1 : delivered'[d] \in Delivery
      BY <2>1, <2>2, ElementOfSeq, LenProperties
    <3>2. \A d \in 1 .. m + 1 :
            [file |-> delivered'[d].reader, key |-> delivered'[d].key] \in Emission
      BY <3>1 DEF Delivery
    <3>3. Emitted' = [d \in 1 .. m + 1 |->
                        [file |-> delivered'[d].reader, key |-> delivered'[d].key]]
      BY <2>2 DEF Emitted
    <3>4. Emitted' \in [1 .. m + 1 -> Emission]
      BY <3>2, <3>3
    <3>5. m + 1 \in Nat
      BY <2>1
    <3>6. QED
      BY <3>4, <3>5, FunctionIsSequence
  <2>6. /\ Append(Emitted, last) \in Seq(Emission) /\ Len(Append(Emitted, last)) = m + 1
        /\ \A d \in 1 .. m : Append(Emitted, last)[d] = Emitted[d]
        /\ Append(Emitted, last)[m + 1] = last
    BY <2>3, <2>4, AppendProperties
  <2>7. \A d \in 1 .. m + 1 : Emitted'[d] = Append(Emitted, last)[d]
    BY <2>1, <2>2, <2>6 DEF Emitted
  <2>8. Emitted' = Append(Emitted, last)
    BY <2>5, <2>6, <2>7, SeqEqual
  <2>9. QED
    BY <2>8 DEF last
<1>6. IsDone' = FALSE /\ Files' = Files
  BY <1>1, <1>2, SameFiles DEF Hands, IsDone
<1>7. Merge!Emit(r)
  BY <1>3, <1>4, <1>5, <1>6 DEF Merge!Emit, Files, Emitted
<1>8. QED
  BY <1>2, <1>7 DEF Files

LEMMA ReadExhaustedEnds ==
  ASSUME IInv, ReadExhausted
  PROVE  Merge!End
<1>1. /\ PutBack.queue = <<>> /\ storage_' = PutBack.storage
      /\ current_' = [current_ EXCEPT !.reader = 0]
      /\ UNCHANGED <<queue_, cursor, delivered>>
  BY DEF ReadExhausted, Exhausted
<1>2. Files' = Files
  BY <1>1, PutBackSources, SameFiles
<1>3. \A i \in DOMAIN storage_ : ~HasNext(i)
  BY <1>1, PutBackKeeps, EmptySeq
<1>4. IsDone' = TRUE
  <2>1. current_'.reader = 0
    BY <1>1 DEF IInv, TypeOK, Context
  <2>2. queue_ = <<>>
    <3>1. \A j \in DOMAIN queue_ : FALSE
      BY <1>1, PutBackKeeps, EmptySeq
    <3>2. queue_ \in Seq(Entry)
      BY DEF IInv, TypeOK
    <3>3. QED
      <4>1. DOMAIN queue_ = 1 .. Len(queue_) /\ Len(queue_) \in Nat
        BY <3>2, LenProperties
      <4>2. Len(queue_) = 0
        BY <3>1, <4>1
      <4>3. QED
        BY <3>2, <4>2, EmptySeq
  <2>3. QED
    BY <1>1, <2>1, <2>2 DEF IsDone
<1>5. QED
  BY <1>1, <1>2, <1>3, <1>4, MergeHasMore DEF Merge!End, Files, Emitted

(***************************************************************************)
(* The source is a merge: each record of each file once and in the file's  *)
(* order, the earliest first, and an end only when none is left.           *)
(***************************************************************************)
THEOREM ImplementsMerge == Spec => MergeSpec
<1>1. IInv /\ [Next]_vars => [Merge!Next]_(Merge!vars)
  <2>1. SUFFICES ASSUME IInv, [Next]_vars PROVE [Merge!Next]_(Merge!vars)
    OBVIOUS
  <2>2. ASSUME NEW f \in Contents, AddFile(f) PROVE Merge!Next
    BY <2>1, <2>2, AddFileAdds DEF Merge!Next
  <2>3. CASE ReadAvailable
    BY <2>1, <2>3, ReadAvailableEmits DEF Merge!Next, Files
  <2>4. CASE ReadExhausted
    BY <2>1, <2>4, ReadExhaustedEnds DEF Merge!Next
  <2>5. CASE UNCHANGED <<storage_, queue_, current_, cursor, delivered>>
    BY <2>5 DEF Merge!vars, IsDone
  <2>6. QED
    BY <2>1, <2>2, <2>3, <2>4, <2>5
       DEF Next, ReadNextPacket, CallbackReturns, SetDoneCallback, vars
<1>2. QED
  BY <1>1, InitMerges, Invariance, PTL DEF Spec, MergeSpec, Merge!Spec

-----------------------------------------------------------------------------
(***************************************************************************)
(* Why the output is sorted: a file that was there when packet i was       *)
(* handed out then had no record earlier than i.  So it either handed out  *)
(* one that is not earlier since, or its next one is not earlier.          *)
(***************************************************************************)
WaitedSince(f, i) ==
  \/ \E k \in i .. Len(delivered) :
       delivered[k].reader = f /\ delivered[k].key >= delivered[i].key
  \/ HasNext(f) => TimeOf(storage_[f].src, cursor[f]) >= delivered[i].key

WaitInv ==
  \A f \in DOMAIN storage_, i \in DOMAIN delivered : since[f] < i => WaitedSince(f, i)

(* Packets are of files that were added.                                   *)
FilesKnown == \A d \in DOMAIN delivered : delivered[d].reader \in DOMAIN storage_

SortInv == IInv /\ FilesKnown /\ WaitInv /\ SortedOutput

(* What handing out a packet adds to the history, and what it leaves.      *)
LEMMA HistoryGrows ==
  ASSUME IInv, NEW r, NEW delivery, Hands(r, delivery)
  PROVE  LET n == Len(delivered) IN
         /\ n \in Nat /\ DOMAIN delivered = 1 .. n
         /\ Len(delivered') = n + 1 /\ DOMAIN delivered' = 1 .. n + 1
         /\ \A i \in 1 .. n : delivered'[i] = delivered[i]
         /\ delivered'[n + 1] = delivery
         /\ \A i \in 1 .. n + 1 : delivered'[i].key \in Nat /\ delivered'[i].reader \in Nat
         /\ \A f \in DOMAIN storage_ : since[f] \in Nat
         /\ \A f \in DOMAIN storage_ : f # r => cursor'[f] = cursor[f]
<1> DEFINE n == Len(delivered)
<1>1. delivered \in Seq(Delivery) /\ delivery \in Delivery /\ delivered' = Append(delivered, delivery)
  BY DEF IInv, TypeOK, Hands
<1>2. n \in Nat /\ DOMAIN delivered = 1 .. n
  BY <1>1, LenProperties
<1>3. /\ delivered' \in Seq(Delivery) /\ Len(delivered') = n + 1
      /\ \A i \in 1 .. n : delivered'[i] = delivered[i]
      /\ delivered'[n + 1] = delivery
  BY <1>1, AppendProperties
<1>4. DOMAIN delivered' = 1 .. n + 1
  BY <1>3, LenProperties
<1>5. \A i \in 1 .. n + 1 : delivered'[i].key \in Nat /\ delivered'[i].reader \in Nat
  <2>1. \A i \in 1 .. n + 1 : delivered'[i] \in Delivery
    BY <1>3, ElementOfSeq
  <2>2. QED
    BY <2>1 DEF Delivery
<1>6. \A f \in DOMAIN storage_ : since[f] \in Nat
  BY LenProperties, ElementOfSeq DEF IInv, TypeOK
<1>7. \A f \in DOMAIN storage_ : f # r => cursor'[f] = cursor[f]
  <2>1. DOMAIN cursor = DOMAIN storage_
    BY LenProperties DEF IInv, TypeOK
  <2>2. QED
    BY <2>1 DEF Hands
<1>8. QED
  BY <1>2, <1>3, <1>4, <1>5, <1>6, <1>7

LEMMA HandingOutSorts ==
  ASSUME SortInv, NEW r, NEW delivery, Hands(r, delivery)
  PROVE  FilesKnown' /\ WaitInv' /\ SortedOutput'
<1> DEFINE n == Len(delivered)
           Time(f) == TimeOf(storage_[f].src, cursor[f])
<1>1. /\ n \in Nat /\ DOMAIN delivered = 1 .. n
      /\ Len(delivered') = n + 1 /\ DOMAIN delivered' = 1 .. n + 1
      /\ \A i \in 1 .. n : delivered'[i] = delivered[i]
      /\ delivered'[n + 1] = delivery
      /\ \A i \in 1 .. n + 1 : delivered'[i].key \in Nat /\ delivered'[i].reader \in Nat
      /\ \A f \in DOMAIN storage_ : since[f] \in Nat
      /\ \A f \in DOMAIN storage_ : f # r => cursor'[f] = cursor[f]
  BY HistoryGrows DEF SortInv
<1>2. /\ r \in DOMAIN storage_ /\ HasNext(r)
      /\ \A f \in DOMAIN storage_ : HasNext(f) => Time(r) <= Time(f)
      /\ delivery.reader = r /\ delivery.key = Time(r)
      /\ since' = since
      /\ DOMAIN storage_' = DOMAIN storage_
      /\ \A f \in DOMAIN storage_ : storage_'[f].src = storage_[f].src
  BY DEF Hands, SourcesStay
<1>3. \A f \in DOMAIN storage_, i \in 1 .. n : since[f] < i => WaitedSince(f, i)
  BY <1>1 DEF SortInv, WaitInv
<1> HIDE DEF n
<1>4. WaitInv'
  <2>1. SUFFICES ASSUME NEW f \in DOMAIN storage_, NEW i \in 1 .. n + 1, since[f] < i
                 PROVE  WaitedSince(f, i)'
    BY <1>1, <1>2 DEF WaitInv
  <2>2. CASE i = n + 1
    <3>1. CASE f = r
      <4>1. n + 1 \in i .. n + 1
        BY <1>1, <2>2
      <4>2. QED
        BY <1>1, <1>2, <2>2, <3>1, <4>1 DEF WaitedSince
    <3>2. CASE f # r
      <4>1. storage_'[f].src = storage_[f].src /\ cursor'[f] = cursor[f]
        BY <1>1, <1>2, <3>2
      <4>2. HasNext(f)' => TimeOf(storage_'[f].src, cursor'[f]) >= delivered'[i].key
        <5>1. HasNext(f)' = HasNext(f)
          BY <4>1 DEF HasNext
        <5>2. SUFFICES ASSUME HasNext(f) PROVE Time(f) >= delivery.key
          BY <1>1, <2>2, <4>1, <5>1
        <5>3. Time(r) <= Time(f)
          BY <1>2, <5>2
        <5>4. QED
          BY <1>2, <5>3
      <4>3. QED
        BY <4>2 DEF WaitedSince
    <3>3. QED
      BY <3>1, <3>2
  <2>3. CASE i \in 1 .. n
    <3>1. WaitedSince(f, i) /\ delivered'[i] = delivered[i]
      BY <1>1, <1>3, <2>1, <2>3
    <3>2. CASE \E k \in i .. n : delivered[k].reader = f /\ delivered[k].key >= delivered[i].key
      <4>1. PICK k \in i .. n : delivered[k].reader = f /\ delivered[k].key >= delivered[i].key
        BY <3>2
      <4>2. k \in i .. n + 1 /\ delivered'[k] = delivered[k]
        BY <1>1, <2>3
      <4>3. QED
        BY <1>1, <3>1, <4>1, <4>2 DEF WaitedSince
    <3>3. CASE HasNext(f) => Time(f) >= delivered[i].key
      <4>1. CASE f = r
        <5>1. n + 1 \in i .. n + 1
          BY <1>1, <2>3
        <5>2. delivered'[n + 1].reader = f /\ delivered'[n + 1].key >= delivered'[i].key
          BY <1>1, <1>2, <3>1, <3>3, <4>1
        <5>3. QED
          BY <1>1, <5>1, <5>2 DEF WaitedSince
      <4>2. CASE f # r
        <5>1. storage_'[f].src = storage_[f].src /\ cursor'[f] = cursor[f]
          BY <1>1, <1>2, <4>2
        <5>2. HasNext(f)' = HasNext(f)
          BY <5>1 DEF HasNext
        <5>3. QED
          BY <3>1, <3>3, <5>1, <5>2 DEF WaitedSince
      <4>3. QED
        BY <4>1, <4>2
    <3>4. QED
      BY <3>1, <3>2, <3>3 DEF WaitedSince, n
  <2>4. QED
    BY <1>1, <2>2, <2>3
<1>5. SortedOutput'
  <2>1. SUFFICES ASSUME NEW i \in 1 .. n + 1, NEW j \in 1 .. n + 1, i < j,
                        delivered'[j].key < delivered'[i].key
                 PROVE  \/ since[delivered'[j].reader] >= i
                        \/ \E k \in i .. j - 1 :
                             /\ delivered'[k].reader = delivered'[j].reader
                             /\ delivered'[k].key > delivered'[j].key
    BY <1>1, <1>2 DEF SortedOutput
  <2>2. CASE j \in 1 .. n
    <3>1. i \in 1 .. n /\ i .. j - 1 \subseteq 1 .. n
      BY <1>1, <2>1, <2>2
    <3>2. delivered[i] = delivered'[i] /\ delivered[j] = delivered'[j]
      BY <1>1, <2>2, <3>1
    <3>3. \/ since[delivered[j].reader] >= i
          \/ \E k \in i .. j - 1 : /\ delivered[k].reader = delivered[j].reader
                                   /\ delivered[k].key > delivered[j].key
      BY <1>1, <2>1, <2>2, <3>1, <3>2 DEF SortInv, SortedOutput
    <3>4. \A k \in i .. j - 1 : delivered'[k] = delivered[k]
      BY <1>1, <3>1
    <3>5. QED
      BY <3>2, <3>3, <3>4
  <2>3. CASE j = n + 1
    <3>1. i \in 1 .. n /\ i .. j - 1 = i .. n /\ delivered'[i] = delivered[i]
      BY <1>1, <2>1, <2>3
    <3>2. delivered'[j].reader = r /\ delivered'[j].key = Time(r)
      BY <1>1, <1>2, <2>3
    <3>3. SUFFICES ASSUME since[r] < i
                   PROVE  \E k \in i .. n : /\ delivered'[k].reader = r
                                            /\ delivered'[k].key > Time(r)
      <4>1. since[r] \in Nat
        BY <1>1, <1>2
      <4>2. since[r] >= i \/ since[r] < i
        BY <3>1, <4>1
      <4>3. CASE since[r] >= i
        BY <3>2, <4>3
      <4>4. CASE since[r] < i
        BY <3>1, <3>2, <3>3, <4>4
      <4>5. QED
        BY <4>2, <4>3, <4>4
    <3>4. WaitedSince(r, i) /\ Time(r) < delivered[i].key
      BY <1>2, <1>3, <2>1, <3>1, <3>2, <3>3
    <3>5. Time(r) \in Nat /\ delivered[i].key \in Nat
      BY <1>1, <1>2, <2>3, <3>1, <3>2
    <3>6. PICK k \in i .. n : delivered[k].reader = r /\ delivered[k].key >= delivered[i].key
      BY <1>2, <3>4, <3>5 DEF WaitedSince, n
    <3>7. k \in 1 .. n /\ delivered'[k] = delivered[k] /\ delivered[k].key \in Nat
      BY <1>1, <3>1, <3>6
    <3>8. QED
      BY <3>4, <3>5, <3>6, <3>7
  <2>4. QED
    BY <1>1, <2>2, <2>3
<1>6. FilesKnown'
  <2>1. \A d \in 1 .. n : delivered[d].reader \in DOMAIN storage_
    BY <1>1 DEF SortInv, FilesKnown
  <2>2. \A d \in 1 .. n + 1 : d \in 1 .. n \/ d = n + 1
    BY <1>1
  <2>3. QED
    BY <1>1, <1>2, <2>1, <2>2 DEF FilesKnown
<1>7. QED
  BY <1>4, <1>5, <1>6

(* addFile(): whatever was handed out came before the new file.            *)
LEMMA AddFileSorts ==
  ASSUME SortInv, NEW f \in Contents, AddFile(f)
  PROVE  FilesKnown' /\ WaitInv' /\ SortedOutput'
<1> DEFINE n == Len(storage_)
<1>1. /\ n \in Nat
      /\ DOMAIN storage_ = 1 .. n /\ DOMAIN storage_' = 1 .. n + 1
      /\ \A i \in 1 .. n : storage_'[i].src = storage_[i].src
      /\ since'[n + 1] = Len(delivered)
      /\ \A i \in 1 .. n : cursor'[i] = cursor[i] /\ since'[i] = since[i]
      /\ delivered' = delivered
  BY AddingFiles DEF SortInv
<1> HIDE DEF n
<1>2. Len(delivered) \in Nat /\ DOMAIN delivered = 1 .. Len(delivered)
  BY LenProperties DEF SortInv, IInv, TypeOK
<1>3. WaitInv'
  <2>1. SUFFICES ASSUME NEW g \in 1 .. n + 1, NEW i \in DOMAIN delivered, since'[g] < i
                 PROVE  WaitedSince(g, i)'
    BY <1>1 DEF WaitInv
  <2>2. g \in 1 .. n
    BY <1>1, <1>2, <2>1
  <2>3. WaitedSince(g, i)
    BY <1>1, <2>1, <2>2 DEF SortInv, WaitInv
  <2>4. HasNext(g)' = HasNext(g)
    BY <1>1, <2>2 DEF HasNext
  <2>5. QED
    BY <1>1, <2>2, <2>3, <2>4 DEF WaitedSince
<1>4. \A d \in DOMAIN delivered : /\ delivered[d].reader \in 1 .. n
                                  /\ since'[delivered[d].reader] = since[delivered[d].reader]
  BY <1>1 DEF SortInv, FilesKnown
<1>5. SortedOutput'
  BY <1>1, <1>4 DEF SortInv, SortedOutput
<1>6. FilesKnown'
  BY <1>1, <1>4 DEF FilesKnown
<1>7. QED
  BY <1>3, <1>5, <1>6

(* The other steps hand nothing out and leave the files' places alone.     *)
LEMMA OthersSort ==
  ASSUME SortInv, SourcesStay, UNCHANGED <<cursor, since, delivered>>
  PROVE  FilesKnown' /\ WaitInv' /\ SortedOutput'
<1>1. FilesKnown' /\ SortedOutput'
  BY DEF SortInv, FilesKnown, SortedOutput, SourcesStay
<1>2. WaitInv'
  <2>1. SUFFICES ASSUME NEW f \in DOMAIN storage_, NEW i \in DOMAIN delivered, since[f] < i
                 PROVE  WaitedSince(f, i)'
    BY DEF WaitInv, SourcesStay
  <2>2. WaitedSince(f, i)
    BY <2>1 DEF SortInv, WaitInv
  <2>3. storage_'[f].src = storage_[f].src /\ HasNext(f)' = HasNext(f)
    BY DEF SourcesStay, HasNext
  <2>4. QED
    BY <2>2, <2>3 DEF WaitedSince
<1>3. QED
  BY <1>1, <1>2

LEMMA SortStep == SortInv /\ [Next]_vars => SortInv'
<1>1. SUFFICES ASSUME SortInv, [Next]_vars PROVE FilesKnown' /\ WaitInv' /\ SortedOutput'
  BY StepKeeps DEF SortInv
<1>2. ASSUME NEW f \in Contents, AddFile(f) PROVE FilesKnown' /\ WaitInv' /\ SortedOutput'
  BY <1>1, <1>2, AddFileSorts
<1>3. CASE ReadAvailable
  BY <1>1, <1>3, HandingOut, HandingOutSorts DEF SortInv
<1>4. CASE ReadExhausted
  <2>1. storage_' = PutBack.storage /\ UNCHANGED <<cursor, since, delivered>>
    BY <1>4 DEF ReadExhausted, Exhausted
  <2>2. QED
    BY <1>1, <2>1, PutBackSources, OthersSort DEF SortInv
<1>5. CASE UNCHANGED <<storage_, cursor, since, delivered>>
  BY <1>1, <1>5, OthersSort DEF SourcesStay
<1>6. QED
  BY <1>1, <1>2, <1>3, <1>4, <1>5
     DEF Next, ReadNextPacket, CallbackReturns, SetDoneCallback, vars

(***************************************************************************)
(* The output is in the order of time, but for files added later and files *)
(* that are out of order themselves.                                       *)
(***************************************************************************)
THEOREM OutputIsSorted == Spec => []SortedOutput
<1>1. Init => SortInv
  <2>1. SUFFICES ASSUME Init PROVE SortInv
    OBVIOUS
  <2>2. DOMAIN delivered = {}
    BY <2>1, EmptySeq DEF Init
  <2>3. QED
    BY <2>1, <2>2, InitInvariant DEF SortInv, FilesKnown, WaitInv, SortedOutput
<1>2. SortInv => SortedOutput
  BY DEF SortInv
<1>3. QED
  BY <1>1, <1>2, SortStep, PTL DEF Spec

-----------------------------------------------------------------------------
(***************************************************************************)
(* Files with equal time stamps take turns because of where emplace puts   *)
(* an entry: behind its equals, and all others keep their order.           *)
(***************************************************************************)
Before(queue, w, v) ==
  \E p, q \in DOMAIN queue : p < q /\ queue[p].reader = w /\ queue[q].reader = v

LEMMA EmplaceOrder ==
  ASSUME NEW queue \in Seq(Entry), Sorted(queue), NEW entry \in Entry, NEW w, NEW v
  PROVE  /\ Before(queue, w, v) => Before(Emplace(queue, entry), w, v)
         /\ \A p \in DOMAIN queue :
              queue[p].key <= entry.key =>
                Before(Emplace(queue, entry), queue[p].reader, entry.reader)
<1> DEFINE n == UpperBound(queue, entry.key)
           after == Emplace(queue, entry)
           Place(p) == IF p <= n THEN p ELSE p + 1
<1>1. /\ n \in 0 .. Len(queue) /\ Len(queue) \in Nat /\ DOMAIN queue = 1 .. Len(queue)
      /\ DOMAIN after = 1 .. Len(queue) + 1
      /\ \A i \in 1 .. Len(queue) + 1 :
           after[i] = IF i <= n THEN queue[i]
                      ELSE IF i = n + 1 THEN entry ELSE queue[i - 1]
  <2>1. /\ n \in 0 .. Len(queue) /\ after \in Seq(Entry) /\ Len(after) = Len(queue) + 1
        /\ \A i \in 1 .. Len(after) :
             after[i] = IF i <= n THEN queue[i]
                        ELSE IF i = n + 1 THEN entry ELSE queue[i - 1]
    BY EmplaceProperties
  <2> HIDE DEF n, after
  <2>2. QED
    BY <2>1, LenProperties
<1>2. \A p \in n + 1 .. Len(queue) : queue[p].key > entry.key
  BY UpperBoundExists DEF Entry
<1> HIDE DEF n, after
<1>3. \A p \in 1 .. Len(queue) : Place(p) \in 1 .. Len(queue) + 1 /\ after[Place(p)] = queue[p]
  <2>1. SUFFICES ASSUME NEW p \in 1 .. Len(queue)
                 PROVE  Place(p) \in 1 .. Len(queue) + 1 /\ after[Place(p)] = queue[p]
    OBVIOUS
  <2>2. CASE p <= n
    <3>1. p \in 1 .. Len(queue) + 1 /\ Place(p) = p
      BY <1>1, <2>2
    <3>2. after[p] = queue[p]
      BY <1>1, <2>2, <3>1
    <3>3. QED
      BY <3>1, <3>2
  <2>3. CASE ~(p <= n)
    <3>1. p + 1 \in 1 .. Len(queue) + 1 /\ Place(p) = p + 1 /\ ~(p + 1 <= n) /\ p + 1 # n + 1
      BY <1>1, <2>3
    <3>2. p + 1 - 1 = p
      OBVIOUS
    <3>3. after[p + 1] = queue[p]
      BY <1>1, <3>1, <3>2
    <3>4. QED
      BY <3>1, <3>3
  <2>4. QED
    BY <2>2, <2>3
<1>4. ASSUME Before(queue, w, v) PROVE Before(after, w, v)
  <2>1. PICK p, q \in 1 .. Len(queue) : p < q /\ queue[p].reader = w /\ queue[q].reader = v
    BY <1>1, <1>4 DEF Before
  <2>2. Place(p) < Place(q)
    BY <1>1, <2>1
  <2> HIDE DEF Place
  <2>3. QED
    BY <1>1, <1>3, <2>1, <2>2 DEF Before
<1>5. ASSUME NEW p \in DOMAIN queue, queue[p].key <= entry.key
      PROVE  Before(after, queue[p].reader, entry.reader)
  <2>1. p \in 1 .. Len(queue) /\ queue[p].key \in Nat /\ entry.key \in Nat
    <3>1. p \in 1 .. Len(queue) /\ queue[p] \in Entry
      BY <1>1, ElementOfSeq
    <3>2. QED
      BY <3>1 DEF Entry
  <2>2. p <= n
    <3>1. SUFFICES ASSUME ~(p <= n) PROVE FALSE
      OBVIOUS
    <3>2. p \in n + 1 .. Len(queue)
      BY <1>1, <2>1, <3>1
    <3>3. queue[p].key > entry.key
      BY <1>2, <3>2
    <3>4. QED
      BY <1>5, <2>1, <3>3
  <2>3. /\ n + 1 \in 1 .. Len(queue) + 1 /\ after[n + 1] = entry
        /\ p \in 1 .. Len(queue) + 1 /\ after[p] = queue[p] /\ p < n + 1
    BY <1>1, <2>1, <2>2
  <2>4. QED
    BY <1>1, <2>3 DEF Before
<1>6. QED
  BY <1>4, <1>5 DEF after

LEMMA ReturnedEntry ==
  ASSUME NEW storage, NEW queue, NEW i \in DOMAIN storage, i \in Nat \ {0},
         storage[i] \in ReaderType, Coherent(storage[i])
  PROVE  \/ ReturnToQueue(storage, queue, i).queue = queue
         \/ \E entry \in Entry : /\ entry.reader = i
                                 /\ ReturnToQueue(storage, queue, i).queue = Emplace(queue, entry)
<1> DEFINE read == ReadPacket(storage[i])
           entry == [ key    |-> MakeUnixTimeNs(read.packet),
                      packet |-> read.packet,
                      reader |-> i ]
<1>1. CASE read.packet.isNull
  BY <1>1 DEF ReturnToQueue
<1>2. CASE ~read.packet.isNull
  <2>1. read.packet \in PacketType
    BY <1>2, ReadPacketNext, ReadPacketNone
  <2>2. ReturnToQueue(storage, queue, i).queue = Emplace(queue, entry)
    BY <1>2 DEF ReturnToQueue
  <2> HIDE DEF read
  <2>3. MakeUnixTimeNs(read.packet) \in Nat
    <3>1. read.packet.sec \in Nat /\ read.packet.nsec \in Nat /\ NsPerSec \in Nat
      BY <2>1, ReaderAssumption DEF PacketType, Word
    <3>2. read.packet.sec * NsPerSec \in Nat
      BY <3>1
    <3>3. QED
      BY <3>1, <3>2 DEF MakeUnixTimeNs
  <2>4. entry \in Entry /\ entry.reader = i
    BY <2>1, <2>3 DEF Entry
  <2>5. QED
    BY <2>2, <2>4
<1>3. QED
  BY <1>1, <1>2

(***************************************************************************)
(* File w has been waiting since packet i was handed out, with a record of *)
(* the same time.  Then the file v of packet i has handed out no other one *)
(* of that time since, and if it has one in the queue, w is before it.     *)
(***************************************************************************)
Waits(w, i) ==
  /\ w \in DOMAIN storage_
  /\ since[w] < i
  /\ HasNext(w)
  /\ TimeOf(storage_[w].src, cursor[w]) = delivered[i].key
  /\ \A k \in i + 1 .. Len(delivered) : delivered[k].reader # w
  /\ w # delivered[i].reader

InTurn(w, i) ==
  LET v == delivered[i].reader IN
  /\ \A j \in i + 1 .. Len(delivered) :
       delivered[j].reader = v => delivered[j].key # delivered[i].key
  /\ \A q \in DOMAIN queue_ :
       queue_[q].reader = v /\ queue_[q].key = delivered[i].key => Before(queue_, w, v)

TieInv == \A i \in DOMAIN delivered : \A w : Waits(w, i) => InTurn(w, i)

LastIsCurrent ==
  current_.reader # 0 =>
    Len(delivered) > 0 /\ delivered[Len(delivered)].reader = current_.reader

TurnInv == IInv /\ FilesKnown /\ LastIsCurrent /\ TieInv

(* It is still so when readNextPacket() has put back the reader it handed  *)
(* out last: if that is v, its entry goes behind that of w.                *)
LEMMA PutBackInTurn ==
  ASSUME TurnInv, NEW i \in DOMAIN delivered, NEW w, Waits(w, i),
         NEW q \in DOMAIN PutBack.queue,
         PutBack.queue[q].reader = delivered[i].reader,
         PutBack.queue[q].key = delivered[i].key
  PROVE  Before(PutBack.queue, w, delivered[i].reader)
<1> DEFINE back == PutBack
           c == current_.reader
           v == delivered[i].reader
<1>1. /\ IInv /\ TypeOK /\ DOMAIN storage_ = 1 .. Len(storage_) /\ Len(storage_) \in Nat
      /\ DOMAIN delivered = 1 .. Len(delivered) /\ Len(delivered) \in Nat
      /\ queue_ \in Seq(Entry) /\ Sorted(queue_)
      /\ c \in 0 .. Len(storage_)
  BY LenProperties DEF TurnInv, IInv, TypeOK
<1>2. InTurn(w, i)
  BY DEF TurnInv, TieInv
<1>3. w # c
  <2>1. SUFFICES ASSUME w = c PROVE FALSE
    OBVIOUS
  <2>2. c # 0 /\ delivered[Len(delivered)].reader = c
    BY <1>1, <2>1 DEF Waits, TurnInv, LastIsCurrent
  <2>3. Len(delivered) \in i + 1 .. Len(delivered) \/ Len(delivered) = i
    BY <1>1
  <2>4. QED
    BY <2>1, <2>2, <2>3 DEF Waits
<1>4. PICK p \in DOMAIN queue_ : queue_[p].reader = w
  BY <1>1, <1>3 DEF Waits, IInv, IdleAreDrained
<1>5. queue_[p].key = delivered[i].key
  BY <1>1, <1>4 DEF IInv, QueueHoldsNext, IsNextOf, Waits
<1>6. ASSUME \E k \in DOMAIN queue_ : queue_[k] = back.queue[q]
      PROVE  Before(queue_, w, v)
  BY <1>2, <1>6 DEF InTurn
<1>7. CASE back.queue = queue_
  BY <1>6, <1>7
<1>8. CASE back.queue # queue_
  <2>1. c # 0 /\ back = ReturnToQueue(storage_, queue_, c)
    BY <1>8 DEF PutBack
  <2>2. c \in DOMAIN storage_ /\ c \in Nat \ {0} /\ storage_[c] \in ReaderType /\ Coherent(storage_[c])
    BY <1>1, <2>1, ElementOfSeq DEF TypeOK, IInv, ReadersCoherent
  <2>3. PICK entry \in Entry : entry.reader = c /\ back.queue = Emplace(queue_, entry)
    BY <1>8, <2>1, <2>2, ReturnedEntry
  <2>4. back.queue[q] = entry \/ \E k \in DOMAIN queue_ : back.queue[q] = queue_[k]
    BY <1>1, <2>3, EmplaceMembers
  <2> HIDE DEF back
  <2>5. CASE \E k \in DOMAIN queue_ : queue_[k] = back.queue[q]
    BY <1>1, <1>6, <2>3, <2>5, EmplaceOrder DEF back
  <2>6. CASE back.queue[q] = entry
    <3>1. entry.key = delivered[i].key /\ entry.reader = v
      BY <2>6 DEF back
    <3>2. queue_[p].key <= entry.key
      BY <1>5, <2>3, <3>1 DEF Entry
    <3>3. Before(Emplace(queue_, entry), queue_[p].reader, entry.reader)
      BY <1>1, <1>4, <2>3, <3>2, EmplaceOrder
    <3>4. QED
      BY <1>4, <2>3, <3>1, <3>3 DEF back
  <2>7. QED
    BY <2>4, <2>5, <2>6
<1>9. QED
  BY <1>7, <1>8

(* Whoever hands out a packet is first in the queue then; it leaves it.    *)
LEMMA HandingOutQueue ==
  ASSUME IInv, ReadAvailable, NEW r, NEW delivery, Hands(r, delivery)
  PROVE  /\ 1 \in DOMAIN PutBack.queue
         /\ PutBack.queue[1].reader = r /\ PutBack.queue[1].key = delivery.key
         /\ \A w, v : ~Before(PutBack.queue, w, r)
                      /\ (w # r /\ Before(PutBack.queue, w, v) => Before(queue_', w, v))
         /\ \A j \in DOMAIN queue_' :
              queue_'[j].reader # r /\ \E q \in DOMAIN PutBack.queue : PutBack.queue[q] = queue_'[j]
<1> DEFINE back == PutBack
<1>1. /\ back.queue \in Seq(Entry)
      /\ \A j, k \in DOMAIN back.queue : j # k => back.queue[j].reader # back.queue[k].reader
      /\ \A j \in DOMAIN back.queue :
           IsNextOf(back.queue[j], back.storage[back.queue[j].reader],
                    cursor[back.queue[j].reader])
      /\ \A k \in DOMAIN storage_ : back.storage[k].src = storage_[k].src
  BY PutBackKeeps DEF QueueInv
<1>2. /\ back.queue # <<>> /\ queue_' = Tail(back.queue)
      /\ current_'.reader = Head(back.queue).reader
  BY DEF ReadAvailable, Deliver
<1> HIDE DEF back
<1>3. /\ Len(back.queue) \in Nat /\ Len(back.queue) > 0
      /\ DOMAIN back.queue = 1 .. Len(back.queue)
  BY <1>1, <1>2, LenProperties, EmptySeq
<1>4. /\ DOMAIN queue_' = 1 .. Len(back.queue) - 1
      /\ \A j \in DOMAIN queue_' : queue_'[j] = back.queue[j + 1]
  <2>1. /\ queue_' \in Seq(Entry) /\ Len(queue_') = Len(back.queue) - 1
        /\ \A j \in 1 .. Len(queue_') : queue_'[j] = back.queue[j + 1]
    BY <1>1, <1>2, HeadTailProperties
  <2>2. QED
    BY <2>1, LenProperties
<1>5. 1 \in DOMAIN back.queue /\ back.queue[1].reader = r
  BY <1>2, <1>3 DEF Hands
<1>6. back.queue[1].key = delivery.key
  <2>1. back.queue[1].key = TimeOf(back.storage[r].src, cursor[r])
    BY <1>1, <1>5 DEF IsNextOf
  <2>2. QED
    BY <1>1, <2>1 DEF Hands
<1>7. ASSUME NEW w, Before(back.queue, w, r) PROVE FALSE
  <2>1. PICK p, q \in DOMAIN back.queue : p < q /\ back.queue[q].reader = r
    BY <1>7 DEF Before
  <2>2. q = 1
    BY <1>1, <1>5, <2>1
  <2>3. QED
    BY <1>3, <2>1, <2>2
<1>8. ASSUME NEW w, NEW v, w # r, Before(back.queue, w, v)
      PROVE  Before(queue_', w, v)
  <2>1. PICK p, q \in DOMAIN back.queue :
          p < q /\ back.queue[p].reader = w /\ back.queue[q].reader = v
    BY <1>8 DEF Before
  <2>2. p # 1
    BY <1>5, <1>8, <2>1
  <2>3. /\ p - 1 \in DOMAIN queue_' /\ q - 1 \in DOMAIN queue_' /\ p - 1 < q - 1
        /\ p - 1 + 1 = p /\ q - 1 + 1 = q
    BY <1>3, <1>4, <2>1, <2>2
  <2>4. queue_'[p - 1] = back.queue[p] /\ queue_'[q - 1] = back.queue[q]
    BY <1>4, <2>3
  <2>5. QED
    BY <2>1, <2>3, <2>4 DEF Before
<1>9. ASSUME NEW j \in DOMAIN queue_'
      PROVE  queue_'[j].reader # r /\ \E q \in DOMAIN back.queue : back.queue[q] = queue_'[j]
  <2>1. j + 1 \in DOMAIN back.queue /\ j + 1 # 1 /\ queue_'[j] = back.queue[j + 1]
    BY <1>3, <1>4
  <2>2. QED
    BY <1>1, <1>5, <2>1
<1>10. QED
  BY <1>5, <1>6, <1>7, <1>8, <1>9 DEF back

LEMMA HandingOutTakesTurns ==
  ASSUME TurnInv, ReadAvailable
  PROVE  FilesKnown' /\ LastIsCurrent' /\ TieInv'
<1>1. IInv
  BY DEF TurnInv
<1>2. PICK r, delivery : Hands(r, delivery)
  BY <1>1, HandingOut
<1> DEFINE n == Len(delivered)
<1>3. /\ n \in Nat /\ DOMAIN delivered = 1 .. n
      /\ Len(delivered') = n + 1 /\ DOMAIN delivered' = 1 .. n + 1
      /\ \A i \in 1 .. n : delivered'[i] = delivered[i]
      /\ delivered'[n + 1] = delivery
      /\ \A f \in DOMAIN storage_ : f # r => cursor'[f] = cursor[f]
  BY <1>1, <1>2, HistoryGrows
<1>4. /\ r \in DOMAIN storage_ /\ delivery.reader = r /\ current_'.reader = r
      /\ since' = since
      /\ DOMAIN storage_' = DOMAIN storage_
      /\ \A f \in DOMAIN storage_ : storage_'[f].src = storage_[f].src
  BY <1>2 DEF Hands, SourcesStay
<1> HIDE DEF n
<1>5. FilesKnown'
  <2>1. \A d \in 1 .. n : delivered[d].reader \in DOMAIN storage_
    BY <1>3 DEF TurnInv, FilesKnown
  <2>2. \A d \in 1 .. n + 1 : d \in 1 .. n \/ d = n + 1
    BY <1>3
  <2>3. QED
    BY <1>3, <1>4, <2>1, <2>2 DEF FilesKnown
<1>6. LastIsCurrent'
  BY <1>3, <1>4 DEF LastIsCurrent
<1>7. TieInv'
  <2>1. SUFFICES ASSUME NEW i \in 1 .. n + 1, NEW w, Waits(w, i)' PROVE InTurn(w, i)'
    BY <1>3 DEF TieInv
  <2>2. CASE i = n + 1
    <3>1. delivered'[i].reader = r /\ i + 1 .. Len(delivered') = {}
      BY <1>3, <1>4, <2>2
    <3>2. \A q \in DOMAIN queue_' : queue_'[q].reader # r
      BY <1>1, <1>2, HandingOutQueue
    <3>3. QED
      BY <3>1, <3>2 DEF InTurn
  <2>3. CASE i \in 1 .. n
    <3>1. /\ delivered'[i] = delivered[i] /\ n + 1 \in i + 1 .. n + 1
          /\ i + 1 .. n \subseteq i + 1 .. n + 1 /\ i + 1 .. n \subseteq 1 .. n
      BY <1>3, <2>3
    <3>2. w \in DOMAIN storage_ /\ w # r
      BY <1>3, <1>4, <2>1, <3>1 DEF Waits
    <3>3. cursor'[w] = cursor[w] /\ storage_'[w].src = storage_[w].src
      BY <1>3, <1>4, <3>2
    <3>4. Waits(w, i)
      <4>1. HasNext(w) /\ TimeOf(storage_[w].src, cursor[w]) = delivered[i].key
        BY <2>1, <3>1, <3>3 DEF Waits, HasNext
      <4>2. \A k \in i + 1 .. n : delivered[k].reader # w
        BY <1>3, <2>1, <3>1 DEF Waits
      <4>3. since[w] < i /\ w # delivered[i].reader
        BY <1>4, <2>1, <3>1 DEF Waits
      <4>4. QED
        BY <3>2, <4>1, <4>2, <4>3 DEF Waits, n
    <3>5. InTurn(w, i)
      BY <1>3, <2>3, <3>4 DEF TurnInv, TieInv
    <3>6. ASSUME NEW j \in i + 1 .. n + 1, delivered'[j].reader = delivered[i].reader
          PROVE  delivered'[j].key # delivered[i].key
      <4>1. CASE j \in i + 1 .. n
        BY <1>3, <3>1, <3>5, <3>6, <4>1 DEF InTurn, n
      <4>2. CASE j = n + 1
        <5>1. SUFFICES ASSUME delivery.key = delivered[i].key, r = delivered[i].reader
                       PROVE  FALSE
          BY <1>3, <1>4, <3>6, <4>2
        <5>2. /\ 1 \in DOMAIN PutBack.queue /\ PutBack.queue[1].reader = delivered[i].reader
              /\ PutBack.queue[1].key = delivered[i].key
          BY <1>1, <1>2, <5>1, HandingOutQueue
        <5>3. Before(PutBack.queue, w, r)
          BY <1>3, <2>3, <3>4, <5>1, <5>2, PutBackInTurn
        <5>4. QED
          BY <1>1, <1>2, <5>3, HandingOutQueue
      <4>3. QED
        BY <1>3, <2>3, <4>1, <4>2
    <3>7. ASSUME NEW q \in DOMAIN queue_', queue_'[q].reader = delivered[i].reader,
                 queue_'[q].key = delivered[i].key
          PROVE  Before(queue_', w, delivered[i].reader)
      <4>1. PICK p \in DOMAIN PutBack.queue : PutBack.queue[p] = queue_'[q]
        BY <1>1, <1>2, HandingOutQueue
      <4>2. Before(PutBack.queue, w, delivered[i].reader)
        BY <1>3, <2>3, <3>4, <3>7, <4>1, PutBackInTurn
      <4>3. QED
        BY <1>1, <1>2, <3>2, <4>2, HandingOutQueue
    <3>8. QED
      BY <1>3, <3>1, <3>6, <3>7 DEF InTurn, Before
  <2>4. QED
    BY <1>3, <2>2, <2>3
<1>8. QED
  BY <1>5, <1>6, <1>7

(* A file that is added waits since the last packet: for no packet at all. *)
(* Its first entry may join the queue, where the others keep their order.  *)
LEMMA AddingFileTakesTurns ==
  ASSUME TurnInv, NEW f \in Contents, AddFile(f)
  PROVE  FilesKnown' /\ LastIsCurrent' /\ TieInv'
<1> DEFINE n == Len(storage_)
           grown == Append(storage_, NewReader(f))
<1>1. IInv
  BY DEF TurnInv
<1>2. /\ n \in Nat
      /\ DOMAIN storage_ = 1 .. n /\ DOMAIN storage_' = 1 .. n + 1
      /\ \A i \in 1 .. n : storage_'[i].src = storage_[i].src
      /\ since'[n + 1] = Len(delivered)
      /\ \A i \in 1 .. n : cursor'[i] = cursor[i] /\ since'[i] = since[i]
      /\ current_' = current_ /\ delivered' = delivered
  BY <1>1, AddingFiles
<1>3. /\ DOMAIN delivered = 1 .. Len(delivered) /\ Len(delivered) \in Nat
      /\ queue_ \in Seq(Entry) /\ Sorted(queue_) /\ storage_ \in Seq(ReaderType)
      /\ \A q \in DOMAIN queue_ : queue_[q].reader \in 1 .. n
  BY <1>1, LenProperties DEF IInv, TypeOK
<1>4. /\ NewReader(f) \in ReaderType /\ Coherent(NewReader(f))
      /\ grown[n + 1] = NewReader(f) /\ DOMAIN grown = 1 .. n + 1
  <2>1. NewReader(f) \in ReaderType /\ Coherent(NewReader(f))
    BY NewReaderType, SourceAssumption
  <2>2. /\ grown \in Seq(ReaderType) /\ Len(grown) = n + 1 /\ grown[n + 1] = NewReader(f)
    BY <1>3, <2>1, AppendProperties
  <2>3. QED
    BY <2>1, <2>2, LenProperties
<1>5. queue_' = ReturnToQueue(grown, queue_, n + 1).queue
  BY DEF AddFile
<1> HIDE DEF grown
<1>6. \/ queue_' = queue_
      \/ \E entry \in Entry : entry.reader = n + 1 /\ queue_' = Emplace(queue_, entry)
  <2>1. n + 1 \in DOMAIN grown /\ n + 1 \in Nat \ {0}
    BY <1>2, <1>4
  <2>2. QED
    BY <1>4, <1>5, <2>1, ReturnedEntry
<1> HIDE DEF n
<1>7. ASSUME NEW w, NEW v, Before(queue_, w, v)
      PROVE  Before(queue_', w, v)
  BY <1>3, <1>6, <1>7, EmplaceOrder
<1>8. ASSUME NEW q \in DOMAIN queue_', queue_'[q].reader # n + 1
      PROVE  \E k \in DOMAIN queue_ : queue_'[q] = queue_[k]
  <2>1. CASE queue_' = queue_
    BY <1>8, <2>1
  <2>2. ASSUME NEW entry \in Entry, entry.reader = n + 1, queue_' = Emplace(queue_, entry)
        PROVE  \E k \in DOMAIN queue_ : queue_'[q] = queue_[k]
    BY <1>3, <1>8, <2>2, EmplaceMembers
  <2>3. QED
    BY <1>6, <2>1, <2>2
<1>9. /\ 1 .. n \subseteq 1 .. n + 1 /\ n + 1 \notin 1 .. n
      /\ \A w \in 1 .. n + 1 : w = n + 1 \/ w \in 1 .. n
  BY <1>2
<1>10. \A d \in DOMAIN delivered : delivered[d].reader \in 1 .. n
  BY <1>2 DEF TurnInv, FilesKnown
<1>11. FilesKnown'
  BY <1>2, <1>9, <1>10 DEF FilesKnown
<1>12. LastIsCurrent'
  BY <1>2 DEF TurnInv, LastIsCurrent
<1>13. TieInv'
  <2>1. SUFFICES ASSUME NEW i \in DOMAIN delivered, NEW w, Waits(w, i)' PROVE InTurn(w, i)'
    BY <1>2 DEF TieInv
  <2>2. w # n + 1
    <3>1. ~(Len(delivered) < i)
      BY <1>3
    <3>2. QED
      BY <1>2, <2>1, <3>1 DEF Waits
  <2>3. w \in 1 .. n
    BY <1>2, <1>9, <2>1, <2>2 DEF Waits
  <2>4. Waits(w, i)
    BY <1>2, <2>1, <2>3 DEF Waits, HasNext
  <2>5. InTurn(w, i)
    BY <2>4 DEF TurnInv, TieInv
  <2>6. ASSUME NEW q \in DOMAIN queue_', queue_'[q].reader = delivered[i].reader,
               queue_'[q].key = delivered[i].key
        PROVE  Before(queue_', w, delivered[i].reader)
    <3>1. queue_'[q].reader # n + 1
      BY <1>9, <1>10, <2>6
    <3>2. PICK k \in DOMAIN queue_ : queue_'[q] = queue_[k]
      BY <1>8, <3>1
    <3>3. Before(queue_, w, delivered[i].reader)
      BY <2>5, <2>6, <3>2 DEF InTurn
    <3>4. QED
      BY <1>7, <3>3
  <2>7. QED
    BY <1>2, <2>5, <2>6 DEF InTurn, Before
<1>14. QED
  BY <1>11, <1>12, <1>13

(* Other steps leave the files, the queue and the history as they are.     *)
LEMMA OthersTakeTurns ==
  ASSUME TurnInv, SourcesStay, current_'.reader \in {0, current_.reader},
         UNCHANGED <<queue_, since, cursor, delivered>>
  PROVE  FilesKnown' /\ LastIsCurrent' /\ TieInv'
<1>1. FilesKnown' /\ LastIsCurrent'
  BY DEF TurnInv, FilesKnown, LastIsCurrent, SourcesStay
<1>2. ASSUME NEW i \in DOMAIN delivered, NEW w, Waits(w, i)' PROVE InTurn(w, i)'
  <2>1. Waits(w, i)
    BY <1>2 DEF Waits, HasNext, SourcesStay
  <2>2. InTurn(w, i)
    BY <2>1 DEF TurnInv, TieInv
  <2>3. QED
    BY <2>2 DEF InTurn, Before
<1>3. TieInv'
  BY <1>2 DEF TieInv
<1>4. QED
  BY <1>1, <1>3

LEMMA InitTurn == Init => TurnInv
<1>1. SUFFICES ASSUME Init PROVE FilesKnown /\ LastIsCurrent /\ TieInv
  BY InitInvariant DEF TurnInv
<1>2. delivered = <<>> /\ current_.reader = 0 /\ DOMAIN <<>> = {}
  BY <1>1, EmptySeq DEF Init
<1>3. QED
  BY <1>2 DEF FilesKnown, LastIsCurrent, TieInv

LEMMA TurnStep == TurnInv /\ [Next]_vars => TurnInv'
<1>1. SUFFICES ASSUME TurnInv, [Next]_vars PROVE FilesKnown' /\ LastIsCurrent' /\ TieInv'
  BY StepKeeps DEF TurnInv
<1>2. IInv
  BY <1>1 DEF TurnInv
<1>3. ASSUME NEW f \in Contents, AddFile(f) PROVE FilesKnown' /\ LastIsCurrent' /\ TieInv'
  BY <1>1, <1>3, AddingFileTakesTurns
<1>4. CASE ReadAvailable
  BY <1>1, <1>4, HandingOutTakesTurns
<1>5. CASE ReadExhausted
  <2>1. storage_' = PutBack.storage /\ UNCHANGED <<queue_, since, cursor, delivered>>
    BY <1>5 DEF ReadExhausted, Exhausted
  <2>2. current_'.reader = 0
    BY <1>2, <1>5 DEF ReadExhausted, IInv, TypeOK, Context
  <2>3. QED
    BY <1>1, <1>2, <2>1, <2>2, PutBackSources, OthersTakeTurns
<1>6. CASE UNCHANGED <<storage_, queue_, current_, since, cursor, delivered>>
  <2>1. SourcesStay
    BY <1>6 DEF SourcesStay
  <2>2. QED
    BY <1>1, <1>6, <2>1, OthersTakeTurns
<1>7. QED
  BY <1>1, <1>3, <1>4, <1>5, <1>6 DEF Next, ReadNextPacket, CallbackReturns, SetDoneCallback, vars

(***************************************************************************)
(* Files with equal time stamps take turns, for any files and any calls:   *)
(* none is served twice while another waits with the same time stamp.      *)
(***************************************************************************)
THEOREM FilesTakeTurns == Spec => []TiesTakeTurns
<1>1. TurnInv => TiesTakeTurns
  <2>1. SUFFICES ASSUME TurnInv, NEW i \in DOMAIN delivered, NEW j \in DOMAIN delivered, i < j,
                        delivered[i].reader = delivered[j].reader,
                        delivered[i].key = delivered[j].key,
                        NEW waiting \in DOMAIN storage_, since[waiting] < i, HasNext(waiting),
                        TimeOf(storage_[waiting].src, cursor[waiting]) = delivered[i].key,
                        \A k \in i + 1 .. Len(delivered) : delivered[k].reader # waiting
                 PROVE  FALSE
    BY DEF TiesTakeTurns
  <2>2. j \in i + 1 .. Len(delivered)
    <3>1. DOMAIN delivered = 1 .. Len(delivered) /\ Len(delivered) \in Nat
      BY <2>1, LenProperties DEF TurnInv, IInv, TypeOK
    <3>2. QED
      BY <2>1, <3>1
  <2>3. waiting # delivered[i].reader
    BY <2>1, <2>2
  <2>4. Waits(waiting, i)
    BY <2>1, <2>3 DEF Waits
  <2>5. InTurn(waiting, i)
    BY <2>1, <2>4 DEF TurnInv, TieInv
  <2>6. QED
    BY <2>1, <2>2, <2>5 DEF InTurn
<1>2. QED
  BY <1>1, InitTurn, TurnStep, PTL DEF Spec
-----------------------------------------------------------------------------
(***************************************************************************)
(* What LoopEnds rests on besides fairness.  A call of readNextPacket(),   *)
(* the user's or a callback's, brings one file on, which is finite, and no *)
(* file back, or isDone() is true when it returns.                         *)
(***************************************************************************)
Advances(r) ==
  /\ cursor'[r] \in cursor[r] + 1 .. Len(storage_[r].src.data)
  /\ \A i \in DOMAIN cursor \ {r} : cursor'[i] = cursor[i]

CallAdvances ==
  ReadNextPacket => /\ SourcesStay
                    /\ \/ \E r \in DOMAIN storage_ : Advances(r)
                       \/ IsDone' /\ cursor' = cursor

(* No call of readNextPacket() is in vain: a loop over isDone() gets on.   *)
THEOREM EveryCallAdvances == Spec => [][CallAdvances]_vars
<1>1. IInv /\ ReadAvailable => SourcesStay /\ \E r \in DOMAIN storage_ : Advances(r)
  <2> SUFFICES ASSUME IInv, ReadAvailable
               PROVE  SourcesStay /\ \E r \in DOMAIN storage_ : Advances(r)
    OBVIOUS
  <2>1. PICK r, delivery : Hands(r, delivery)
    BY HandingOut
  <2> DEFINE f == storage_[r].src
  <2>2. /\ r \in DOMAIN storage_ /\ HasRecord(f, cursor[r]) /\ SourcesStay
        /\ cursor' = [cursor EXCEPT ![r] = NextRecord(f, cursor[r])]
    BY <2>1 DEF Hands, HasNext
  <2>3. /\ DOMAIN storage_ = 1 .. Len(storage_) /\ DOMAIN cursor = 1 .. Len(storage_)
        /\ f \in FileType /\ cursor[r] \in Nat
    <3>1. /\ storage_ \in Seq(ReaderType) /\ cursor \in Seq(Nat)
          /\ Len(cursor) = Len(storage_)
      BY DEF IInv, TypeOK
    <3>2. DOMAIN storage_ = 1 .. Len(storage_) /\ DOMAIN cursor = 1 .. Len(storage_)
      BY <3>1, LenProperties
    <3>3. storage_[r] \in ReaderType /\ cursor[r] \in Nat
      BY <2>2, <3>1, <3>2, ElementOfSeq
    <3>4. QED
      BY <3>2, <3>3 DEF ReaderType
  <2>4. NextRecord(f, cursor[r]) \in cursor[r] + 1 .. Len(f.data)
    BY <2>2, <2>3, NextRecordWithin
  <2>5. Advances(r)
    BY <2>2, <2>3, <2>4 DEF Advances
  <2>6. QED
    BY <2>2, <2>5
<1>2. IInv /\ ReadExhausted => SourcesStay /\ IsDone' /\ cursor' = cursor
  <2> SUFFICES ASSUME IInv, ReadExhausted
               PROVE  SourcesStay /\ IsDone' /\ cursor' = cursor
    OBVIOUS
  <2>1. storage_' = PutBack.storage /\ cursor' = cursor
    BY DEF ReadExhausted, Exhausted
  <2>2. IsDone'
    BY ReadExhaustedEnds DEF Merge!End
  <2>3. QED
    BY <2>1, <2>2, PutBackSources DEF SourcesStay
<1>3. IInv /\ [Next]_vars => [CallAdvances]_vars
  BY <1>1, <1>2 DEF CallAdvances, ReadNextPacket
<1>4. QED
  BY <1>3, Invariance, PTL DEF Spec
=============================================================================
