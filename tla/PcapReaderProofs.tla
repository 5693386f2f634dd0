-------------------------- MODULE PcapReaderProofs --------------------------
(***************************************************************************)
(* What Read and ReadPacket do, for every file and every scale.            *)
(***************************************************************************)
EXTENDS PcapReader, TLAPS, SequenceTheorems

(* Part of a sequence of words is a sequence of words.                     *)
LEMMA Block ==
  ASSUME NEW S, NEW s \in Seq(S), NEW m \in Nat, NEW n \in Nat,
         m + n <= Len(s)
  PROVE  /\ SubSeq(s, m + 1, m + n) \in Seq(S)
         /\ Len(SubSeq(s, m + 1, m + n)) = n
         /\ \A i \in 1 .. n : SubSeq(s, m + 1, m + n)[i] = s[m + i]
<1>1. \A i \in m + 1 .. m + n : s[i] \in S
  BY ElementOfSeq, SMT
<1>2. /\ SubSeq(s, m + 1, m + n) \in Seq(S)
      /\ Len(SubSeq(s, m + 1, m + n)) = IF m + 1 <= m + n THEN m + n - (m + 1) + 1 ELSE 0
      /\ \A i \in 1 .. m + n - (m + 1) + 1 :
           SubSeq(s, m + 1, m + n)[i] = s[m + 1 + i - 1]
  <2>1. m + 1 \in Int /\ m + n \in Int
    OBVIOUS
  <2>2. QED
    BY <1>1, <2>1, SubSeqProperties
<1>3. QED
  BY <1>2

(* A stream stays a stream; its data never change and its position stays   *)
(* within them.                                                            *)
LEMMA ReadType ==
  ASSUME NEW s \in StreamType, s.pos <= Len(s.data), NEW n \in Nat
  PROVE  /\ Read(s, n).stream \in StreamType
         /\ Read(s, n).stream.data = s.data
         /\ Read(s, n).stream.pos <= Len(s.data)
         /\ Read(s, n).words \in Seq(Word)
         /\ Read(s, n).count \in Nat
<1>1. s.data \in Seq(Word) /\ s.pos \in Nat /\ Len(s.data) \in Nat
  BY LenProperties DEF StreamType
<1>2. CASE ~IsGood(s)
  BY <1>1, <1>2, EmptySeq DEF Read, StreamType
<1>3. CASE IsGood(s) /\ n <= Rest(s)
  <2>1. SubSeq(s.data, s.pos + 1, s.pos + n) \in Seq(Word)
    BY <1>1, <1>3, Block DEF Rest
  <2>2. QED
    BY <1>1, <1>3, <2>1 DEF Read, Rest, StreamType
<1>4. CASE IsGood(s) /\ ~(n <= Rest(s))
  <2>1. SubSeq(s.data, s.pos + 1, Len(s.data)) \in Seq(Word)
    <3>1. Rest(s) \in Nat /\ s.pos + Rest(s) = Len(s.data)
      BY <1>1 DEF Rest
    <3>2. QED
      BY <1>1, <3>1, Block
  <2>2. Rest(s) \in Nat
    BY <1>1 DEF Rest
  <2>3. CASE s.ending = "throw"
    <3> DEFINE after == [s EXCEPT !.pos = Len(s.data), !.bad = TRUE]
    <3>1. Read(s, n) = [ stream |-> after,
                         words  |-> SubSeq(s.data, s.pos + 1, Len(s.data)),
                         count  |-> 0 ]
      BY <1>4, <2>3 DEF Read
    <3>2. after \in StreamType /\ after.data = s.data /\ after.pos = Len(s.data)
      BY <1>1 DEF StreamType
    <3> HIDE DEF after
    <3>3. QED
      BY <1>1, <2>1, <3>1, <3>2
  <2>4. CASE s.ending = "eof"
    <3> DEFINE after == [s EXCEPT !.pos = Len(s.data), !.eof = TRUE, !.fail = TRUE]
    <3>1. Read(s, n) = [ stream |-> after,
                         words  |-> SubSeq(s.data, s.pos + 1, Len(s.data)),
                         count  |-> Rest(s) ]
      BY <1>4, <2>4 DEF Read
    <3>2. after \in StreamType /\ after.data = s.data /\ after.pos = Len(s.data)
      BY <1>1 DEF StreamType
    <3> HIDE DEF after
    <3>3. QED
      BY <1>1, <2>1, <2>2, <3>1, <3>2
  <2>5. QED
    BY <2>3, <2>4 DEF StreamType
<1>5. QED
  BY <1>2, <1>3, <1>4

(* A full read takes the next n words and leaves the stream good.          *)
LEMMA ReadFull ==
  ASSUME NEW s \in StreamType, NEW n \in Nat, IsGood(s), s.pos + n <= Len(s.data)
  PROVE  /\ Read(s, n).stream = [s EXCEPT !.pos = s.pos + n]
         /\ Read(s, n).words = SubSeq(s.data, s.pos + 1, s.pos + n)
         /\ Read(s, n).count = n
<1>1. s.pos \in Nat /\ Len(s.data) \in Nat
  BY LenProperties DEF StreamType
<1>2. n <= Rest(s)
  BY <1>1 DEF Rest
<1>3. QED
  BY <1>2 DEF Read

(* A read that is not full reports less than it was asked for.             *)
LEMMA ReadShort ==
  ASSUME NEW s \in StreamType, s.pos <= Len(s.data), NEW n \in Nat \ {0},
         ~IsGood(s) \/ Len(s.data) < s.pos + n
  PROVE  Read(s, n).count # n
<1>1. s.pos \in Nat /\ Len(s.data) \in Nat
  BY LenProperties DEF StreamType
<1>2. QED
  BY <1>1 DEF Read, Rest

-----------------------------------------------------------------------------
(* A new reader is a reader at the start of its file, and relates to it.   *)
LEMMA NewReaderType ==
  ASSUME NEW f \in FileType
  PROVE  /\ NewReader(f) \in ReaderType
         /\ NewReader(f).src = f
         /\ NewReader(f).file.pos = 0
         /\ IsGood(NewReader(f).file)
         /\ Coherent(NewReader(f))
<1>1. Zeros(f.header.snaplen) \in Seq(Word) /\ Len(Zeros(f.header.snaplen)) = f.header.snaplen
  <2>1. f.header.snaplen \in Nat /\ 0 \in Word
    BY FileReaderAssumption DEF FileType, Header, Word
  <2>2. QED
    BY <2>1 DEF Zeros
<1>2. <<>> \in Seq(Word) /\ Len(<<>>) = 0
  BY EmptySeq
<1>3. CASE HeaderAccepted(f)
  BY <1>1, <1>2, <1>3 DEF NewReader, HeaderAccepted, HeaderRead, Open, Stream,
     ReaderType, StreamType, FileType, Header, IsGood, IsOk, Coherent
<1>4. CASE ~HeaderAccepted(f)
  BY <1>2, <1>4 DEF NewReader, Unopened, Stream,
     ReaderType, StreamType, FileType, Header, IsGood, IsOk, Coherent
<1>5. QED
  BY <1>3, <1>4

(* What was read is copied over the buffer, whose length stays.            *)
LEMMA OverlayType ==
  ASSUME NEW buffer \in Seq(Word), NEW words \in Seq(Word)
  PROVE  /\ Overlay(buffer, words) \in Seq(Word)
         /\ Len(Overlay(buffer, words)) = Len(buffer)
         /\ \A i \in 1 .. Len(buffer) :
              i <= Len(words) => Overlay(buffer, words)[i] = words[i]
<1>1. Len(buffer) \in Nat /\ Len(words) \in Nat
  BY LenProperties
<1>2. \A i \in 1 .. Len(buffer) :
        (IF i <= Len(words) THEN words[i] ELSE buffer[i]) \in Word
  BY <1>1, ElementOfSeq
<1>3. QED
  BY <1>1, <1>2 DEF Overlay

(* A full read of three words yields three words.                          *)
LEMMA HeaderWordsRead ==
  ASSUME NEW s \in StreamType, s.pos <= Len(s.data),
         Read(s, HeaderWords).count = HeaderWords
  PROVE  /\ IsGood(s)
         /\ s.pos + HeaderWords <= Len(s.data)
<1>1. HeaderWords \in Nat \ {0} /\ s.pos \in Nat /\ Len(s.data) \in Nat
  BY LenProperties DEF StreamType, HeaderWords
<1>2. QED
  BY <1>1, ReadShort

LEMMA NanosecondsType ==
  ASSUME NEW r \in ReaderType, NEW w \in Word
  PROVE  Nanoseconds(r, w) \in Word
<1>1. w * UsecScale \in Nat
  BY ReaderAssumption DEF Word
<1>2. (w * UsecScale) % Word32 \in 0 .. Word32 - 1
  BY <1>1, FileReaderAssumption
<1>3. QED
  BY <1>2 DEF Nanoseconds, Word

(* A number below the modulus is its own remainder.                        *)
LEMMA RemainderOfSmall ==
  ASSUME NEW n \in Nat, n < Word32
  PROVE  n % Word32 = n
BY FileReaderAssumption, Z3

(* The 32 bits of the multiplication are enough for a fraction of a second. *)
LEMMA NanosecondsOfRecord ==
  ASSUME NEW r \in ReaderType, NEW p \in Nat, r.src.data[p + 2] \in Word,
         r.scale = IF r.src.header.magic = "usec" THEN "Up" ELSE "PassThrough"
  PROVE  Nanoseconds(r, r.src.data[p + 2]) = NsecOf(r.src, p)
<1> DEFINE w == r.src.data[p + 2]
<1>1. w \in Nat /\ w < Word32 /\ w * UsecScale \in Nat /\ NsPerSec <= Word32
  BY ReaderAssumption, FileReaderAssumption DEF Word
<1> HIDE DEF w
<1>2. Fraction(r.src, p) = (IF r.src.header.magic = "usec" THEN w * UsecScale ELSE w)
      /\ Fraction(r.src, p) \in Nat
  BY <1>1 DEF Fraction, w
<1>3. Nanoseconds(r, w) = Fraction(r.src, p) % Word32
  <2>1. CASE r.src.header.magic = "usec"
    BY <1>2, <2>1 DEF Nanoseconds
  <2>2. CASE r.src.header.magic # "usec"
    <3>1. Nanoseconds(r, w) = w /\ Fraction(r.src, p) = w
      BY <1>2, <2>2 DEF Nanoseconds
    <3>2. QED
      BY <1>1, <3>1, RemainderOfSmall
  <2>3. QED
    BY <2>1, <2>2
<1>4. CASE Fraction(r.src, p) < NsPerSec
  <2>1. Fraction(r.src, p) < Word32
    BY <1>1, <1>2, <1>4, ReaderAssumption, FileReaderAssumption
  <2>2. Fraction(r.src, p) % Word32 = Fraction(r.src, p)
    BY <1>2, <2>1, RemainderOfSmall
  <2>3. QED
    BY <1>3, <1>4, <2>2 DEF NsecOf, w
<1>5. CASE ~(Fraction(r.src, p) < NsPerSec)
  BY <1>3, <1>5 DEF NsecOf, w
<1>6. QED
  BY <1>4, <1>5

-----------------------------------------------------------------------------
(***************************************************************************)
(* Where the format has a record, readPacket() returns that record, stands *)
(* behind it, and the buffer holds its payload.                            *)
(***************************************************************************)
LEMMA ReadPacketNext ==
  ASSUME NEW r \in ReaderType, Coherent(r), IsGood(r.file),
         HasRecord(r.src, r.file.pos)
  PROVE  LET after == ReadPacket(r).reader
             packet == ReadPacket(r).packet
             p == r.file.pos
         IN /\ after \in ReaderType
            /\ after.src = r.src
            /\ Coherent(after)
            /\ IsGood(after.file)
            /\ after.file.pos = NextRecord(r.src, p)
            /\ packet \in PacketType
            /\ ~packet.isNull
            /\ packet.sec = r.src.data[p + 1]
            /\ packet.nsec = NsecOf(r.src, p)
            /\ packet.sec * NsPerSec + packet.nsec = TimeOf(r.src, p)
            /\ packet.off = p + HeaderWords
            /\ packet.caplen = r.src.data[p + 3]
            /\ packet.caplen <= Len(after.buffer)
            /\ SubSeq(after.buffer, 1, packet.caplen)
                 = SubSeq(r.src.data, packet.off + 1, packet.off + packet.caplen)
<1> DEFINE data == r.src.data
           p == r.file.pos
           c == data[p + 3]
<1>1. /\ r.file \in StreamType /\ r.file.data = data /\ r.file.pos = p /\ p \in Nat
      /\ r.src.data = data /\ data \in Seq(Word) /\ Len(data) \in Nat
      /\ r.buffer \in Seq(Word) /\ Len(r.buffer) \in Nat /\ Len(r.buffer) > 0
      /\ c = data[p + 3]
      /\ c <= Len(r.buffer)
      /\ p + 3 <= Len(data) /\ p + 3 + c <= Len(data)
  BY LenProperties DEF ReaderType, StreamType, Coherent, HasRecord, HeaderWords
<1> HIDE DEF data, p, c
<1> DEFINE s1 == [r.file EXCEPT !.pos = p + 3]
           s2 == [r.file EXCEPT !.pos = p + 3 + c]
           payload == SubSeq(data, p + 3 + 1, p + 3 + c)
           buffer == Overlay(r.buffer, payload)
           after == [r EXCEPT !.file = s2, !.buffer = buffer]
           packet == [ sec    |-> data[p + 1],
                       nsec   |-> Nanoseconds(r, data[p + 2]),
                       caplen |-> c,
                       isNull |-> FALSE,
                       off    |-> p + HeaderWords ]
<1>2. data[p + 1] \in Word /\ data[p + 2] \in Word /\ c \in Word /\ c \in Nat
  <2>1. p + 1 \in 1 .. Len(data) /\ p + 2 \in 1 .. Len(data) /\ p + 3 \in 1 .. Len(data)
    BY <1>1
  <2>2. data[p + 1] \in Word /\ data[p + 2] \in Word /\ data[p + 3] \in Word
    BY <1>1, <2>1, ElementOfSeq
  <2>3. QED
    BY <1>1, <2>2 DEF Word
<1>3. /\ Read(r.file, HeaderWords).stream = s1
      /\ Read(r.file, HeaderWords).words = SubSeq(data, p + 1, p + 3)
      /\ Read(r.file, HeaderWords).count = 3
  <2>1. 3 \in Nat /\ r.file.pos + 3 <= Len(r.file.data)
    BY <1>1
  <2>2. /\ Read(r.file, 3).stream = [r.file EXCEPT !.pos = r.file.pos + 3]
        /\ Read(r.file, 3).words = SubSeq(r.file.data, r.file.pos + 1, r.file.pos + 3)
        /\ Read(r.file, 3).count = 3
    BY <1>1, <2>1, ReadFull
  <2>3. QED
    BY <1>1, <2>2 DEF HeaderWords
<1>4. /\ SubSeq(data, p + 1, p + 3)[1] = data[p + 1]
      /\ SubSeq(data, p + 1, p + 3)[2] = data[p + 2]
      /\ SubSeq(data, p + 1, p + 3)[3] = c
  <2>1. 3 \in Nat /\ 1 \in 1 .. 3 /\ 2 \in 1 .. 3 /\ 3 \in 1 .. 3
    OBVIOUS
  <2>2. QED
    BY <1>1, <2>1, Block
<1>5. s1 \in StreamType /\ IsGood(s1) /\ s1.data = data /\ s1.pos = p + 3
  BY <1>1 DEF StreamType, IsGood, IsOk
<1>6. /\ Read(s1, c).stream = s2
      /\ Read(s1, c).words = payload
      /\ Read(s1, c).count = c
  <2>1. [s1 EXCEPT !.pos = s1.pos + c] = s2
    BY <1>1, <1>5 DEF StreamType
  <2>2. s1.pos + c <= Len(s1.data)
    BY <1>1, <1>5
  <2> HIDE DEF s1
  <2>3. /\ Read(s1, c).stream = [s1 EXCEPT !.pos = s1.pos + c]
        /\ Read(s1, c).words = SubSeq(s1.data, s1.pos + 1, s1.pos + c)
        /\ Read(s1, c).count = c
    BY <1>2, <1>5, <2>2, ReadFull
  <2>4. QED
    BY <1>5, <2>1, <2>3
<1>7. /\ s2 \in StreamType /\ IsGood(s2) /\ s2.data = data /\ s2.pos = p + 3 + c
  <2>1. p + 3 + c \in Nat
    BY <1>1, <1>2
  <2> DEFINE q == p + 3 + c
  <2> HIDE DEF q
  <2>2. [r.file EXCEPT !.pos = q] \in StreamType
    BY <1>1, <2>1 DEF StreamType, q
  <2>3. LET s == [r.file EXCEPT !.pos = q] IN
        IsGood(s) /\ s.data = data /\ s.pos = q
    BY <1>1 DEF StreamType, IsGood, IsOk
  <2>4. QED
    BY <2>2, <2>3 DEF q
<1>8. /\ payload \in Seq(Word) /\ Len(payload) = c
  <2>1. p + 3 \in Nat
    BY <1>1
  <2>2. QED
    BY <1>1, <1>2, <2>1, Block
<1>9. /\ buffer \in Seq(Word)
      /\ Len(buffer) = Len(r.buffer)
      /\ \A i \in 1 .. Len(buffer) : i <= Len(payload) => buffer[i] = payload[i]
  <2> HIDE DEF payload
  <2>1. /\ Overlay(r.buffer, payload) \in Seq(Word)
        /\ Len(Overlay(r.buffer, payload)) = Len(r.buffer)
        /\ \A i \in 1 .. Len(r.buffer) :
             i <= Len(payload) => Overlay(r.buffer, payload)[i] = payload[i]
    BY <1>1, <1>8, OverlayType
  <2>2. QED
    BY <2>1
<1>10. SubSeq(buffer, 1, c) = payload
  <2>1. /\ SubSeq(buffer, 1, c) \in Seq(Word)
        /\ Len(SubSeq(buffer, 1, c)) = c
        /\ \A i \in 1 .. c : SubSeq(buffer, 1, c)[i] = buffer[i]
    <3>1. 0 \in Nat /\ 0 + c <= Len(buffer) /\ 0 + 1 = 1 /\ 0 + c = c
      BY <1>1, <1>2, <1>9
    <3>2. /\ SubSeq(buffer, 0 + 1, 0 + c) \in Seq(Word)
          /\ Len(SubSeq(buffer, 0 + 1, 0 + c)) = c
          /\ \A i \in 1 .. c : SubSeq(buffer, 0 + 1, 0 + c)[i] = buffer[0 + i]
      BY <1>2, <1>9, <3>1, Block
    <3>3. QED
      BY <3>1, <3>2
  <2> HIDE DEF payload, buffer
  <2>2. \A i \in 1 .. c : SubSeq(buffer, 1, c)[i] = payload[i]
    <3>1. 1 .. c \subseteq 1 .. Len(buffer)
      BY <1>1, <1>2, <1>9
    <3>2. \A i \in 1 .. c : i <= Len(payload)
      BY <1>2, <1>8
    <3> HIDE DEF c
    <3>3. QED
      BY <1>9, <2>1, <3>1, <3>2
  <2>3. QED
    BY <1>8, <2>1, <2>2, SeqEqual
<1>11. r.buffer # <<>>
  BY <1>1, EmptySeq
<1>12. ReadPacket(r) = [reader |-> after, packet |-> packet]
  <2> HIDE DEF s1, s2, payload, buffer, c
  <2>2. /\ Read(r.file, HeaderWords).count = HeaderWords
        /\ Read(r.file, HeaderWords).words[3] = c
        /\ Read(r.file, HeaderWords).words[2] = data[p + 2]
        /\ Read(r.file, HeaderWords).words[1] = data[p + 1]
    BY <1>3, <1>4 DEF HeaderWords
  <2>3. ~(c > Len(r.buffer))
    BY <1>1, <1>2
  <2>4. /\ Read(Read(r.file, HeaderWords).stream, c).stream = s2
        /\ Read(Read(r.file, HeaderWords).stream, c).words = payload
        /\ Read(Read(r.file, HeaderWords).stream, c).count = c
    BY <1>3, <1>6
  <2>5. QED
    BY <1>1, <1>11, <2>2, <2>3, <2>4 DEF ReadPacket, TooLong, Short, buffer
<1>13. after \in ReaderType /\ after.src = r.src /\ after.file = s2 /\ after.buffer = buffer
       /\ after.scale = r.scale
  <2> HIDE DEF s2, buffer
  <2>1. QED
    BY <1>7, <1>9 DEF ReaderType
<1>14. Coherent(after)
  <2> HIDE DEF after, s2, buffer
  <2>1. QED
    BY <1>1, <1>7, <1>9, <1>13 DEF Coherent, HasRecord
<1>15. packet \in PacketType
  <2>1. Nanoseconds(r, data[p + 2]) \in Word
    BY <1>2, NanosecondsType
  <2>2. p + HeaderWords \in Nat
    BY <1>1 DEF HeaderWords
  <2>3. QED
    BY <1>2, <2>1, <2>2 DEF PacketType
<1>16. /\ packet.sec = data[p + 1]
       /\ packet.nsec = NsecOf(r.src, p)
       /\ packet.sec * NsPerSec + packet.nsec = TimeOf(r.src, p)
  <2>1. /\ r.scale = IF r.src.header.magic = "usec" THEN "Up" ELSE "PassThrough"
        /\ r.src.data = data /\ p \in Nat
    BY <1>1 DEF Coherent, HasRecord
  <2>2. Nanoseconds(r, data[p + 2]) = NsecOf(r.src, p)
    BY <1>2, <2>1, NanosecondsOfRecord
  <2>3. QED
    BY <2>1, <2>2 DEF TimeOf
<1>17. s2.pos = NextRecord(r.src, p)
  BY <1>1, <1>7 DEF NextRecord, HeaderWords
<1>18. QED
  <2>1. /\ packet.caplen = c /\ packet.off = p + 3 /\ ~packet.isNull
        /\ packet.off = p + HeaderWords
    BY DEF HeaderWords
  <2>2. SubSeq(after.buffer, 1, packet.caplen)
          = SubSeq(r.src.data, packet.off + 1, packet.off + packet.caplen)
    BY <1>1, <1>10, <1>13, <2>1
  <2>5. packet.caplen <= Len(after.buffer)
    BY <1>1, <1>9, <1>13, <2>1
  <2> HIDE DEF after, s2, packet
  <2>3. ReadPacket(r).reader = after /\ ReadPacket(r).packet = packet
    BY <1>12
  <2>4. QED
    BY <1>1, <1>7, <1>13, <1>14, <1>15, <1>16, <1>17, <2>1, <2>2, <2>3, <2>5

(* Replacing a reader's stream by what a read made of it, and its buffer by *)
(* one as long, keeps a reader.                                            *)
LEMMA AfterRead ==
  ASSUME NEW r \in ReaderType, Coherent(r),
         NEW s \in StreamType, s.data = r.file.data, s.pos <= Len(s.data),
         NEW b \in Seq(Word), Len(b) = Len(r.buffer)
  PROVE  /\ [r EXCEPT !.file = s] \in ReaderType
         /\ [r EXCEPT !.file = s].src = r.src
         /\ Coherent([r EXCEPT !.file = s])
         /\ [r EXCEPT !.file = s, !.buffer = b] \in ReaderType
         /\ [r EXCEPT !.file = s, !.buffer = b].src = r.src
         /\ Coherent([r EXCEPT !.file = s, !.buffer = b])
<1>1. /\ [r EXCEPT !.file = s] \in ReaderType
      /\ [r EXCEPT !.file = s].src = r.src
      /\ [r EXCEPT !.file = s].file = s
      /\ [r EXCEPT !.file = s].buffer = r.buffer
      /\ [r EXCEPT !.file = s].scale = r.scale
  BY DEF ReaderType
<1>2. /\ [r EXCEPT !.file = s, !.buffer = b] \in ReaderType
      /\ [r EXCEPT !.file = s, !.buffer = b].src = r.src
      /\ [r EXCEPT !.file = s, !.buffer = b].file = s
      /\ [r EXCEPT !.file = s, !.buffer = b].buffer = b
      /\ [r EXCEPT !.file = s, !.buffer = b].scale = r.scale
  BY DEF ReaderType
<1>3. Coherent([r EXCEPT !.file = s])
  BY <1>1 DEF Coherent
<1>4. Coherent([r EXCEPT !.file = s, !.buffer = b])
  BY <1>2 DEF Coherent
<1>5. QED
  BY <1>1, <1>2, <1>3, <1>4

(***************************************************************************)
(* Where the format has no record, or the stream is not good any more,     *)
(* readPacket() returns a packet that tests false.                         *)
(***************************************************************************)
LEMMA ReadPacketNone ==
  ASSUME NEW r \in ReaderType, Coherent(r),
         ~(IsGood(r.file) /\ HasRecord(r.src, r.file.pos))
  PROVE  /\ ReadPacket(r).reader \in ReaderType
         /\ ReadPacket(r).reader.src = r.src
         /\ Coherent(ReadPacket(r).reader)
         /\ ReadPacket(r).packet.isNull
<1> DEFINE head == Read(r.file, HeaderWords)
           c == head.words[3]
           body == Read(head.stream, c)
<1>1. /\ r.file \in StreamType /\ r.file.pos <= Len(r.file.data) /\ r.file.pos \in Nat
      /\ r.buffer \in Seq(Word) /\ Len(r.buffer) \in Nat
      /\ HeaderWords \in Nat /\ HeaderWords = 3
  BY LenProperties DEF ReaderType, StreamType, Coherent, HeaderWords
<1>2. /\ head.stream \in StreamType
      /\ head.stream.data = r.file.data
      /\ head.stream.pos <= Len(head.stream.data)
  BY <1>1, ReadType
<1>3. CASE head.count # HeaderWords \/ c > Len(r.buffer)
  <2> DEFINE after == [r EXCEPT !.file = head.stream]
  <2>1. ReadPacket(r).reader = after /\ ReadPacket(r).packet.isNull
    BY <1>3 DEF ReadPacket, TooLong, Short, NoPacket
  <2> HIDE DEF head
  <2>2. /\ after \in ReaderType
        /\ after.src = r.src
        /\ Coherent(after)
    BY <1>1, <1>2, AfterRead
  <2> HIDE DEF after
  <2>3. QED
    BY <2>1, <2>2
<1>4. CASE head.count = HeaderWords /\ ~(c > Len(r.buffer))
  <2>1. /\ IsGood(r.file) /\ r.file.pos + 3 <= Len(r.file.data)
    BY <1>1, <1>4, HeaderWordsRead
  <2>2. /\ head.stream = [r.file EXCEPT !.pos = r.file.pos + 3]
        /\ head.words = SubSeq(r.file.data, r.file.pos + 1, r.file.pos + 3)
    BY <1>1, <2>1, ReadFull
  <2>3. r.file.data \in Seq(Word) /\ Len(r.file.data) \in Nat
    BY <1>1, LenProperties DEF StreamType
  <2>4. c = r.file.data[r.file.pos + 3]
    <3>1. 3 \in Nat /\ 3 \in 1 .. 3
      OBVIOUS
    <3>2. QED
      BY <1>1, <2>1, <2>2, <2>3, <3>1, Block
  <2>5. c \in Word /\ c \in Nat
    <3>1. r.file.pos + 3 \in 1 .. Len(r.file.data)
      BY <1>1, <2>1, <2>3
    <3>2. r.file.data[r.file.pos + 3] \in Word
      BY <2>3, <3>1, ElementOfSeq
    <3>3. QED
      BY <2>4, <3>2 DEF Word
  <2>6. HeaderAccepted(r.src) /\ r.file.data = r.src.data
        /\ Len(r.buffer) = r.src.header.snaplen
    <3>1. Len(r.file.data) # 0
      BY <1>1, <2>1, <2>3
    <3>2. QED
      BY <3>1, EmptySeq DEF Coherent
  <2>7. head.stream.pos = r.file.pos + 3 /\ IsGood(head.stream)
    BY <1>1, <2>1, <2>2 DEF StreamType, IsGood, IsOk
  <2>8. /\ body.stream \in StreamType
        /\ body.stream.data = r.file.data
        /\ body.stream.pos <= Len(body.stream.data)
        /\ body.words \in Seq(Word)
    <3> HIDE DEF head, c
    <3>1. QED
      BY <1>2, <2>5, ReadType
  <2> DEFINE filled == [r EXCEPT !.file = body.stream, !.buffer = Overlay(r.buffer, body.words)]
  <2>9. filled \in ReaderType /\ filled.src = r.src /\ Coherent(filled)
    <3> HIDE DEF body
    <3>1. Overlay(r.buffer, body.words) \in Seq(Word)
          /\ Len(Overlay(r.buffer, body.words)) = Len(r.buffer)
      BY <1>1, <2>8, OverlayType
    <3>2. QED
      BY <2>8, <3>1, AfterRead
  <2>10. CASE body.count # c
    <3>1. ReadPacket(r) = [reader |-> filled, packet |-> NoPacket]
      BY <1>4, <2>10 DEF ReadPacket, TooLong, Short
    <3> HIDE DEF filled
    <3>2. QED
      BY <2>9, <3>1 DEF NoPacket
  <2>11. CASE body.count = c
    <3>1. r.file.pos + 3 + c <= Len(r.file.data)
      <4>1. CASE c = 0
        BY <1>1, <2>1, <2>3, <4>1
      <4>2. CASE c # 0
        <5>1. c \in Nat \ {0}
          BY <2>5, <4>2
        <5> HIDE DEF head, c
        <5>2. ~(Len(head.stream.data) < head.stream.pos + c)
          BY <1>2, <2>11, <5>1, ReadShort
        <5>3. QED
          BY <1>1, <1>2, <2>3, <2>5, <2>7, <5>2
      <4>3. QED
        BY <4>1, <4>2
    <3>2. ~(r.src.header.snaplen > 0)
      <4> HIDE DEF head, c
      <4>1. QED
        BY <1>1, <1>4, <2>1, <2>4, <2>5, <2>6, <3>1 DEF HasRecord
    <3>3. r.buffer = <<>>
      BY <1>1, <2>6, <3>2, EmptySeq
    <3>4. ReadPacket(r).reader = filled /\ ReadPacket(r).packet.isNull = (r.buffer = <<>>)
      BY <1>4, <2>11 DEF ReadPacket, TooLong, Short
    <3> HIDE DEF filled
    <3>5. QED
      BY <2>9, <3>3, <3>4
  <2>12. QED
    BY <2>10, <2>11
<1>5. QED
  BY <1>3, <1>4
(* A read that fails, and any read after it, leaves a stream that is not   *)
(* good.                                                                   *)
LEMMA ReadStops ==
  ASSUME NEW s \in StreamType, s.pos <= Len(s.data), NEW n \in Nat,
         ~IsGood(s) \/ Len(s.data) < s.pos + n
  PROVE  ~IsGood(Read(s, n).stream)
<1>1. s.pos \in Nat /\ Len(s.data) \in Nat
  BY LenProperties DEF StreamType
<1>2. CASE ~IsGood(s)
  <2>1. Read(s, n).stream = [s EXCEPT !.fail = TRUE]
    BY <1>2 DEF Read
  <2>2. [s EXCEPT !.fail = TRUE].fail
    BY DEF StreamType
  <2>3. QED
    BY <2>1, <2>2 DEF IsGood, IsOk
<1>3. CASE IsGood(s)
  <2>1. ~(n <= Rest(s))
    BY <1>1, <1>3 DEF Rest
  <2> DEFINE thrown == [s EXCEPT !.pos = Len(s.data), !.bad = TRUE]
             ended == [s EXCEPT !.pos = Len(s.data), !.eof = TRUE, !.fail = TRUE]
  <2>2. Read(s, n).stream \in {thrown, ended}
    BY <1>3, <2>1 DEF Read
  <2>3. thrown.bad /\ ended.fail
    BY DEF StreamType
  <2> HIDE DEF thrown, ended
  <2>4. QED
    BY <2>2, <2>3 DEF IsGood, IsOk
<1>4. QED
  BY <1>2, <1>3

(***************************************************************************)
(* After a call that found no record the stream is not good any more,      *)
(* unless it stopped behind a header with a length no buffer is made for.  *)
(***************************************************************************)
LEMMA ReadPacketStops ==
  ASSUME NEW r \in ReaderType, Coherent(r),
         HeaderAccepted(r.src), r.src.header.snaplen > 0,
         ~(IsGood(r.file) /\ HasRecord(r.src, r.file.pos))
  PROVE  \/ ~IsGood(ReadPacket(r).reader.file)
         \/ /\ IsGood(r.file)
            /\ r.file.pos + HeaderWords <= Len(r.src.data)
            /\ r.src.data[r.file.pos + 3] > r.src.header.snaplen
<1> DEFINE head == Read(r.file, HeaderWords)
           c == head.words[3]
           body == Read(head.stream, c)
<1>1. /\ r.file \in StreamType /\ r.file.pos <= Len(r.file.data) /\ r.file.pos \in Nat
      /\ r.file.data = r.src.data /\ r.file.data \in Seq(Word) /\ Len(r.file.data) \in Nat
      /\ Len(r.buffer) = r.src.header.snaplen /\ Len(r.buffer) \in Nat
      /\ HeaderWords \in Nat \ {0} /\ HeaderWords \in Nat /\ HeaderWords = 3
  BY LenProperties DEF ReaderType, StreamType, Coherent, HeaderWords
<1>2. CASE ~IsGood(r.file) \/ Len(r.file.data) < r.file.pos + HeaderWords
  <2>1. head.count # HeaderWords /\ ~IsGood(head.stream)
    BY <1>1, <1>2, ReadShort, ReadStops
  <2>2. ReadPacket(r).reader = [r EXCEPT !.file = head.stream]
    BY <2>1 DEF ReadPacket
  <2> HIDE DEF head
  <2>3. [r EXCEPT !.file = head.stream].file = head.stream
    BY DEF ReaderType
  <2>4. QED
    BY <2>1, <2>2, <2>3
<1>3. CASE IsGood(r.file) /\ r.file.pos + HeaderWords <= Len(r.file.data)
  <2>0. r.file.pos + 3 <= Len(r.file.data)
    BY <1>1, <1>3
  <2>1. /\ head.stream = [r.file EXCEPT !.pos = r.file.pos + 3]
        /\ head.words = SubSeq(r.file.data, r.file.pos + 1, r.file.pos + 3)
        /\ head.count = HeaderWords
    BY <1>1, <1>3, ReadFull
  <2>2. c = r.file.data[r.file.pos + 3]
    <3>1. /\ 3 \in Nat /\ 3 \in 1 .. 3
          /\ r.file.data \in Seq(Word) /\ r.file.pos \in Nat
      BY <1>1
    <3>2. SubSeq(r.file.data, r.file.pos + 1, r.file.pos + 3)[3] = r.file.data[r.file.pos + 3]
      BY <2>0, <3>1, Block
    <3>3. QED
      BY <2>1, <3>2
  <2>3. c \in Word /\ c \in Nat
    <3>1. r.file.pos + 3 \in 1 .. Len(r.file.data)
      BY <1>1, <1>3
    <3>2. r.file.data[r.file.pos + 3] \in Word
      BY <1>1, <3>1, ElementOfSeq
    <3>3. QED
      BY <2>2, <3>2 DEF Word
  <2>4. CASE c > Len(r.buffer)
    BY <1>1, <1>3, <2>2, <2>4
  <2>5. CASE ~(c > Len(r.buffer))
    <3>1. head.stream \in StreamType
          /\ head.stream.data = r.file.data /\ head.stream.pos = r.file.pos + 3
      <4>1. head.stream \in StreamType /\ head.stream.data = r.file.data
        BY <1>1, ReadType
      <4>2. head.stream.pos = r.file.pos + 3
        BY <1>1, <2>1 DEF StreamType
      <4>3. QED
        BY <4>1, <4>2
    <3>2. Len(head.stream.data) < head.stream.pos + c
          /\ head.stream.pos <= Len(head.stream.data)
      <4>1. r.src.data[r.file.pos + 3] = c /\ c <= r.src.header.snaplen
        BY <1>1, <2>2, <2>3, <2>5
      <4> HIDE DEF head, c
      <4>2. ~HasRecord(r.src, r.file.pos)
        BY <1>3
      <4>3. ~(r.file.pos + HeaderWords + c <= Len(r.src.data))
        BY <1>1, <1>3, <4>1, <4>2 DEF HasRecord
      <4>4. QED
        BY <1>1, <2>0, <2>3, <3>1, <4>3
    <3>3. ~IsGood(body.stream)
      <4> HIDE DEF head, c
      <4>1. QED
        BY <2>3, <3>1, <3>2, ReadStops
    <3> DEFINE filled == [r EXCEPT !.file = body.stream,
                                   !.buffer = Overlay(r.buffer, body.words)]
    <3>4. ReadPacket(r).reader = filled
      BY <2>1, <2>5 DEF ReadPacket, TooLong, Short
    <3>5. filled.file = body.stream
      <4> HIDE DEF body
      <4>1. QED
        BY DEF ReaderType
    <3> HIDE DEF filled, body
    <3>6. QED
      BY <3>3, <3>4, <3>5
  <2>6. QED
    BY <2>4, <2>5
<1>4. QED
  BY <1>1, <1>2, <1>3
(* The next record lies behind, and not outside the file.                  *)
LEMMA NextRecordWithin ==
  ASSUME NEW f \in FileType, NEW p \in Nat, HasRecord(f, p)
  PROVE  NextRecord(f, p) \in p + 1 .. Len(f.data)
<1>1. f.data \in Seq(Word) /\ Len(f.data) \in Nat
  BY LenProperties DEF FileType
<1>2. p + 3 \in 1 .. Len(f.data) /\ p + 3 + f.data[p + 3] <= Len(f.data)
  BY <1>1 DEF HasRecord, HeaderWords
<1>3. f.data[p + 3] \in Word
  BY <1>1, <1>2, ElementOfSeq
<1>4. f.data[p + 3] \in Nat
  BY <1>3 DEF Word
<1>5. QED
  BY <1>1, <1>2, <1>4 DEF NextRecord, HeaderWords

(***************************************************************************)
(* How streams come to their end: a read does not move back, and a stream  *)
(* that is not good is at its end or was thrown out of.                    *)
(***************************************************************************)
EndsKnown(s) == IsGood(s) \/ s.eof \/ s.ending = "throw"

LEMMA ReadForward ==
  ASSUME NEW s \in StreamType, s.pos <= Len(s.data), NEW n \in Nat
  PROVE  /\ Read(s, n).stream.pos >= s.pos
         /\ Read(s, n).stream.ending = s.ending
         /\ EndsKnown(s) => EndsKnown(Read(s, n).stream)
<1> DEFINE moved == [s EXCEPT !.pos = s.pos + n]
           failed == [s EXCEPT !.fail = TRUE]
           thrown == [s EXCEPT !.pos = Len(s.data), !.bad = TRUE]
           ended == [s EXCEPT !.pos = Len(s.data), !.eof = TRUE, !.fail = TRUE]
<1>1. s.pos \in Nat /\ Len(s.data) \in Nat
  BY LenProperties DEF StreamType
<1>2. /\ moved.pos = s.pos + n /\ moved.ending = s.ending /\ IsGood(moved) = IsGood(s)
      /\ moved.eof = s.eof
  BY DEF StreamType, IsGood, IsOk
<1>3. /\ failed.pos = s.pos /\ failed.ending = s.ending /\ failed.eof = s.eof
      /\ thrown.pos = Len(s.data) /\ thrown.ending = s.ending
      /\ ended.pos = Len(s.data) /\ ended.ending = s.ending /\ ended.eof
  BY DEF StreamType
<1>4. \/ Read(s, n).stream = failed /\ ~IsGood(s)
      \/ Read(s, n).stream = moved
      \/ Read(s, n).stream = thrown /\ s.ending = "throw"
      \/ Read(s, n).stream = ended
  BY DEF Read
<1> HIDE DEF moved, failed, thrown, ended
<1>5. QED
  BY <1>1, <1>2, <1>3, <1>4 DEF EndsKnown

(* A call that leaves the stream good has moved on in the file.            *)
LEMMA ReadPacketAdvances ==
  ASSUME NEW r \in ReaderType, Coherent(r)
  PROVE  LET after == ReadPacket(r).reader.file
         IN /\ IsGood(after) => after.pos > r.file.pos
            /\ after.ending = r.file.ending
            /\ EndsKnown(r.file) => EndsKnown(after)
<1> DEFINE head == Read(r.file, HeaderWords)
           c == head.words[3]
           body == Read(head.stream, c)
           after == ReadPacket(r).reader.file
<1>1. /\ r.file \in StreamType /\ r.file.pos <= Len(r.file.data) /\ r.file.pos \in Nat
      /\ r.file.data \in Seq(Word) /\ Len(r.file.data) \in Nat
      /\ HeaderWords \in Nat \ {0} /\ HeaderWords \in Nat /\ HeaderWords = 3
  BY LenProperties DEF ReaderType, StreamType, Coherent, HeaderWords
<1>2. /\ head.stream \in StreamType /\ head.stream.data = r.file.data
      /\ head.stream.pos <= Len(head.stream.data)
      /\ head.stream.ending = r.file.ending
      /\ EndsKnown(r.file) => EndsKnown(head.stream)
  BY <1>1, ReadType, ReadForward
<1>3. CASE ~IsGood(r.file) \/ Len(r.file.data) < r.file.pos + HeaderWords
  <2>1. head.count # HeaderWords /\ ~IsGood(head.stream)
    BY <1>1, <1>3, ReadShort, ReadStops
  <2>2. ReadPacket(r).reader = [r EXCEPT !.file = head.stream]
    BY <2>1 DEF ReadPacket
  <2> HIDE DEF head
  <2>3. after = head.stream
    BY <2>2 DEF ReaderType
  <2>4. QED
    BY <1>2, <2>1, <2>3
<1>4. CASE IsGood(r.file) /\ r.file.pos + HeaderWords <= Len(r.file.data)
  <2>1. /\ r.file.pos + 3 <= Len(r.file.data)
        /\ 3 \in Nat /\ 3 \in 1 .. 3
        /\ r.file.data \in Seq(Word) /\ r.file.pos \in Nat
        /\ r.file.pos + 3 \in 1 .. Len(r.file.data)
    BY <1>1, <1>4
  <2>2. /\ head.stream = [r.file EXCEPT !.pos = r.file.pos + 3]
        /\ head.words = SubSeq(r.file.data, r.file.pos + 1, r.file.pos + 3)
    BY <1>1, <1>4, ReadFull
  <2>3. head.stream.pos = r.file.pos + 3
    BY <1>1, <2>2 DEF StreamType
  <2>4. c \in Nat
    <3>1. SubSeq(r.file.data, r.file.pos + 1, r.file.pos + 3)[3] = r.file.data[r.file.pos + 3]
      BY <2>1, Block
    <3>2. r.file.data[r.file.pos + 3] \in Word
      BY <2>1, ElementOfSeq
    <3>3. c \in Word
      BY <2>2, <3>1, <3>2
    <3> HIDE DEF c
    <3>4. QED
      BY <3>3 DEF Word
  <2>5. after \in {head.stream, body.stream}
    <3>1. \/ ReadPacket(r).reader = [r EXCEPT !.file = head.stream]
          \/ ReadPacket(r).reader = [r EXCEPT !.file = body.stream,
                                              !.buffer = Overlay(r.buffer, body.words)]
      BY DEF ReadPacket
    <3> HIDE DEF head, body
    <3>2. QED
      BY <3>1 DEF ReaderType
  <2> HIDE DEF head, c
  <2>6. /\ body.stream \in StreamType
        /\ body.stream.pos >= head.stream.pos
        /\ body.stream.ending = head.stream.ending
        /\ EndsKnown(head.stream) => EndsKnown(body.stream)
    BY <1>2, <2>4, ReadType, ReadForward
  <2>7. body.stream.pos \in Nat
    BY <2>6 DEF StreamType
  <2> HIDE DEF body, after
  <2>8. /\ after.pos > r.file.pos
        /\ after.ending = r.file.ending
        /\ EndsKnown(r.file) => EndsKnown(after)
    BY <1>2, <2>1, <2>3, <2>5, <2>6, <2>7
  <2>9. QED
    BY <2>8 DEF after
<1>5. QED
  BY <1>1, <1>3, <1>4
=============================================================================
