------------------------- MODULE ConnectionsProofs -------------------------
(***************************************************************************)
(* The programs that connect and accept: what is asked for is what was     *)
(* named, the loop leaks no socket and gives up only in the end, and a     *)
(* connection is in one place, for any clients, names, lists of endpoints, *)
(* length of the queue and length that accept() may find.                  *)
(***************************************************************************)
EXTENDS Connections, SequenceTheorems, FiniteSetTheorems, FunctionTheorems,
        WellFoundedInduction, TLAPS

-----------------------------------------------------------------------------
LEMMA OneColon == <<Colon>> \in Texts /\ Len(<<Colon>>) = 1 /\ <<Colon>>[1] = Colon
BY DEF Texts

(* A name and what it is written as are texts.                             *)
LEMMA NamesAreTexts ==
  ASSUME NEW name \in Names
  PROVE  /\ name.host \in Texts /\ Text(name) \in Texts
         /\ name.port # Null => /\ name.port \in Texts
                               /\ \A i \in 1 .. Len(name.port) : name.port[i] # Colon
         /\ name = [host |-> name.host, port |-> name.port]
<1>1. /\ name.host \in Texts /\ name.port \in Seq(Words) \cup {Null}
      /\ name = [host |-> name.host, port |-> name.port]
  BY ConnectionsAssumption
<1>2. ASSUME name.port # Null
      PROVE  /\ name.port \in Texts
             /\ \A i \in 1 .. Len(name.port) : name.port[i] # Colon
  <2>1. name.port \in Seq(Words)
    BY <1>1, <1>2
  <2>2. name.port \in Texts
    BY <2>1, SeqMonotonic DEF Texts
  <2>3. \A i \in 1 .. Len(name.port) : name.port[i] \in Words
    BY <2>1, ElementOfSeq
  <2>4. QED
    BY <2>2, <2>3, ConnectionsAssumption
<1>3. Text(name) \in Texts
  <2>1. CASE name.port = Null
    BY <1>1, <2>1 DEF Text
  <2>2. CASE name.port # Null
    <3>1. name.host \o <<Colon>> \in Texts
      BY <1>1, OneColon, ConcatProperties DEF Texts
    <3>2. name.host \o <<Colon>> \o name.port \in Texts
      BY <1>2, <2>2, <3>1, ConcatProperties DEF Texts
    <3>3. QED
      BY <2>2, <3>2 DEF Text
  <2>3. QED
    BY <2>1, <2>2
<1>4. QED
  BY <1>1, <1>2, <1>3

(* A set of colons has a last one.                                         *)
LEMMA LastOne ==
  ASSUME NEW n \in Nat, NEW T, T \subseteq 1 .. n, T # {}
  PROVE  \E x \in T : \A y \in T : x >= y
<1> DEFINE U == {k \in Nat : n - k \in T}
<1>1. U \subseteq Nat /\ U # {}
  <2>1. PICK t \in T : TRUE
    OBVIOUS
  <2>2. n - t \in Nat /\ n - (n - t) = t
    OBVIOUS
  <2>3. n - t \in U
    BY <2>2
  <2>4. QED
    BY <2>3
<1>2. PICK k \in U : \A m \in U : ~(<<m, k>> \in OpToRel(<, Nat))
  BY <1>1, NatLessThanWellFounded, WFMin
<1>3. k \in Nat /\ n - k \in T /\ \A m \in U : ~(m < k)
  BY <1>1, <1>2 DEF OpToRel
<1>4. \A y \in T : n - k >= y
  <2>1. SUFFICES ASSUME NEW y \in T PROVE n - k >= y
    OBVIOUS
  <2>2. n - y \in Nat /\ n - (n - y) = y
    OBVIOUS
  <2>3. n - y \in U
    BY <2>2
  <2>4. ~(n - y < k)
    BY <1>3, <2>3
  <2>5. QED
    BY <1>3, <2>2, <2>4
<1>5. QED
  BY <1>3, <1>4

LEMMA RequestsAreTexts ==
  ASSUME NEW text \in Texts
  PROVE  Request(text) \in [host : Texts, port : Texts \cup {Null}]
<1>1. /\ Len(text) \in Nat /\ DOMAIN text = 1 .. Len(text)
      /\ \A i \in 1 .. Len(text) : text[i] \in Words \cup {Colon}
  BY LenProperties, ElementOfSeq DEF Texts
<1>2. CASE Colons(text) = {}
  BY <1>2 DEF Request
<1>3. CASE Colons(text) # {}
  <2> DEFINE last == CHOOSE i \in Colons(text) : \A j \in Colons(text) : i >= j
  <2>1. \E i \in Colons(text) : \A j \in Colons(text) : i >= j
    <3>1. Colons(text) \subseteq 1 .. Len(text)
      BY <1>1 DEF Colons
    <3>2. QED
      BY <1>1, <1>3, <3>1, LastOne
  <2>2. last \in 1 .. Len(text)
    BY <1>1, <2>1 DEF Colons
  <2>3. Request(text) = SplitAt(text, last)
    BY <1>3 DEF Request
  <2> HIDE DEF last
  <2>4. SubSeq(text, 1, last - 1) \in Texts
    <3>1. \A i \in 1 .. last - 1 : text[i] \in Words \cup {Colon}
      BY <1>1, <2>2
    <3>2. last - 1 \in Int /\ 1 \in Int
      BY <2>2
    <3>3. QED
      BY <3>1, <3>2, SubSeqProperties DEF Texts
  <2>5. SubSeq(text, last + 1, Len(text)) \in Texts
    <3>1. \A i \in last + 1 .. Len(text) : text[i] \in Words \cup {Colon}
      BY <1>1, <2>2
    <3>2. last + 1 \in Int /\ Len(text) \in Int
      BY <1>1, <2>2
    <3>3. QED
      BY <3>1, <3>2, SubSeqProperties DEF Texts
  <2>6. QED
    BY <2>3, <2>4, <2>5 DEF SplitAt
<1>4. QED
  BY <1>2, <1>3

(* With a port, the text is split where it was joined: at the last colon.  *)
LEMMA JoinedText ==
  ASSUME NEW host \in Texts, NEW port \in Texts,
         NEW h \in Nat, h = Len(host), NEW p \in Nat, p = Len(port)
  PROVE  LET text == host \o <<Colon>> \o port
         IN  /\ Len(text) = h + 1 + p /\ DOMAIN text = 1 .. h + 1 + p
             /\ \A i \in 1 .. h : text[i] = host[i]
             /\ text[h + 1] = Colon
             /\ \A i \in 1 .. p : text[h + 1 + i] = port[i]
<1> DEFINE front == host \o <<Colon>>
           text == front \o port
<1>1. /\ front \in Texts /\ Len(front) = h + 1
      /\ \A i \in 1 .. h + 1 : front[i] = IF i <= h THEN host[i] ELSE <<Colon>>[i - h]
  BY OneColon, ConcatProperties DEF Texts
<1>2. front[h + 1] = Colon /\ \A i \in 1 .. h : front[i] = host[i]
  <2>1. h + 1 \in 1 .. h + 1 /\ ~(h + 1 <= h) /\ h + 1 - h = 1
    OBVIOUS
  <2>2. \A i \in 1 .. h : i \in 1 .. h + 1 /\ i <= h
    OBVIOUS
  <2> HIDE DEF front
  <2>3. front[h + 1] = <<Colon>>[1]
    BY <1>1, <2>1
  <2>4. QED
    BY <1>1, <2>2, <2>3, OneColon
<1> HIDE DEF front
<1>3. /\ text \in Texts /\ Len(text) = h + 1 + p
      /\ \A i \in 1 .. h + 1 + p :
           text[i] = IF i <= h + 1 THEN front[i] ELSE port[i - (h + 1)]
  <2>1. /\ text \in Texts /\ Len(text) = Len(front) + Len(port)
        /\ \A i \in 1 .. Len(front) + Len(port) :
             text[i] = IF i <= Len(front) THEN front[i] ELSE port[i - Len(front)]
    BY <1>1, ConcatProperties DEF Texts
  <2> HIDE DEF text
  <2>2. QED
    BY <1>1, <2>1
<1>4. DOMAIN text = 1 .. h + 1 + p
  BY <1>3, LenProperties DEF Texts
<1> HIDE DEF text
<1>5. \A i \in 1 .. h + 1 : i \in 1 .. h + 1 + p /\ i <= h + 1
  OBVIOUS
<1>6. \A i \in 1 .. p : /\ h + 1 + i \in 1 .. h + 1 + p
                        /\ ~(h + 1 + i <= h + 1) /\ h + 1 + i - (h + 1) = i
  OBVIOUS
<1>7. \A i \in 1 .. h + 1 : text[i] = front[i]
  BY <1>3, <1>5
<1>8. \A i \in 1 .. p : text[h + 1 + i] = port[i]
  BY <1>3, <1>6
<1>9. h + 1 \in 1 .. h + 1 /\ \A i \in 1 .. h : i \in 1 .. h + 1
  OBVIOUS
<1>10. QED
  BY <1>2, <1>3, <1>4, <1>7, <1>8, <1>9 DEF text, front

LEMMA SplitWhereJoined ==
  ASSUME NEW host \in Texts, NEW port \in Texts,
         \A i \in 1 .. Len(port) : port[i] # Colon
  PROVE  Request(host \o <<Colon>> \o port) = [host |-> host, port |-> port]
<1>1. PICK h \in Nat : h = Len(host)
  BY LenProperties DEF Texts
<1>2. PICK p \in Nat : p = Len(port)
  BY LenProperties DEF Texts
<1> DEFINE text == host \o <<Colon>> \o port
<1>3. /\ Len(text) = h + 1 + p /\ DOMAIN text = 1 .. h + 1 + p
      /\ \A i \in 1 .. h : text[i] = host[i]
      /\ text[h + 1] = Colon
      /\ \A i \in 1 .. p : text[h + 1 + i] = port[i]
  BY <1>1, <1>2, JoinedText
<1> HIDE DEF text
<1>4. /\ \A i \in 1 .. h : host[i] \in Words \cup {Colon}
      /\ \A i \in 1 .. p : port[i] \in Words \cup {Colon} /\ port[i] # Colon
  BY <1>1, <1>2, ElementOfSeq DEF Texts
<1>5. h + 1 \in Colons(text)
  BY <1>3 DEF Colons
<1>6. \A i \in Colons(text) : i \in Nat /\ i <= h + 1
  <2>1. SUFFICES ASSUME NEW i \in 1 .. h + 1 + p, text[i] = Colon, ~(i <= h + 1)
                 PROVE  FALSE
    BY <1>3 DEF Colons
  <2>2. i - (h + 1) \in 1 .. p /\ h + 1 + (i - (h + 1)) = i
    BY <2>1
  <2>3. text[i] = port[i - (h + 1)]
    BY <1>3, <2>2
  <2>4. QED
    BY <1>4, <2>1, <2>2, <2>3
<1>7. (CHOOSE i \in Colons(text) : \A j \in Colons(text) : i >= j) = h + 1
  <2>1. \A j \in Colons(text) : h + 1 >= j
    BY <1>6
  <2>2. \A i \in Colons(text) : (\A j \in Colons(text) : i >= j) => i = h + 1
    BY <1>5, <1>6
  <2>3. QED
    BY <1>5, <2>1, <2>2
<1>8. Request(text) = SplitAt(text, h + 1)
  BY <1>5, <1>7 DEF Request
<1>9. SubSeq(text, 1, h + 1 - 1) = host
  <2>1. \A i \in 1 .. h : text[i] \in Words \cup {Colon}
    BY <1>3, <1>4
  <2>2. /\ SubSeq(text, 1, h) \in Texts
        /\ Len(SubSeq(text, 1, h)) = IF 1 <= h THEN h - 1 + 1 ELSE 0
        /\ \A i \in 1 .. h - 1 + 1 : SubSeq(text, 1, h)[i] = text[1 + i - 1]
    BY <2>1, SubSeqProperties DEF Texts
  <2>3. h - 1 + 1 = h /\ h + 1 - 1 = h /\ \A i \in 1 .. h : 1 + i - 1 = i
    OBVIOUS
  <2>4. Len(SubSeq(text, 1, h)) = h
    BY <2>2, <2>3
  <2>5. \A i \in 1 .. h : SubSeq(text, 1, h)[i] = host[i]
    BY <1>3, <2>2, <2>3
  <2>6. SubSeq(text, 1, h) = host
    BY <1>1, <2>2, <2>4, <2>5, SeqEqual DEF Texts
  <2>7. QED
    BY <2>3, <2>6
<1>10. SubSeq(text, h + 1 + 1, Len(text)) = port
  <2>1. PICK m \in Int, l \in Int : m = h + 1 + 1 /\ l = h + 1 + p
    OBVIOUS
  <2>2. /\ l - m + 1 = p /\ (IF m <= l THEN l - m + 1 ELSE 0) = p
        /\ \A i \in 1 .. p : m + i - 1 = h + 1 + i
        /\ \A i \in m .. l : i - (h + 1) \in 1 .. p /\ h + 1 + (i - (h + 1)) = i
    BY <2>1
  <2>3. \A i \in m .. l : text[i] \in Words \cup {Colon}
    <3>1. SUFFICES ASSUME NEW i \in m .. l PROVE text[i] \in Words \cup {Colon}
      OBVIOUS
    <3>2. PICK k \in 1 .. p : h + 1 + k = i
      BY <2>2
    <3>3. text[i] = port[k]
      BY <1>3, <3>2
    <3>4. QED
      BY <1>4, <3>3
  <2>4. /\ SubSeq(text, m, l) \in Texts
        /\ Len(SubSeq(text, m, l)) = IF m <= l THEN l - m + 1 ELSE 0
        /\ \A i \in 1 .. l - m + 1 : SubSeq(text, m, l)[i] = text[m + i - 1]
    BY <2>3, SubSeqProperties DEF Texts
  <2>5. /\ Len(SubSeq(text, m, l)) = p
        /\ \A i \in 1 .. p : SubSeq(text, m, l)[i] = port[i]
    BY <1>3, <2>2, <2>4
  <2>6. SubSeq(text, m, l) = port
    BY <1>2, <2>4, <2>5, SeqEqual DEF Texts
  <2>7. QED
    BY <1>3, <2>1, <2>6
<1>11. Request(text) = [host |-> host, port |-> port]
  <2>1. SplitAt(text, h + 1) = [ host |-> SubSeq(text, 1, h + 1 - 1),
                                 port |-> SubSeq(text, h + 1 + 1, Len(text)) ]
    BY DEF SplitAt
  <2>2. QED
    BY <1>8, <1>9, <1>10, <2>1
<1>12. QED
  BY <1>11 DEF text

(* Without one, and without colons, the text is the host.                  *)
LEMMA AsksWhatWasNamed ==
  ASSUME NEW name \in Names, name.port # Null \/ Colons(name.host) = {}
  PROVE  Request(Text(name)) = name
<1>1. CASE name.port # Null
  BY <1>1, NamesAreTexts, SplitWhereJoined DEF Text
<1>2. CASE name.port = Null
  BY <1>2, NamesAreTexts DEF Text, Request
<1>3. QED
  BY <1>1, <1>2

-----------------------------------------------------------------------------
(* How often a client is in a sequence: one more or one less at an end.    *)
Places(c, seq) == {i \in DOMAIN seq : seq[i] = c}

LEMMA CountIsNat ==
  ASSUME NEW c, NEW seq \in Seq(Clients)
  PROVE  IsFiniteSet(Places(c, seq)) /\ Count(c, seq) \in Nat
<1>1. DOMAIN seq = 1 .. Len(seq) /\ Len(seq) \in Nat
  BY LenProperties
<1>2. IsFiniteSet(1 .. Len(seq)) /\ Places(c, seq) \in SUBSET (1 .. Len(seq))
  BY <1>1, FS_Interval DEF Places
<1>3. IsFiniteSet(Places(c, seq))
  BY <1>2, FS_Subset
<1>4. QED
  BY <1>3, FS_CardinalityType DEF Count, Places

LEMMA CountEmpty == \A c : Count(c, <<>>) = 0
<1>1. DOMAIN <<>> = {}
  OBVIOUS
<1>2. \A c : {i \in DOMAIN <<>> : <<>>[i] = c} = {}
  BY <1>1
<1>3. QED
  BY <1>2, FS_EmptySet DEF Count

LEMMA CountAppend ==
  ASSUME NEW c, NEW seq \in Seq(Clients), NEW d \in Clients
  PROVE  Count(c, Append(seq, d)) = Count(c, seq) + (IF c = d THEN 1 ELSE 0)
<1>1. PICK n \in Nat : n = Len(seq) /\ DOMAIN seq = 1 .. n
  BY LenProperties
<1>2. /\ DOMAIN Append(seq, d) = 1 .. n + 1
      /\ \A i \in 1 .. n : Append(seq, d)[i] = seq[i]
      /\ Append(seq, d)[n + 1] = d
  BY <1>1, AppendProperties, LenProperties
<1>3. IsFiniteSet(Places(c, seq)) /\ Count(c, seq) = Cardinality(Places(c, seq))
      /\ Count(c, seq) \in Nat
  BY CountIsNat DEF Count, Places
<1>4. n + 1 \notin Places(c, seq)
  BY <1>1 DEF Places
<1>5. CASE c = d
  <2>1. Places(c, Append(seq, d)) = Places(c, seq) \cup {n + 1}
    BY <1>1, <1>2, <1>5 DEF Places
  <2>2. Cardinality(Places(c, seq) \cup {n + 1}) = Cardinality(Places(c, seq)) + 1
    BY <1>3, <1>4, FS_AddElement
  <2>3. QED
    BY <1>3, <1>5, <2>1, <2>2 DEF Count, Places
<1>6. CASE c # d
  <2>1. Places(c, Append(seq, d)) = Places(c, seq)
    BY <1>1, <1>2, <1>6 DEF Places
  <2>2. Count(c, Append(seq, d)) = Count(c, seq)
    BY <2>1 DEF Count, Places
  <2>3. QED
    BY <1>3, <1>6, <2>2
<1>7. QED
  BY <1>5, <1>6

LEMMA CountTail ==
  ASSUME NEW c, NEW seq \in Seq(Clients), seq # <<>>
  PROVE  /\ Head(seq) \in Clients /\ Tail(seq) \in Seq(Clients)
         /\ Count(c, seq) = Count(c, Tail(seq)) + (IF c = Head(seq) THEN 1 ELSE 0)
<1>1. PICK n \in Nat : n = Len(seq) /\ DOMAIN seq = 1 .. n /\ n > 0
  BY LenProperties, EmptySeq
<1>2. /\ Head(seq) = seq[1] /\ Head(seq) \in Clients /\ Tail(seq) \in Seq(Clients)
      /\ DOMAIN Tail(seq) = 1 .. n - 1
      /\ \A i \in 1 .. n - 1 : Tail(seq)[i] = seq[i + 1]
  <2>1. /\ Head(seq) \in Clients /\ Tail(seq) \in Seq(Clients)
        /\ Len(Tail(seq)) = n - 1
        /\ \A i \in 1 .. Len(Tail(seq)) : Tail(seq)[i] = seq[i + 1]
    BY <1>1, HeadTailProperties
  <2>2. DOMAIN Tail(seq) = 1 .. Len(Tail(seq))
    BY <2>1, LenProperties
  <2>3. QED
    BY <1>1, <2>1, <2>2
<1> DEFINE old == Places(c, Tail(seq))
           new == Places(c, seq) \ {1}
           Next1 == [i \in old |-> i + 1]
<1>3. Cardinality(new) = Cardinality(old)
  <2>1. \A i \in old : i \in Nat /\ i + 1 \in new
    BY <1>1, <1>2 DEF Places
  <2>2. \A j \in new : j - 1 \in old /\ j - 1 + 1 = j
    <3>1. SUFFICES ASSUME NEW j \in 1 .. n, j # 1, seq[j] = c
                   PROVE  j - 1 \in 1 .. n - 1 /\ Tail(seq)[j - 1] = c /\ j - 1 + 1 = j
      BY <1>1, <1>2 DEF Places
    <3>2. j - 1 \in 1 .. n - 1 /\ j - 1 + 1 = j
      BY <1>1, <3>1
    <3>3. QED
      BY <1>2, <3>1, <3>2
  <2> HIDE DEF old, new
  <2>3. Next1 \in [old -> new] /\ \A a, b \in old : Next1[a] = Next1[b] => a = b
    BY <2>1
  <2>4. \A t \in new : \E i \in old : Next1[i] = t
    BY <2>2
  <2>5. Next1 \in Bijection(old, new)
    BY <2>3, <2>4, Fun_IsBij
  <2>6. IsFiniteSet(old)
    BY <1>2, CountIsNat DEF old
  <2>7. ExistsBijection(old, new)
    BY <2>5 DEF ExistsBijection
  <2>8. QED
    BY <2>6, <2>7, FS_Bijection
<1>4. /\ IsFiniteSet(Places(c, seq)) /\ Cardinality(Places(c, seq)) \in Nat
      /\ Cardinality(new) = IF 1 \in Places(c, seq) THEN Cardinality(Places(c, seq)) - 1
                            ELSE Cardinality(Places(c, seq))
  BY CountIsNat, FS_RemoveElement, FS_CardinalityType
<1>5. 1 \in Places(c, seq) <=> c = Head(seq)
  BY <1>1, <1>2 DEF Places
<1>6. Count(c, seq) = Cardinality(Places(c, seq)) /\ Count(c, Tail(seq)) = Cardinality(old)
      /\ Count(c, Tail(seq)) \in Nat
  BY <1>2, CountIsNat DEF Count, Places
<1>7. QED
  BY <1>2, <1>3, <1>4, <1>5, <1>6

-----------------------------------------------------------------------------
(***************************************************************************)
(* The inductive invariant.  Of a client: s holds a socket while it is     *)
(* being connected and socket does when it is; the endpoints before the    *)
(* iterator did not answer, and the loop gives up behind the last.         *)
(***************************************************************************)
Looping(c) ==
  /\ s[c] <=> cpc[c] = "connect"
  /\ socket[c] <=> cpc[c] = "connected"
  /\ open[c] = (IF s[c] THEN 1 ELSE 0) + (IF socket[c] THEN 1 ELSE 0)
  /\ refused[c] = 1 .. next[c] - 1
  /\ cpc[c] = "resolve" => next[c] = 1
  /\ cpc[c] = "connect" => next[c] <= Len(list[c])
  /\ cpc[c] = "failed" => next[c] = Len(list[c]) + 1

LoopInv == \A c \in Clients : Looping(c)

IInv ==
  /\ TypeOK
  /\ ResolvesWhatWasNamed
  /\ LoopInv
  /\ OneConnection
  /\ ResultIsTrue

LEMMA InitHolds == Init => IInv
<1>1. SUFFICES ASSUME Init PROVE IInv
  OBVIOUS
<1>2. <<>> \in Texts /\ <<>> \in Seq(Endpoints) /\ <<>> \in Seq(Clients) /\ Len(<<>>) = 0
  BY EmptySeq DEF Texts
<1>3. TypeOK
  <2>1. Unnamed \in [host : Texts, port : Texts \cup {Null}]
    BY <1>2 DEF Unnamed
  <2>2. /\ named \in [Clients -> Names \cup {Unnamed}]
        /\ asked \in [Clients -> [host : Texts, port : Texts \cup {Null}]]
    BY <1>1, <2>1 DEF Init
  <2>3. /\ list \in [Clients -> Seq(Endpoints)] /\ next \in [Clients -> Nat \ {0}]
        /\ \A c \in Clients : next[c] <= Len(list[c]) + 1
    BY <1>1, <1>2 DEF Init
  <2>4. /\ {s, socket} \subseteq [Clients -> BOOLEAN] /\ open \in [Clients -> Nat]
        /\ refused \in [Clients -> SUBSET Nat] /\ cpc \in [Clients -> ClientSteps]
    BY <1>1 DEF Init, ClientSteps
  <2>5. queue \in Seq(Clients) /\ Len(queue) <= Backlog + 1
    BY <1>1, <1>2, ConnectionsAssumption DEF Init
  <2>6. result \in [socket : Clients \cup {Nobody}, code : Errno]
    BY <1>1 DEF Init, SocketResult, Errno
  <2>7. QED
    BY <1>1, <1>2, <2>2, <2>3, <2>4, <2>5, <2>6 DEF Init, TypeOK, ServerSteps
<1>4. ResolvesWhatWasNamed
  BY <1>1 DEF Init, ResolvesWhatWasNamed
<1>5. LoopInv
  BY <1>1 DEF Init, LoopInv, Looping
<1>6. OneConnection
  BY <1>1, CountEmpty DEF Init, OneConnection
<1>7. ResultIsTrue
  BY <1>1 DEF Init, ResultIsTrue
<1>8. QED
  BY <1>3, <1>4, <1>5, <1>6, <1>7 DEF IInv

(* What is asked for changes in Resolve alone.                             *)
LEMMA NamesKept ==
  ASSUME IInv, [Next]_vars
  PROVE  ResolvesWhatWasNamed'
<1>1. named \in [Clients -> Names \cup {Unnamed}]
      /\ asked \in [Clients -> [host : Texts, port : Texts \cup {Null}]]
  BY DEF IInv, TypeOK
<1>2. ASSUME NEW c \in Clients, Resolve(c) PROVE ResolvesWhatWasNamed'
  <2>1. PICK name \in Names : /\ named' = [named EXCEPT ![c] = name]
                             /\ asked' = [asked EXCEPT ![c] = Request(Text(name))]
    BY <1>2 DEF Resolve
  <2>2. SUFFICES ASSUME NEW d \in Clients,
                        named'[d].port # Null \/ Colons(named'[d].host) = {}
                 PROVE  asked'[d] = named'[d]
    BY DEF ResolvesWhatWasNamed, Colons
  <2>3. CASE d = c
    BY <1>1, <2>1, <2>2, <2>3, AsksWhatWasNamed
  <2>4. CASE d # c
    BY <1>1, <2>1, <2>2, <2>4 DEF IInv, ResolvesWhatWasNamed
  <2>5. QED
    BY <2>3, <2>4
<1>3. CASE UNCHANGED nameVars
  BY <1>3 DEF IInv, ResolvesWhatWasNamed, nameVars, Colons
<1>4. ~(\E c \in Clients : Resolve(c)) => UNCHANGED nameVars
  BY DEF Next, vars, clientVars, ClientStep, Create, CreateThrows, Connect, ConnectFails,
         LoopEnds, ServerStep, Bind, Listen, Accepts, Accept, AcceptsNone, AcceptFails,
         AcceptFrom, AcceptFromNegative, AcceptFromFails, FailFrom, Handle, KernelCloses
<1>5. QED
  BY <1>2, <1>3, <1>4

-----------------------------------------------------------------------------
(* A client's step leaves the server as it is, and the server's and the    *)
(* kernel's the clients; the kernel's queue is between them.               *)
LEMMA Apart ==
  /\ \A c : ClientStep(c) => UNCHANGED serverVars
  /\ ServerStep \/ KernelCloses => UNCHANGED clientVars
BY DEF ClientStep, Resolve, Create, CreateThrows, Connect, ConnectFails, LoopEnds,
       ServerStep, Bind, Listen, Accepts, Accept, AcceptsNone, AcceptFails,
       AcceptFrom, AcceptFromNegative, AcceptFromFails, FailFrom, Handle, KernelCloses

ClientTypes ==
  /\ named \in [Clients -> Names \cup {Unnamed}]
  /\ asked \in [Clients -> [host : Texts, port : Texts \cup {Null}]]
  /\ list \in [Clients -> Seq(Endpoints)]
  /\ next \in [Clients -> Nat \ {0}]
  /\ \A c \in Clients : next[c] <= Len(list[c]) + 1
  /\ {s, socket} \subseteq [Clients -> BOOLEAN]
  /\ open \in [Clients -> Nat]
  /\ refused \in [Clients -> SUBSET Nat]
  /\ cpc \in [Clients -> ClientSteps]

QueueTypes == queue \in Seq(Clients) /\ Len(queue) <= Backlog + 1

ServerTypes ==
  /\ listening \in BOOLEAN
  /\ spc \in ServerSteps
  /\ result \in [socket : Clients \cup {Nobody}, code : Errno]
  /\ client \in Clients \cup {Nobody}
  /\ accepted \in Seq(Clients)
  /\ dropped \in Seq(Clients)

LEMMA TypesApart == /\ TypeOK <=> ClientTypes /\ QueueTypes /\ ServerTypes
                    /\ TypeOK' <=> ClientTypes' /\ QueueTypes' /\ ServerTypes'
BY DEF TypeOK, ClientTypes, QueueTypes, ServerTypes

(* The client's own variables; what resolve() gives is a list.             *)
LEMMA ResolveKeeps ==
  ASSUME ClientTypes, LoopInv, NEW c \in Clients, Resolve(c)
  PROVE  ClientTypes' /\ LoopInv'
<1>1. PICK name \in Names :
        /\ cpc[c] = "resolve"
        /\ named' = [named EXCEPT ![c] = name]
        /\ asked' = [asked EXCEPT ![c] = Request(Text(name))]
        /\ \E l \in Found(Request(Text(name))) :
             /\ list' = [list EXCEPT ![c] = l]
             /\ cpc' = [cpc EXCEPT ![c] = IF l = <<>> THEN "error" ELSE "create"]
        /\ UNCHANGED <<next, s, socket, open, refused>>
  BY DEF Resolve, Goes
<1>2. PICK l \in Found(Request(Text(name))) :
        /\ cpc[c] = "resolve"
        /\ named' = [named EXCEPT ![c] = name]
        /\ asked' = [asked EXCEPT ![c] = Request(Text(name))]
        /\ list' = [list EXCEPT ![c] = l]
        /\ cpc' = [cpc EXCEPT ![c] = IF l = <<>> THEN "error" ELSE "create"]
        /\ UNCHANGED <<next, s, socket, open, refused>>
  BY <1>1
<1>3. Request(Text(name)) \in [host : Texts, port : Texts \cup {Null}]
  BY NamesAreTexts, RequestsAreTexts
<1>4. l \in Seq(Endpoints) /\ Len(l) \in Nat
  <2>1. l \in Seq(Endpoints)
    <3>1. l = <<>> \/ \E request \in DOMAIN Directory : l \in Directory[request]
      BY <1>2 DEF Found
    <3>2. QED
      BY <3>1, EmptySeq, ConnectionsAssumption
  <2>2. QED
    BY <2>1, LenProperties
<1>5. next[c] = 1 /\ next[c] <= Len(l) + 1
  BY <1>2, <1>4 DEF LoopInv, Looping
<1>6. ClientTypes'
  <2>1. \A d \in Clients : next'[d] <= Len(list'[d]) + 1
    BY <1>2, <1>5 DEF ClientTypes
  <2>2. named' \in [Clients -> Names \cup {Unnamed}]
        /\ asked' \in [Clients -> [host : Texts, port : Texts \cup {Null}]]
    BY <1>2, <1>3 DEF ClientTypes
  <2>3. list' \in [Clients -> Seq(Endpoints)] /\ cpc' \in [Clients -> ClientSteps]
    BY <1>2, <1>4 DEF ClientTypes, ClientSteps
  <2>4. QED
    BY <1>2, <2>1, <2>2, <2>3 DEF ClientTypes
<1>7. LoopInv'
  <2>1. SUFFICES ASSUME NEW d \in Clients PROVE Looping(d)'
    BY DEF LoopInv
  <2>2. CASE d = c
    <3>1. cpc'[c] \in {"error", "create"}
      BY <1>2 DEF ClientTypes
    <3>2. QED
      BY <1>2, <2>2, <3>1 DEF LoopInv, Looping
  <2>3. CASE d # c
    <3>1. cpc'[d] = cpc[d] /\ list'[d] = list[d]
      BY <1>2, <2>3 DEF ClientTypes
    <3>2. QED
      BY <1>2, <3>1 DEF LoopInv, Looping
  <2>4. QED
    BY <2>2, <2>3
<1>8. QED
  BY <1>6, <1>7

(* The loop over the list: the iterator stays within it.                   *)
LEMMA LoopKeeps ==
  ASSUME ClientTypes, LoopInv, NEW c \in Clients,
         Create(c) \/ CreateThrows(c) \/ Connect(c) \/ ConnectFails(c) \/ LoopEnds(c)
  PROVE  ClientTypes' /\ LoopInv'
<1>1. /\ Len(list[c]) \in Nat /\ next[c] \in Nat \ {0} /\ next[c] <= Len(list[c]) + 1
      /\ Looping(c) /\ open[c] \in Nat /\ refused[c] \in SUBSET Nat
      /\ s[c] \in BOOLEAN /\ socket[c] \in BOOLEAN /\ cpc[c] \in ClientSteps
  BY LenProperties DEF ClientTypes, LoopInv
<1>2. /\ list' = list /\ UNCHANGED nameVars
      /\ \E step \in ClientSteps : cpc' = [cpc EXCEPT ![c] = step]
      /\ next' = next \/ (next' = [next EXCEPT ![c] = @ + 1] /\ next[c] <= Len(list[c]))
      /\ s' = s \/ \E b \in BOOLEAN : s' = [s EXCEPT ![c] = b]
      /\ socket' = socket \/ socket' = [socket EXCEPT ![c] = TRUE]
      /\ \/ open' = open
         \/ open' = [open EXCEPT ![c] = @ + 1]
         \/ open' = [open EXCEPT ![c] = @ - 1] /\ open[c] > 0
      /\ refused' = refused \/ refused' = [refused EXCEPT ![c] = @ \cup {next[c]}]
  <2>1. cpc[c] = "connect" => next[c] <= Len(list[c]) /\ open[c] > 0
    BY <1>1 DEF Looping
  <2>2. CASE Create(c)
    BY <2>2 DEF Create, Goes, ClientSteps
  <2>3. CASE CreateThrows(c)
    BY <2>3 DEF CreateThrows, Goes, ClientSteps
  <2>4. CASE Connect(c)
    BY <2>4 DEF Connect, Goes, ClientSteps
  <2>5. CASE ConnectFails(c)
    BY <2>1, <2>5 DEF ConnectFails, Goes, ClientSteps
  <2>6. CASE LoopEnds(c)
    BY <2>6 DEF LoopEnds, Goes, ClientSteps
  <2>7. QED
    BY <2>2, <2>3, <2>4, <2>5, <2>6
<1>3. ClientTypes'
  <2>1. cpc' \in [Clients -> ClientSteps] /\ {s', socket'} \subseteq [Clients -> BOOLEAN]
    <3>1. cpc' \in [Clients -> ClientSteps]
      BY <1>2 DEF ClientTypes
    <3>2. s \in [Clients -> BOOLEAN] /\ socket \in [Clients -> BOOLEAN]
      BY DEF ClientTypes
    <3>3. s' \in [Clients -> BOOLEAN]
      BY <1>2, <3>2
    <3>4. socket' \in [Clients -> BOOLEAN]
      BY <1>2, <3>2
    <3>5. QED
      BY <3>1, <3>3, <3>4
  <2>2. next' \in [Clients -> Nat \ {0}]
    <3>1. next \in [Clients -> Nat \ {0}] /\ next[c] + 1 \in Nat \ {0}
      BY <1>1 DEF ClientTypes
    <3>2. CASE next' = next
      BY <3>1, <3>2
    <3>3. CASE next' = [next EXCEPT ![c] = next[c] + 1]
      BY <3>1, <3>3
    <3>4. QED
      BY <1>2, <3>2, <3>3
  <2>3. \A d \in Clients : next'[d] <= Len(list'[d]) + 1
    <3>1. SUFFICES ASSUME NEW d \in Clients PROVE next'[d] <= Len(list[d]) + 1
      BY <1>2
    <3>2. CASE d = c
      BY <1>1, <1>2, <3>2 DEF ClientTypes
    <3>3. CASE d # c
      BY <1>2, <3>3 DEF ClientTypes
    <3>4. QED
      BY <3>2, <3>3
  <2>4. open' \in [Clients -> Nat]
    <3>1. open \in [Clients -> Nat] /\ open[c] + 1 \in Nat /\ (open[c] > 0 => open[c] - 1 \in Nat)
      BY <1>1 DEF ClientTypes
    <3>2. CASE open' = open
      BY <3>1, <3>2
    <3>3. CASE open' = [open EXCEPT ![c] = open[c] + 1]
      BY <3>1, <3>3
    <3>4. CASE open' = [open EXCEPT ![c] = open[c] - 1] /\ open[c] > 0
      BY <3>1, <3>4
    <3>5. QED
      BY <1>2, <3>2, <3>3, <3>4
  <2>5. refused' \in [Clients -> SUBSET Nat]
    <3>1. refused \in [Clients -> SUBSET Nat] /\ refused[c] \cup {next[c]} \in SUBSET Nat
      BY <1>1 DEF ClientTypes
    <3>2. CASE refused' = refused
      BY <3>1, <3>2
    <3>3. CASE refused' = [refused EXCEPT ![c] = refused[c] \cup {next[c]}]
      BY <3>1, <3>3
    <3>4. QED
      BY <1>2, <3>2, <3>3
  <2>6. QED
    BY <1>2, <2>1, <2>2, <2>3, <2>4, <2>5 DEF ClientTypes, nameVars
<1>4. ASSUME NEW d \in Clients, d # c PROVE Looping(d)'
  <2>1. /\ cpc'[d] = cpc[d] /\ next'[d] = next[d] /\ s'[d] = s[d] /\ socket'[d] = socket[d]
        /\ open'[d] = open[d] /\ refused'[d] = refused[d] /\ list'[d] = list[d]
    BY <1>2, <1>4 DEF ClientTypes
  <2>2. QED
    BY <1>4, <2>1 DEF LoopInv, Looping
<1>5. Looping(c)'
  <2>1. CASE Create(c)
    BY <1>1, <2>1 DEF Create, Goes, AtEnd, ClientTypes, Looping
  <2>2. CASE CreateThrows(c)
    BY <1>1, <2>2 DEF CreateThrows, Goes, ClientTypes, Looping
  <2>3. CASE Connect(c)
    BY <1>1, <2>3 DEF Connect, Goes, ClientTypes, Looping
  <2>4. CASE ConnectFails(c)
    <3>1. refused'[c] = 1 .. next'[c] - 1
      <4>1. refused'[c] = (1 .. next[c] - 1) \cup {next[c]} /\ next'[c] = next[c] + 1
        BY <1>1, <2>4 DEF ConnectFails, ClientTypes, Looping
      <4>2. (1 .. next[c] - 1) \cup {next[c]} = 1 .. next[c] + 1 - 1
        BY <1>1
      <4>3. QED
        BY <4>1, <4>2
    <3>2. QED
      BY <1>1, <2>4, <3>1 DEF ConnectFails, Goes, ClientTypes, Looping
  <2>5. CASE LoopEnds(c)
    BY <1>1, <2>5 DEF LoopEnds, Goes, AtEnd, ClientTypes, Looping
  <2>6. QED
    BY <2>1, <2>2, <2>3, <2>4, <2>5
<1>6. QED
  BY <1>3, <1>4, <1>5 DEF LoopInv

LEMMA ClientKeeps ==
  ASSUME ClientTypes, LoopInv, NEW c \in Clients, ClientStep(c)
  PROVE  ClientTypes' /\ LoopInv'
BY ResolveKeeps, LoopKeeps DEF ClientStep

(* A connection enters the queue when its client is connected, and leaves  *)
(* it for accept() or is dropped.                                          *)
LEMMA Enters ==
  ASSUME ClientTypes, QueueTypes, ServerTypes, LoopInv, OneConnection,
         NEW c \in Clients, ClientStep(c)
  PROVE  QueueTypes' /\ OneConnection'
<1>1. /\ accepted' = accepted /\ dropped' = dropped
      /\ Looping(c) /\ s[c] \in BOOLEAN /\ socket[c] \in BOOLEAN
      /\ cpc \in [Clients -> ClientSteps] /\ queue \in Seq(Clients)
      /\ accepted \in Seq(Clients) /\ dropped \in Seq(Clients)
  BY Apart DEF serverVars, LoopInv, ClientTypes, QueueTypes, ServerTypes
<1>2. \A d \in Clients : /\ Count(d, queue) \in Nat /\ Count(d, accepted) \in Nat
                         /\ Count(d, dropped) \in Nat
  BY <1>1, CountIsNat
<1>3. CASE Connect(c)
  <2>1. /\ cpc[c] = "connect" /\ Len(queue) <= Backlog /\ queue' = Append(queue, c)
        /\ cpc' = [cpc EXCEPT ![c] = "connected"]
    BY <1>3 DEF Connect, Goes
  <2>2. QueueTypes'
    <3>1. Append(queue, c) \in Seq(Clients) /\ Len(Append(queue, c)) = Len(queue) + 1
          /\ Len(queue) \in Nat
      BY <1>1, AppendProperties, LenProperties
    <3>2. QED
      BY <2>1, <3>1, ConnectionsAssumption DEF QueueTypes
  <2>3. ASSUME NEW d \in Clients
        PROVE  Count(d, queue') + Count(d, accepted) + Count(d, dropped)
                 = IF cpc'[d] = "connected" THEN 1 ELSE 0
    <3>1. Count(d, queue') = Count(d, queue) + (IF d = c THEN 1 ELSE 0)
      BY <1>1, <2>1, CountAppend
    <3>2. Count(d, queue) + Count(d, accepted) + Count(d, dropped)
            = IF cpc[d] = "connected" THEN 1 ELSE 0
      BY DEF OneConnection
    <3>3. CASE d = c
      BY <1>1, <1>2, <2>1, <3>1, <3>2, <3>3
    <3>4. CASE d # c
      BY <1>1, <1>2, <2>1, <3>1, <3>2, <3>4
    <3>5. QED
      BY <3>3, <3>4
  <2>4. QED
    BY <1>1, <2>2, <2>3 DEF OneConnection
<1>4. CASE ~Connect(c)
  <2>1. /\ queue' = queue
        /\ \E step \in ClientSteps \ {"connected"} : cpc' = [cpc EXCEPT ![c] = step]
        /\ cpc[c] # "connected"
    <3>1. CASE Resolve(c) \/ Create(c) \/ CreateThrows(c) \/ ConnectFails(c)
      BY <3>1 DEF Resolve, Create, CreateThrows, ConnectFails, Goes, ClientSteps
    <3>2. CASE LoopEnds(c)
      BY <1>1, <3>2 DEF LoopEnds, Goes, ClientSteps, Looping
    <3>3. QED
      BY <1>4, <3>1, <3>2 DEF ClientStep
  <2>2. \A d \in Clients : cpc'[d] = "connected" <=> cpc[d] = "connected"
    BY <1>1, <2>1
  <2>3. OneConnection'
    BY <1>1, <2>1, <2>2 DEF OneConnection, Count
  <2>4. QED
    BY <2>1, <2>3 DEF QueueTypes
<1>5. QED
  BY <1>3, <1>4

(* What a step of the server, or the kernel's behind it, does to the       *)
(* connections and to the result.                                          *)
Accepted ==
  /\ queue # <<>>
  /\ queue' = Tail(queue) /\ accepted' = Append(accepted, Head(queue))
  /\ dropped' = dropped
  /\ result' = SocketResult(Head(queue), NoError)

Dropped ==
  /\ queue # <<>>
  /\ queue' = Tail(queue) /\ dropped' = Append(dropped, Head(queue))
  /\ accepted' = accepted
  /\ \/ result' = SocketResult(Nobody, "EINVAL")
     \/ result' = result /\ spc' = spc

NothingMoved ==
  /\ UNCHANGED <<queue, accepted, dropped>>
  /\ \/ \E errno \in {"EMFILE", "EINVAL"} : result' = SocketResult(Nobody, errno)
     \/ result' = result /\ spc' # "handle"

LEMMA ServerMoves ==
  ASSUME QueueTypes, ServerTypes, ServerStep \/ KernelCloses
  PROVE  /\ Accepted \/ Dropped \/ NothingMoved
         /\ listening' \in BOOLEAN /\ spc' \in ServerSteps
         /\ client' \in Clients \cup {Nobody}
<1>1. queue # <<>> => Head(queue) \in Clients
  BY CountTail DEF QueueTypes
<1>2. CASE Bind \/ Listen \/ Handle
  BY <1>2 DEF Bind, Listen, Handle, NothingMoved, ServerSteps, ServerTypes
<1>3. CASE Accept
  BY <1>3 DEF Accept, AcceptReturns, Accepted, ServerSteps, ServerTypes
<1>4. ASSUME NEW len \in Lengths, AcceptFrom(len)
      PROVE  /\ Accepted
             /\ listening' \in BOOLEAN /\ spc' \in ServerSteps /\ client' \in Clients \cup {Nobody}
  BY <1>1, <1>4 DEF AcceptFrom, AcceptReturns, Accepted, ServerSteps, ServerTypes
<1>5. ASSUME NEW len \in Lengths, AcceptFromNegative(len)
      PROVE  /\ Dropped
             /\ listening' \in BOOLEAN /\ spc' \in ServerSteps /\ client' \in Clients \cup {Nobody}
  BY <1>5 DEF AcceptFromNegative, FailFrom, Dropped, ServerSteps, ServerTypes
<1>6. AcceptErrno \subseteq {"EMFILE", "EINVAL"}
  BY DEF AcceptErrno
<1>7. CASE AcceptFails
  BY <1>6, <1>7 DEF AcceptFails, AcceptReturns, NothingMoved, ServerSteps, ServerTypes
<1>8. ASSUME NEW len \in Lengths, AcceptFromFails(len)
      PROVE  /\ NothingMoved
             /\ listening' \in BOOLEAN /\ spc' \in ServerSteps /\ client' \in Clients \cup {Nobody}
  BY <1>6, <1>8 DEF AcceptFromFails, FailFrom, NothingMoved, ServerSteps, ServerTypes
<1>9. CASE KernelCloses
  BY <1>9 DEF KernelCloses, Dropped, ServerTypes
<1>10. QED
  BY <1>2, <1>3, <1>4, <1>5, <1>7, <1>8, <1>9 DEF ServerStep, Accepts, AcceptsNone

LEMMA Leaves ==
  ASSUME ClientTypes, QueueTypes, ServerTypes, OneConnection, ResultIsTrue,
         ServerStep \/ KernelCloses
  PROVE  QueueTypes' /\ ServerTypes' /\ OneConnection' /\ ResultIsTrue'
<1>1. /\ queue \in Seq(Clients) /\ Len(queue) <= Backlog + 1 /\ Len(queue) \in Nat
      /\ accepted \in Seq(Clients) /\ dropped \in Seq(Clients)
      /\ result \in [socket : Clients \cup {Nobody}, code : Errno]
      /\ cpc' = cpc
  BY LenProperties, Apart DEF QueueTypes, ServerTypes, clientVars
<1>2. \A d \in Clients : /\ Count(d, queue) \in Nat /\ Count(d, accepted) \in Nat
                         /\ Count(d, dropped) \in Nat
  BY <1>1, CountIsNat
<1>3. queue # <<>> =>
        /\ Head(queue) \in Clients /\ Head(queue) # Nobody
        /\ Tail(queue) \in Seq(Clients) /\ Len(Tail(queue)) <= Backlog + 1
        /\ \A d \in Clients : /\ Count(d, queue) = Count(d, Tail(queue)) + (IF d = Head(queue) THEN 1 ELSE 0)
                              /\ Count(d, Tail(queue)) \in Nat
  <2>1. SUFFICES ASSUME queue # <<>>
                 PROVE  /\ Head(queue) \in Clients /\ Head(queue) # Nobody
                        /\ Tail(queue) \in Seq(Clients) /\ Len(Tail(queue)) <= Backlog + 1
                        /\ \A d \in Clients :
                             /\ Count(d, queue) = Count(d, Tail(queue)) + (IF d = Head(queue) THEN 1 ELSE 0)
                             /\ Count(d, Tail(queue)) \in Nat
    OBVIOUS
  <2>2. /\ Head(queue) \in Clients /\ Tail(queue) \in Seq(Clients)
        /\ Len(Tail(queue)) = Len(queue) - 1
    BY <1>1, <2>1, HeadTailProperties
  <2>3. Len(Tail(queue)) <= Backlog + 1
    BY <1>1, <2>2, ConnectionsAssumption
  <2>4. Head(queue) # Nobody
    BY <2>2, ConnectionsAssumption
  <2>5. QED
    BY <1>1, <2>1, <2>2, <2>3, <2>4, CountTail, CountIsNat
<1>4. \A d \in Clients : Count(d, queue) + Count(d, accepted) + Count(d, dropped)
                            = IF cpc[d] = "connected" THEN 1 ELSE 0
  BY DEF OneConnection
<1>5. /\ listening' \in BOOLEAN /\ spc' \in ServerSteps /\ client' \in Clients \cup {Nobody}
  BY ServerMoves
<1>6. \A who \in Clients \cup {Nobody}, errno \in Errno :
        SocketResult(who, errno) \in [socket : Clients \cup {Nobody}, code : Errno]
  BY DEF SocketResult, Errno
<1>7. {NoError, "EINVAL", "EMFILE"} \subseteq Errno
  BY DEF Errno
<1>8. CASE Accepted
  <2>1. /\ accepted' \in Seq(Clients) /\ accepted' # <<>>
        /\ accepted'[Len(accepted')] = Head(queue)
    <3>1. /\ accepted' \in Seq(Clients) /\ Len(accepted') = Len(accepted) + 1
          /\ accepted'[Len(accepted) + 1] = Head(queue) /\ Len(accepted) \in Nat
      BY <1>1, <1>3, <1>8, AppendProperties, LenProperties DEF Accepted
    <3>2. QED
      BY <3>1, EmptySeq
  <2>2. ASSUME NEW d \in Clients
        PROVE  Count(d, queue') + Count(d, accepted') + Count(d, dropped')
                 = IF cpc'[d] = "connected" THEN 1 ELSE 0
    <3>1. Count(d, accepted') = Count(d, accepted) + (IF d = Head(queue) THEN 1 ELSE 0)
      BY <1>1, <1>3, <1>8, CountAppend DEF Accepted
    <3>2. queue' = Tail(queue) /\ dropped' = dropped /\ queue # <<>>
      BY <1>8 DEF Accepted
    <3>3. Count(d, queue') + Count(d, accepted') + Count(d, dropped')
            = Count(d, queue) + Count(d, accepted) + Count(d, dropped)
      <4>1. /\ Count(d, queue) = Count(d, Tail(queue)) + (IF d = Head(queue) THEN 1 ELSE 0)
            /\ Count(d, Tail(queue)) \in Nat /\ Count(d, queue) \in Nat
            /\ Count(d, accepted) \in Nat /\ Count(d, dropped) \in Nat
        BY <1>2, <1>3, <3>2
      <4>2. CASE d = Head(queue)
        BY <3>1, <3>2, <4>1, <4>2
      <4>3. CASE d # Head(queue)
        BY <3>1, <3>2, <4>1, <4>3
      <4>4. QED
        BY <4>2, <4>3
    <3>4. QED
      BY <1>1, <1>4, <3>3
  <2>3. ResultIsTrue'
    BY <1>3, <1>8, <2>1 DEF Accepted, ResultIsTrue, SocketResult, HasSocket
  <2>4. result' \in [socket : Clients \cup {Nobody}, code : Errno]
    BY <1>3, <1>6, <1>7, <1>8 DEF Accepted
  <2>5. QED
    BY <1>1, <1>3, <1>5, <1>8, <2>1, <2>2, <2>3, <2>4
       DEF Accepted, OneConnection, QueueTypes, ServerTypes
<1>9. CASE Dropped
  <2>1. dropped' \in Seq(Clients)
    BY <1>1, <1>3, <1>9, AppendProperties DEF Dropped
  <2>2. ASSUME NEW d \in Clients
        PROVE  Count(d, queue') + Count(d, accepted') + Count(d, dropped')
                 = IF cpc'[d] = "connected" THEN 1 ELSE 0
    <3>1. Count(d, dropped') = Count(d, dropped) + (IF d = Head(queue) THEN 1 ELSE 0)
      BY <1>1, <1>3, <1>9, CountAppend DEF Dropped
    <3>2. queue' = Tail(queue) /\ accepted' = accepted /\ queue # <<>>
      BY <1>9 DEF Dropped
    <3>3. Count(d, queue') + Count(d, accepted') + Count(d, dropped')
            = Count(d, queue) + Count(d, accepted) + Count(d, dropped)
      <4>1. /\ Count(d, queue) = Count(d, Tail(queue)) + (IF d = Head(queue) THEN 1 ELSE 0)
            /\ Count(d, Tail(queue)) \in Nat /\ Count(d, queue) \in Nat
            /\ Count(d, accepted) \in Nat /\ Count(d, dropped) \in Nat
        BY <1>2, <1>3, <3>2
      <4>2. CASE d = Head(queue)
        BY <3>1, <3>2, <4>1, <4>2
      <4>3. CASE d # Head(queue)
        BY <3>1, <3>2, <4>1, <4>3
      <4>4. QED
        BY <4>2, <4>3
    <3>4. QED
      BY <1>1, <1>4, <3>3
  <2>3. ResultIsTrue'
    <3>1. CASE result' = SocketResult(Nobody, "EINVAL")
      BY <3>1 DEF ResultIsTrue, SocketResult, HasSocket, NoError
    <3>2. CASE result' = result /\ spc' = spc
      BY <1>9, <3>2 DEF Dropped, ResultIsTrue
    <3>3. QED
      BY <1>9, <3>1, <3>2 DEF Dropped
  <2>4. result' \in [socket : Clients \cup {Nobody}, code : Errno]
    <3>1. SocketResult(Nobody, "EINVAL") \in [socket : Clients \cup {Nobody}, code : Errno]
      BY <1>6, <1>7
    <3>2. QED
      BY <1>1, <1>9, <3>1 DEF Dropped
  <2>5. QED
    BY <1>1, <1>3, <1>5, <1>9, <2>1, <2>2, <2>3, <2>4
       DEF Dropped, OneConnection, QueueTypes, ServerTypes
<1>10. CASE NothingMoved
  <2>1. OneConnection'
    BY <1>1, <1>10 DEF NothingMoved, OneConnection, Count
  <2>2. ResultIsTrue'
    BY <1>10 DEF NothingMoved, ResultIsTrue, SocketResult, HasSocket, NoError
  <2>3. result' \in [socket : Clients \cup {Nobody}, code : Errno]
    <3>1. ASSUME NEW errno \in {"EMFILE", "EINVAL"}, result' = SocketResult(Nobody, errno)
          PROVE  result' \in [socket : Clients \cup {Nobody}, code : Errno]
      BY <1>6, <3>1 DEF Errno
    <3>2. QED
      BY <1>1, <1>10, <3>1 DEF NothingMoved
  <2>4. QED
    BY <1>1, <1>5, <1>10, <2>1, <2>2, <2>3 DEF NothingMoved, QueueTypes, ServerTypes
<1>11. QED
  BY <1>8, <1>9, <1>10, ServerMoves

LEMMA StepKeeps == IInv /\ [Next]_vars => IInv'
<1>1. SUFFICES ASSUME IInv, [Next]_vars
               PROVE  TypeOK' /\ LoopInv' /\ OneConnection' /\ ResultIsTrue'
  BY NamesKept DEF IInv
<1>2. /\ ClientTypes /\ QueueTypes /\ ServerTypes
      /\ LoopInv /\ OneConnection /\ ResultIsTrue
  BY <1>1, TypesApart DEF IInv
<1>3. ASSUME NEW c \in Clients, ClientStep(c)
      PROVE  TypeOK' /\ LoopInv' /\ OneConnection' /\ ResultIsTrue'
  <2>1. UNCHANGED serverVars
    BY <1>3, Apart
  <2>2. ServerTypes' /\ ResultIsTrue'
    BY <1>2, <2>1 DEF serverVars, ServerTypes, ResultIsTrue
  <2>3. QED
    BY <1>2, <1>3, <2>2, ClientKeeps, Enters, TypesApart
<1>4. CASE ServerStep \/ KernelCloses
  <2>1. UNCHANGED clientVars
    BY <1>4, Apart
  <2>2. ClientTypes' /\ LoopInv'
    BY <1>2, <2>1 DEF clientVars, nameVars, ClientTypes, LoopInv, Looping
  <2>3. QED
    BY <1>2, <1>4, <2>2, Leaves, TypesApart
<1>5. CASE UNCHANGED vars
  <2>1. UNCHANGED clientVars /\ UNCHANGED serverVars /\ queue' = queue
    BY <1>5 DEF vars
  <2>2. ClientTypes' /\ LoopInv'
    BY <1>2, <2>1 DEF clientVars, nameVars, ClientTypes, LoopInv, Looping
  <2>3. ServerTypes' /\ ResultIsTrue' /\ QueueTypes'
    BY <1>2, <2>1 DEF serverVars, ServerTypes, ResultIsTrue, QueueTypes
  <2>4. OneConnection'
    BY <1>2, <2>1 DEF clientVars, serverVars, OneConnection, Count
  <2>5. QED
    BY <2>2, <2>3, <2>4, TypesApart
<1>6. QED
  BY <1>1, <1>3, <1>4, <1>5 DEF Next

-----------------------------------------------------------------------------
(***************************************************************************)
(* The inductive invariant holds, whoever connects to whatever.            *)
(***************************************************************************)
THEOREM Invariance == Spec => []IInv
BY InitHolds, StepKeeps, PTL DEF Spec

(* Every variable keeps its type: the iterator stays within the list or at *)
(* its end, and the kernel's queue within its length.                      *)
THEOREM TypeCorrect == Spec => []TypeOK
<1>1. IInv => TypeOK
  BY DEF IInv
<1>2. QED
  BY <1>1, Invariance, PTL

(* getaddrinfo() is asked for the host and port that the user named,       *)
(* however many colons the host has, if there is a port or it has none.    *)
THEOREM AskedAsNamed == Spec => []ResolvesWhatWasNamed
<1>1. IInv => ResolvesWhatWasNamed
  BY DEF IInv
<1>2. QED
  BY <1>1, Invariance, PTL

(* A client that is connected has one connection, and any other none.      *)
THEOREM OneConnectionEach == Spec => []OneConnection
<1>1. IInv => OneConnection
  BY DEF IInv
<1>2. QED
  BY <1>1, Invariance, PTL

(* The loop over the endpoints leaks no socket, at any of its ends.        *)
THEOREM NoSocketLeaks == Spec => []SocketsClosed
<1>1. IInv => SocketsClosed
  <2>1. SUFFICES ASSUME IInv, NEW c \in Clients
                 PROVE  /\ open[c] = (IF s[c] THEN 1 ELSE 0) + (IF socket[c] THEN 1 ELSE 0)
                        /\ cpc[c] \in {"failed", "error", "connected"} =>
                             open[c] = IF cpc[c] = "connected" THEN 1 ELSE 0
    BY DEF SocketsClosed
  <2>2. Looping(c)
    BY <2>1 DEF IInv, LoopInv
  <2>3. open[c] = (IF s[c] THEN 1 ELSE 0) + (IF socket[c] THEN 1 ELSE 0)
    BY <2>2 DEF Looping
  <2>4. CASE cpc[c] = "connected"
    BY <2>2, <2>3, <2>4 DEF Looping
  <2>5. CASE cpc[c] \in {"failed", "error"}
    BY <2>2, <2>3, <2>5 DEF Looping
  <2>6. QED
    BY <2>3, <2>4, <2>5
<1>2. QED
  BY <1>1, Invariance, PTL

(* A client gives up only when no endpoint of its list answered.           *)
THEOREM GivesUpInTheEnd == Spec => []FailedMeansAllTried
<1>1. IInv => FailedMeansAllTried
  <2>1. SUFFICES ASSUME IInv, NEW c \in Clients, cpc[c] = "failed"
                 PROVE  refused[c] = 1 .. Len(list[c])
    BY DEF FailedMeansAllTried
  <2>2. /\ refused[c] = 1 .. next[c] - 1 /\ next[c] = Len(list[c]) + 1
        /\ Len(list[c]) \in Nat
    BY <2>1, LenProperties DEF IInv, TypeOK, LoopInv, Looping
  <2>3. Len(list[c]) + 1 - 1 = Len(list[c])
    BY <2>2
  <2>4. QED
    BY <2>2, <2>3
<1>2. QED
  BY <1>1, Invariance, PTL

(* The result of accept() holds the socket accepted last or says why not.  *)
THEOREM AcceptTellsTheTruth == Spec => []ResultIsTrue
<1>1. IInv => ResultIsTrue
  BY DEF IInv
<1>2. QED
  BY <1>1, Invariance, PTL
=============================================================================
