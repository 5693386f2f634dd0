--------------------------- MODULE SocketsProofs ---------------------------
(***************************************************************************)
(* The inductive invariant of Sockets for any objects, any descriptors and *)
(* any number of openings.                                                 *)
(*                                                                         *)
(* Each action does one of four things to the pairs (owner, descriptor):   *)
(* it adds one with a new socket, removes one with its socket, hands one   *)
(* to another owner, or leaves them alone.                                 *)
(***************************************************************************)
EXTENDS Sockets, TLAPS

LEMMA BadFdIsNoFd == BadFd \notin Fds
  BY SocketsAssumption DEF BadFd

LEMMA InitEstablishesIInv == Init => IInv
<1> SUFFICES ASSUME Init PROVE IInv
  OBVIOUS
<1> USE SocketsAssumption DEF Init
<1>1. TypeOK
  BY DEF TypeOK
<1>2. UniqueOwner /\ HoldsWhatWasMeant
  BY DEF UniqueOwner, HoldsWhatWasMeant, Holds
<1>3. NoLeak /\ NonBlockingAsAsked /\ NativeOpen /\ OneNumber
  BY DEF NoLeak, NonBlockingAsAsked, NativeOpen, OneNumber
<1>4. QED
  BY <1>1, <1>2, <1>3 DEF IInv

(* A new socket has a number above all there were, and its descriptor was  *)
(* nobody's.                                                               *)
LEMMA OpensProperties ==
  ASSUME IInv, NEW fd \in Fds, NEW type \in SUBSET Flags, Opens(fd, type)
  PROVE  /\ table' \in [Fds -> 0 .. opened']
         /\ opened' \in 0 .. MaxOpens
         /\ opened' = opened + 1
         /\ nonblock' \subseteq Fds
         /\ cloexec' \subseteq Fds
         /\ asked' \subseteq 1 .. opened'
         /\ table'[fd] = opened'
         /\ \A g \in Fds : g # fd => table'[g] = table[g]
         /\ \A o \in Objects : Holds(o) => sock_[o] # fd
         /\ fd \notin native
         /\ NonBlockingAsAsked'
         /\ OneNumber'
<1> USE SocketsAssumption
<1>1. /\ table \in [Fds -> 0 .. opened]
      /\ opened \in 0 .. MaxOpens
      /\ nonblock \subseteq Fds
      /\ cloexec \subseteq Fds
      /\ asked \subseteq 1 .. opened
  BY DEF IInv, TypeOK
<1>2. /\ opened < MaxOpens
      /\ opened' = opened + 1
      /\ table[fd] = 0
      /\ table' = [table EXCEPT ![fd] = opened + 1]
      /\ nonblock' = Put(nonblock, fd, "SOCK_NONBLOCK" \in type)
      /\ cloexec' = Put(cloexec, fd, "SOCK_CLOEXEC" \in type)
      /\ asked' = Put(asked, opened + 1, "SOCK_NONBLOCK" \in type)
  BY DEF Opens
<1>3. table' \in [Fds -> 0 .. opened'] /\ opened' \in 0 .. MaxOpens
  BY <1>1, <1>2
<1>4. nonblock' \subseteq Fds /\ cloexec' \subseteq Fds /\ asked' \subseteq 1 .. opened'
  BY <1>1, <1>2 DEF Put
<1>5. table'[fd] = opened' /\ \A g \in Fds : g # fd => table'[g] = table[g]
  BY <1>1, <1>2
<1>6. \A o \in Objects : Holds(o) => sock_[o] # fd
  BY <1>2 DEF IInv, HoldsWhatWasMeant
<1>7. fd \notin native
  BY <1>2 DEF IInv, NativeOpen
<1>8. \A g \in Fds : table[g] # opened + 1 /\ opened + 1 # 0
  BY <1>1
<1>9. NonBlockingAsAsked'
  <2> SUFFICES ASSUME NEW g \in Fds, table'[g] # 0
               PROVE  g \in nonblock' <=> table'[g] \in asked'
    BY DEF NonBlockingAsAsked
  <2>1. CASE g = fd
    <3>1. opened + 1 \notin asked /\ (g \in nonblock' <=> "SOCK_NONBLOCK" \in type)
      BY <1>1, <1>2, <2>1 DEF Put
    <3>2. QED
      BY <1>2, <1>5, <2>1, <3>1 DEF Put
  <2>2. CASE g # fd
    <3>1. g \in nonblock <=> table[g] \in asked
      BY <1>5, <2>2 DEF IInv, NonBlockingAsAsked
    <3>2. (g \in nonblock' <=> g \in nonblock) /\ (table[g] \in asked' <=> table[g] \in asked)
      BY <1>2, <1>8, <2>2 DEF Put
    <3>3. QED
      BY <1>5, <2>2, <3>1, <3>2
  <2>3. QED
    BY <2>1, <2>2
<1>10. OneNumber'
  BY <1>2, <1>5, <1>8 DEF IInv, OneNumber
<1>11. QED
  BY <1>2, <1>3, <1>4, <1>5, <1>6, <1>7, <1>9, <1>10

LEMMA ClosesProperties ==
  ASSUME IInv, NEW fd \in Fds, Closes(fd), UNCHANGED <<nonblock, opened, asked>>
  PROVE  /\ table' \in [Fds -> 0 .. opened']
         /\ table'[fd] = 0
         /\ \A g \in Fds : g # fd => table'[g] = table[g]
         /\ NonBlockingAsAsked'
         /\ OneNumber'
<1>1. table \in [Fds -> 0 .. opened] /\ opened \in Nat
  BY SocketsAssumption DEF IInv, TypeOK
<1>2. /\ table' \in [Fds -> 0 .. opened']
      /\ table'[fd] = 0
      /\ \A g \in Fds : g # fd => table'[g] = table[g]
  BY <1>1 DEF Closes
<1>3. NonBlockingAsAsked'
  BY <1>2 DEF IInv, NonBlockingAsAsked
<1>4. OneNumber'
  BY <1>2 DEF IInv, OneNumber
<1>5. QED
  BY <1>2, <1>3, <1>4

(* The two ways to open: an object owns the new socket, or the program.    *)
LEMMA CreatePreserves ==
  ASSUME IInv, NEW o \in Objects, NEW fd \in Fds, NEW type \in SUBSET Flags,
         Create(o, fd, type)
  PROVE  IInv'
<1> USE BadFdIsNoFd
<1>1. /\ o \notin alive
      /\ Opens(fd, type)
      /\ alive' = alive \cup {o}
      /\ sock_' = [sock_ EXCEPT ![o] = fd]
      /\ meant' = [meant EXCEPT ![o] = opened + 1]
      /\ native' = native
      /\ promised' = promised
  BY DEF Create
<1>2. TypeOK
  BY DEF IInv
<1>3. /\ opened \in Nat
      /\ \A p \in Objects : sock_'[p] = IF p = o THEN fd ELSE sock_[p]
      /\ \A p \in Objects : meant'[p] = IF p = o THEN opened + 1 ELSE meant[p]
  BY <1>1, <1>2, SocketsAssumption DEF TypeOK
<1>4. /\ table' \in [Fds -> 0 .. opened']
      /\ opened' \in 0 .. MaxOpens
      /\ opened' = opened + 1
      /\ nonblock' \subseteq Fds
      /\ cloexec' \subseteq Fds
      /\ asked' \subseteq 1 .. opened'
      /\ table'[fd] = opened'
      /\ \A g \in Fds : g # fd => table'[g] = table[g]
      /\ \A p \in Objects : Holds(p) => sock_[p] # fd
      /\ fd \notin native
      /\ NonBlockingAsAsked'
      /\ OneNumber'
  BY <1>1, OpensProperties
<1>5. TypeOK'
  BY <1>1, <1>2, <1>3, <1>4 DEF TypeOK
<1>6. \A p \in Objects : p # o => (Holds(p)' <=> Holds(p))
  BY <1>1, <1>3 DEF Holds
<1>7. UniqueOwner'
  BY <1>1, <1>3, <1>4, <1>6 DEF UniqueOwner, Holds, IInv
<1>8. HoldsWhatWasMeant'
  <2> SUFFICES ASSUME NEW p \in Objects, Holds(p)'
               PROVE  meant'[p] # 0 /\ table'[sock_'[p]] = meant'[p]
    BY DEF HoldsWhatWasMeant
  <2>1. CASE p = o
    BY <1>3, <1>4, <2>1
  <2>2. CASE p # o
    <3>1. Holds(p) /\ sock_[p] \in Fds
      BY <1>2, <1>6, <2>2 DEF Holds, TypeOK
    <3>2. QED
      BY <1>3, <1>4, <2>2, <3>1 DEF IInv, HoldsWhatWasMeant
  <2>3. QED
    BY <2>1, <2>2
<1>9. NoLeak'
  <2> SUFFICES ASSUME NEW g \in Fds, table'[g] # 0
               PROVE  g \in native' \/ \E p \in Objects : Holds(p)' /\ sock_'[p] = g
    BY DEF NoLeak
  <2>1. CASE g = fd
    BY <1>1, <1>3, <2>1 DEF Holds
  <2>2. CASE g # fd
    <3>1. g \in native \/ \E p \in Objects : Holds(p) /\ sock_[p] = g
      BY <1>4, <2>2 DEF IInv, NoLeak
    <3>2. QED
      BY <1>1, <1>3, <1>6, <3>1 DEF Holds
  <2>3. QED
    BY <2>1, <2>2
<1>10. NativeOpen'
  BY <1>1, <1>2, <1>4 DEF NativeOpen, TypeOK, IInv
<1>11. QED
  BY <1>4, <1>5, <1>7, <1>8, <1>9, <1>10 DEF IInv

LEMMA OpenNativePreserves ==
  ASSUME IInv, NEW fd \in Fds, NEW type \in SUBSET Flags, OpenNative(fd, type)
  PROVE  IInv'
<1> USE BadFdIsNoFd
<1>1. /\ Opens(fd, type)
      /\ native' = native \cup {fd}
      /\ UNCHANGED <<alive, sock_, meant, promised>>
  BY DEF OpenNative
<1>2. TypeOK /\ opened \in Nat
  BY SocketsAssumption DEF IInv, TypeOK
<1>3. /\ table' \in [Fds -> 0 .. opened']
      /\ opened' \in 0 .. MaxOpens
      /\ opened' = opened + 1
      /\ nonblock' \subseteq Fds
      /\ cloexec' \subseteq Fds
      /\ asked' \subseteq 1 .. opened'
      /\ table'[fd] = opened'
      /\ \A g \in Fds : g # fd => table'[g] = table[g]
      /\ \A p \in Objects : Holds(p) => sock_[p] # fd
      /\ fd \notin native
      /\ NonBlockingAsAsked'
      /\ OneNumber'
  BY <1>1, OpensProperties
<1>4. TypeOK'
  BY <1>1, <1>2, <1>3 DEF TypeOK
<1>5. \A p \in Objects : Holds(p)' <=> Holds(p)
  BY <1>1 DEF Holds
<1>6. UniqueOwner'
  BY <1>1, <1>3, <1>5 DEF UniqueOwner, IInv
<1>7. HoldsWhatWasMeant'
  BY <1>1, <1>2, <1>3, <1>5 DEF HoldsWhatWasMeant, Holds, TypeOK, IInv
<1>8. NoLeak'
  BY <1>1, <1>3, <1>5 DEF NoLeak, IInv
<1>9. NativeOpen'
  BY <1>1, <1>2, <1>3 DEF NativeOpen, TypeOK, IInv
<1>10. QED
  BY <1>3, <1>4, <1>6, <1>7, <1>8, <1>9 DEF IInv

(* The constructors that open nothing, and the moves: the descriptors stay *)
(* as they are, each with an owner.                                        *)
LEMMA DefaultPreserves ==
  ASSUME IInv, NEW o \in Objects, Default(o)
  PROVE  IInv'
<1>1. /\ o \notin alive
      /\ alive' = alive \cup {o}
      /\ sock_' = [sock_ EXCEPT ![o] = BadFd]
      /\ meant' = [meant EXCEPT ![o] = 0]
      /\ UNCHANGED <<table, nonblock, cloexec, opened, native, asked, promised>>
  BY DEF Default
<1>2. TypeOK
  BY DEF IInv
<1>3. TypeOK'
  BY <1>1, <1>2, SocketsAssumption DEF TypeOK
<1>4. /\ \A p \in Objects : Holds(p)' <=> Holds(p)
      /\ \A p \in Objects : Holds(p) => sock_'[p] = sock_[p] /\ meant'[p] = meant[p]
  BY <1>1, <1>2 DEF Holds, TypeOK
<1>5. UniqueOwner' /\ HoldsWhatWasMeant' /\ NoLeak'
  <2>1. UniqueOwner'
    BY <1>1, <1>4 DEF UniqueOwner, IInv
  <2>2. HoldsWhatWasMeant'
    BY <1>1, <1>4 DEF HoldsWhatWasMeant, IInv
  <2>3. NoLeak'
    BY <1>1, <1>4 DEF NoLeak, IInv
  <2>4. QED
    BY <2>1, <2>2, <2>3
<1>6. NonBlockingAsAsked' /\ NativeOpen' /\ OneNumber'
  BY <1>1 DEF NonBlockingAsAsked, NativeOpen, OneNumber, IInv
<1>7. QED
  BY <1>3, <1>5, <1>6 DEF IInv

LEMMA AdoptPreserves ==
  ASSUME IInv, NEW o \in Objects, NEW fd \in Fds, Adopt(o, fd)
  PROVE  IInv'
<1> USE BadFdIsNoFd
<1>1. /\ o \notin alive
      /\ fd \in native
      /\ native' = native \ {fd}
      /\ alive' = alive \cup {o}
      /\ sock_' = [sock_ EXCEPT ![o] = fd]
      /\ meant' = [meant EXCEPT ![o] = table[fd]]
      /\ UNCHANGED <<table, nonblock, cloexec, opened, asked, promised>>
  BY DEF Adopt
<1>2. TypeOK
  BY DEF IInv
<1>3. TypeOK'
  BY <1>1, <1>2 DEF TypeOK
<1>4. /\ \A p \in Objects : p # o => /\ Holds(p)' <=> Holds(p)
                                    /\ sock_'[p] = sock_[p]
                                    /\ meant'[p] = meant[p]
      /\ Holds(o)' /\ sock_'[o] = fd /\ meant'[o] = table[fd]
  BY <1>1, <1>2 DEF Holds, TypeOK
<1>5. table[fd] # 0
  BY <1>1 DEF IInv, NativeOpen
<1>6. UniqueOwner'
  BY <1>1, <1>4 DEF UniqueOwner, IInv
<1>7. HoldsWhatWasMeant'
  BY <1>1, <1>4, <1>5 DEF HoldsWhatWasMeant, IInv
<1>8. NoLeak'
  <2> SUFFICES ASSUME NEW g \in Fds, table'[g] # 0
               PROVE  g \in native' \/ \E p \in Objects : Holds(p)' /\ sock_'[p] = g
    BY DEF NoLeak
  <2>1. g \in native \/ \E p \in Objects : Holds(p) /\ sock_[p] = g
    BY <1>1 DEF NoLeak, IInv
  <2>2. \A p \in Objects : Holds(p) => p # o
    BY <1>1 DEF Holds
  <2>3. QED
    BY <1>1, <1>4, <2>1, <2>2
<1>9. NonBlockingAsAsked' /\ NativeOpen' /\ OneNumber'
  BY <1>1 DEF NonBlockingAsAsked, NativeOpen, OneNumber, IInv
<1>10. QED
  BY <1>3, <1>6, <1>7, <1>8, <1>9 DEF IInv

(* Moving gives what b has to a and what a had, if anything, to b.         *)
LEMMA ExchangePreserves ==
  ASSUME IInv, NEW a \in Objects, NEW b \in Objects, a # b, TypeOK',
         sock_'[a] = sock_[b], meant'[a] = meant[b],
         Holds(a)' <=> Holds(b), Holds(b)' <=> Holds(a),
         Holds(a) => sock_'[b] = sock_[a] /\ meant'[b] = meant[a],
         \A p \in Objects \ {a, b} :
           (Holds(p)' <=> Holds(p)) /\ sock_'[p] = sock_[p] /\ meant'[p] = meant[p],
         UNCHANGED <<table, nonblock, opened, native, asked>>
  PROVE  IInv'
<1> DEFINE Was(p) == IF p = a THEN b ELSE IF p = b THEN a ELSE p
<1>1. \A p \in Objects : Was(p) \in Objects /\ Was(Was(p)) = p
  OBVIOUS
<1>2. \A p \in Objects :
        /\ Holds(p)' <=> Holds(Was(p))
        /\ Holds(p)' => sock_'[p] = sock_[Was(p)] /\ meant'[p] = meant[Was(p)]
  OBVIOUS
<1>3. UniqueOwner'
  <2> SUFFICES ASSUME NEW p \in Objects, Holds(p)'
               PROVE  /\ sock_'[p] \notin native'
                      /\ \A q \in Objects : q # p /\ Holds(q)' => sock_'[p] # sock_'[q]
    BY DEF UniqueOwner
  <2>1. /\ sock_[Was(p)] \notin native
        /\ \A q \in Objects : q # Was(p) /\ Holds(q) => sock_[Was(p)] # sock_[q]
    BY <1>1, <1>2 DEF UniqueOwner, IInv
  <2>2. \A q \in Objects : q # p => Was(q) # Was(p)
    OBVIOUS
  <2> HIDE DEF Was
  <2>3. QED
    BY <1>1, <1>2, <2>1, <2>2
<1> HIDE DEF Was
<1>4. HoldsWhatWasMeant'
  BY <1>1, <1>2 DEF HoldsWhatWasMeant, IInv
<1>5. NoLeak'
  <2> SUFFICES ASSUME NEW g \in Fds, table'[g] # 0
               PROVE  g \in native' \/ \E p \in Objects : Holds(p)' /\ sock_'[p] = g
    BY DEF NoLeak
  <2>1. CASE g \in native
    BY <2>1
  <2>2. CASE \E p \in Objects : Holds(p) /\ sock_[p] = g
    <3>1. PICK p \in Objects : Holds(p) /\ sock_[p] = g
      BY <2>2
    <3>2. Holds(Was(p))' /\ sock_'[Was(p)] = g
      BY <1>1, <1>2, <3>1
    <3>3. QED
      BY <1>1, <3>2
  <2>3. QED
    BY <2>1, <2>2 DEF IInv, NoLeak
<1>6. NonBlockingAsAsked' /\ NativeOpen' /\ OneNumber'
  BY DEF NonBlockingAsAsked, NativeOpen, OneNumber, IInv
<1>7. QED
  BY <1>3, <1>4, <1>5, <1>6 DEF IInv

LEMMA MoveConstructPreserves ==
  ASSUME IInv, NEW o \in Objects, NEW from \in Objects, MoveConstruct(o, from)
  PROVE  IInv'
<1>1. /\ o \notin alive
      /\ from \in alive
      /\ alive' = alive \cup {o}
      /\ sock_' = [sock_ EXCEPT ![o] = sock_[from], ![from] = BadFd]
      /\ meant' = [meant EXCEPT ![o] = meant[from], ![from] = 0]
      /\ UNCHANGED <<table, nonblock, cloexec, opened, native, asked, promised>>
  BY DEF MoveConstruct
<1>2. TypeOK /\ opened \in Nat
  BY SocketsAssumption DEF IInv, TypeOK
<1>3. o # from
  BY <1>1
<1>4. /\ sock_'[o] = sock_[from] /\ meant'[o] = meant[from]
      /\ sock_'[from] = BadFd
      /\ \A p \in Objects \ {o, from} : sock_'[p] = sock_[p] /\ meant'[p] = meant[p]
  BY <1>1, <1>2, <1>3 DEF TypeOK
<1>5. TypeOK'
  BY <1>1, <1>2 DEF TypeOK
<1>6. /\ Holds(o)' <=> Holds(from)
      /\ ~Holds(from)' /\ ~Holds(o)
      /\ \A p \in Objects \ {o, from} : Holds(p)' <=> Holds(p)
  BY <1>1, <1>4 DEF Holds
<1>7. QED
  BY <1>1, <1>3, <1>4, <1>5, <1>6, ExchangePreserves

LEMMA MoveAssignPreserves ==
  ASSUME IInv, NEW o \in Objects, NEW from \in Objects, MoveAssign(o, from)
  PROVE  IInv'
<1>1. /\ o \in alive
      /\ from \in alive
      /\ sock_' = IF o = from THEN sock_ ELSE Swapped(sock_, o, from)
      /\ meant' = IF o = from THEN meant ELSE Swapped(meant, o, from)
      /\ UNCHANGED <<table, nonblock, cloexec, opened, alive, native, asked, promised>>
  BY DEF MoveAssign
<1>2. TypeOK /\ opened \in Nat
  BY SocketsAssumption DEF IInv, TypeOK
<1>3. TypeOK'
  BY <1>1, <1>2 DEF TypeOK, Swapped
<1>4. CASE o = from
  <2>1. UNCHANGED vars
    BY <1>1, <1>4 DEF vars
  <2>2. QED
    BY <2>1 DEF vars, IInv, TypeOK, UniqueOwner, HoldsWhatWasMeant, NoLeak,
                NonBlockingAsAsked, NativeOpen, OneNumber, Holds
<1>5. CASE o # from
  <2>1. /\ sock_'[o] = sock_[from] /\ meant'[o] = meant[from]
        /\ sock_'[from] = sock_[o] /\ meant'[from] = meant[o]
        /\ \A p \in Objects \ {o, from} : sock_'[p] = sock_[p] /\ meant'[p] = meant[p]
    BY <1>1, <1>2, <1>5 DEF TypeOK, Swapped
  <2>2. /\ Holds(o)' <=> Holds(from)
        /\ Holds(from)' <=> Holds(o)
        /\ \A p \in Objects \ {o, from} : Holds(p)' <=> Holds(p)
    BY <1>1, <2>1 DEF Holds
  <2>3. QED
    BY <1>1, <1>3, <1>5, <2>1, <2>2, ExchangePreserves
<1>6. QED
  BY <1>4, <1>5

(* The three ways to close: its owner gives the descriptor up.             *)
LEMMA CloseNativePreserves ==
  ASSUME IInv, NEW fd \in Fds, CloseNative(fd)
  PROVE  IInv'
<1>1. /\ fd \in native
      /\ Closes(fd)
      /\ native' = native \ {fd}
      /\ UNCHANGED <<nonblock, cloexec, opened, alive, sock_, meant, asked, promised>>
  BY DEF CloseNative
<1>2. /\ table' \in [Fds -> 0 .. opened']
      /\ table'[fd] = 0
      /\ \A g \in Fds : g # fd => table'[g] = table[g]
      /\ NonBlockingAsAsked'
      /\ OneNumber'
  BY <1>1, ClosesProperties
<1>3. TypeOK
  BY DEF IInv
<1>4. TypeOK'
  BY <1>1, <1>2, <1>3 DEF TypeOK
<1>5. \A p \in Objects : Holds(p)' <=> Holds(p)
  BY <1>1 DEF Holds
<1>6. \A p \in Objects : Holds(p) => sock_[p] \in Fds /\ sock_[p] # fd
  BY <1>1, <1>3 DEF Holds, TypeOK, UniqueOwner, IInv
<1>7. UniqueOwner'
  BY <1>1, <1>5 DEF UniqueOwner, IInv
<1>8. HoldsWhatWasMeant'
  BY <1>1, <1>2, <1>5, <1>6 DEF HoldsWhatWasMeant, IInv
<1>9. NoLeak'
  BY <1>1, <1>2, <1>5 DEF NoLeak, IInv
<1>10. NativeOpen'
  BY <1>1, <1>2, <1>3 DEF NativeOpen, TypeOK, IInv
<1>11. QED
  BY <1>2, <1>4, <1>7, <1>8, <1>9, <1>10 DEF IInv

(* Object o gives its descriptor up, by close() or as it is destroyed.     *)
LEMMA GiveUpPreserves ==
  ASSUME IInv, NEW o \in Objects, Holds(o), Closes(sock_[o]), ~Holds(o)', TypeOK',
         \A p \in Objects \ {o} :
           (Holds(p)' <=> Holds(p)) /\ sock_'[p] = sock_[p] /\ meant'[p] = meant[p],
         UNCHANGED <<nonblock, opened, native, asked>>
  PROVE  IInv'
<1>1. TypeOK /\ sock_[o] \in Fds
  BY DEF IInv, TypeOK, Holds
<1>2. PICK fd \in Fds : fd = sock_[o]
  BY <1>1
<1>3. /\ table'[fd] = 0
      /\ \A g \in Fds : g # fd => table'[g] = table[g]
      /\ NonBlockingAsAsked'
      /\ OneNumber'
  BY <1>2, ClosesProperties
<1>4. /\ fd \notin native
      /\ \A p \in Objects \ {o} : Holds(p) => sock_[p] \in Fds /\ sock_[p] # fd
  BY <1>1, <1>2 DEF UniqueOwner, IInv, Holds, TypeOK
<1>5. UniqueOwner'
  BY DEF UniqueOwner, IInv
<1>6. HoldsWhatWasMeant'
  BY <1>3, <1>4 DEF HoldsWhatWasMeant, IInv
<1>7. NoLeak'
  <2> SUFFICES ASSUME NEW g \in Fds, table'[g] # 0
               PROVE  g \in native' \/ \E p \in Objects : Holds(p)' /\ sock_'[p] = g
    BY DEF NoLeak
  <2>1. g # fd /\ table[g] # 0
    BY <1>3
  <2>2. g \in native \/ \E p \in Objects : Holds(p) /\ sock_[p] = g
    BY <2>1 DEF NoLeak, IInv
  <2>3. QED
    BY <1>2, <2>1, <2>2
<1>8. NativeOpen'
  BY <1>1, <1>3, <1>4 DEF NativeOpen, IInv, TypeOK
<1>9. QED
  BY <1>3, <1>5, <1>6, <1>7, <1>8 DEF IInv

LEMMA ClosePreserves ==
  ASSUME IInv, NEW o \in Objects, Close(o)
  PROVE  IInv'
<1>1. /\ o \in alive
      /\ UNCHANGED <<nonblock, cloexec, opened, alive, native, asked, promised>>
  BY DEF Close
<1>2. TypeOK /\ opened \in Nat
  BY SocketsAssumption DEF IInv, TypeOK
<1>3. CASE sock_[o] = BadFd
  <2>1. UNCHANGED vars
    BY <1>1, <1>3 DEF Close, vars
  <2>2. QED
    BY <2>1 DEF vars, IInv, TypeOK, UniqueOwner, HoldsWhatWasMeant, NoLeak,
                NonBlockingAsAsked, NativeOpen, OneNumber, Holds
<1>4. CASE sock_[o] # BadFd
  <2>1. /\ Closes(sock_[o])
        /\ sock_' = [sock_ EXCEPT ![o] = BadFd]
        /\ meant' = [meant EXCEPT ![o] = 0]
    BY <1>4 DEF Close
  <2>2. Holds(o) /\ sock_[o] \in Fds
    BY <1>1, <1>2, <1>4 DEF Holds, TypeOK
  <2>3. TypeOK'
    <3>1. table' \in [Fds -> 0 .. opened]
      BY <1>2, <2>1, <2>2 DEF TypeOK, Closes
    <3>2. sock_' \in [Objects -> Fds \cup {BadFd}] /\ meant' \in [Objects -> 0 .. opened]
      BY <1>2, <2>1 DEF TypeOK
    <3>3. QED
      BY <1>1, <1>2, <3>1, <3>2 DEF TypeOK
  <2>4. /\ ~Holds(o)'
        /\ \A p \in Objects \ {o} :
             (Holds(p)' <=> Holds(p)) /\ sock_'[p] = sock_[p] /\ meant'[p] = meant[p]
    BY <1>1, <1>2, <2>1 DEF Holds, TypeOK
  <2>5. QED
    BY <1>1, <2>1, <2>2, <2>3, <2>4, GiveUpPreserves
<1>5. QED
  BY <1>3, <1>4

LEMMA DestroyPreserves ==
  ASSUME IInv, NEW o \in Objects, Destroy(o)
  PROVE  IInv'
<1>1. /\ o \in alive
      /\ alive' = alive \ {o}
      /\ UNCHANGED <<nonblock, cloexec, opened, sock_, native, meant, asked, promised>>
  BY DEF Destroy
<1>2. TypeOK /\ opened \in Nat
  BY SocketsAssumption DEF IInv, TypeOK
<1>3. /\ ~Holds(o)'
      /\ \A p \in Objects \ {o} :
           (Holds(p)' <=> Holds(p)) /\ sock_'[p] = sock_[p] /\ meant'[p] = meant[p]
  BY <1>1 DEF Holds
<1>4. CASE sock_[o] = BadFd
  <2>1. table' = table /\ ~Holds(o)
    BY <1>4 DEF Destroy, Holds
  <2>2. TypeOK'
    BY <1>1, <1>2, <2>1 DEF TypeOK
  <2>3. UniqueOwner' /\ HoldsWhatWasMeant'
    BY <1>1, <1>3, <2>1 DEF UniqueOwner, HoldsWhatWasMeant, IInv
  <2>4. NoLeak'
    BY <1>1, <1>3, <2>1 DEF NoLeak, IInv
  <2>5. NonBlockingAsAsked' /\ NativeOpen' /\ OneNumber'
    BY <1>1, <2>1 DEF NonBlockingAsAsked, NativeOpen, OneNumber, IInv
  <2>6. QED
    BY <2>2, <2>3, <2>4, <2>5 DEF IInv
<1>5. CASE sock_[o] # BadFd
  <2>1. Closes(sock_[o]) /\ Holds(o) /\ sock_[o] \in Fds
    BY <1>1, <1>2, <1>5 DEF Destroy, Holds, TypeOK
  <2>2. TypeOK'
    <3>1. table' \in [Fds -> 0 .. opened]
      BY <1>2, <2>1 DEF TypeOK, Closes
    <3>2. QED
      BY <1>1, <1>2, <3>1 DEF TypeOK
  <2>3. QED
    BY <1>1, <1>3, <2>1, <2>2, GiveUpPreserves
<1>6. QED
  BY <1>4, <1>5

(* The flag follows the socket: no other descriptor leads to it.           *)
LEMMA SetNonBlockingPreserves ==
  ASSUME IInv, NEW o \in Objects, NEW value \in BOOLEAN, SetNonBlocking(o, value)
  PROVE  IInv'
<1>1. /\ o \in alive
      /\ IsOpen(sock_[o])
      /\ nonblock' = Put(nonblock, sock_[o], value)
      /\ asked' = Put(asked, meant[o], value)
      /\ UNCHANGED <<table, cloexec, opened, alive, sock_, native, meant, promised>>
  BY DEF SetNonBlocking
<1>2. TypeOK /\ opened \in Nat
  BY SocketsAssumption DEF IInv, TypeOK
<1>3. PICK fd \in Fds : fd = sock_[o] /\ table[fd] # 0
  BY <1>1 DEF IsOpen
<1>4. Holds(o)
  BY <1>1, <1>3, BadFdIsNoFd DEF Holds
<1>5. meant[o] # 0 /\ table[fd] = meant[o]
  BY <1>3, <1>4 DEF IInv, HoldsWhatWasMeant
<1>6. TypeOK'
  BY <1>1, <1>2, <1>3, <1>5 DEF TypeOK, Put
<1>7. UniqueOwner' /\ HoldsWhatWasMeant'
  BY <1>1 DEF UniqueOwner, HoldsWhatWasMeant, Holds, IInv
<1>8. NoLeak' /\ NativeOpen' /\ OneNumber'
  BY <1>1 DEF NoLeak, NativeOpen, OneNumber, Holds, IInv
<1>9. NonBlockingAsAsked'
  <2> SUFFICES ASSUME NEW g \in Fds, table[g] # 0
               PROVE  g \in nonblock' <=> table[g] \in asked'
    BY <1>1 DEF NonBlockingAsAsked
  <2>1. g \in nonblock <=> table[g] \in asked
    BY DEF NonBlockingAsAsked, IInv
  <2>2. g = fd <=> table[g] = meant[o]
    BY <1>5 DEF OneNumber, IInv
  <2>3. QED
    BY <1>1, <1>3, <2>1, <2>2 DEF Put
<1>10. QED
  BY <1>6, <1>7, <1>8, <1>9 DEF IInv

LEMMA SetCloexecPreserves ==
  ASSUME IInv, NEW o \in Objects, NEW value \in BOOLEAN, SetCloexec(o, value)
  PROVE  IInv'
<1>1. /\ o \in alive
      /\ IsOpen(sock_[o])
      /\ promised' = Put(promised, meant[o], value)
      /\ UNCHANGED <<table, nonblock, cloexec, opened, alive, sock_, native, meant, asked>>
  BY DEF SetCloexec
<1>2. TypeOK /\ opened \in Nat
  BY SocketsAssumption DEF IInv, TypeOK
<1>3. Holds(o)
  BY <1>1, BadFdIsNoFd DEF Holds, IsOpen
<1>4. meant[o] \in 1 .. opened
  BY <1>2, <1>3 DEF IInv, HoldsWhatWasMeant, TypeOK
<1>5. TypeOK'
  BY <1>1, <1>2, <1>4 DEF TypeOK, Put
<1>6. UniqueOwner' /\ HoldsWhatWasMeant'
  BY <1>1 DEF UniqueOwner, HoldsWhatWasMeant, Holds, IInv
<1>7. NoLeak' /\ NativeOpen' /\ OneNumber' /\ NonBlockingAsAsked'
  BY <1>1 DEF NoLeak, NativeOpen, OneNumber, NonBlockingAsAsked, Holds, IInv
<1>8. QED
  BY <1>5, <1>6, <1>7 DEF IInv

LEMMA NextPreserves == IInv /\ [Next]_vars => IInv'
<1> SUFFICES ASSUME IInv, [Next]_vars
             PROVE  IInv'
  OBVIOUS
<1>1. CASE UNCHANGED vars
  BY <1>1 DEF vars, IInv, TypeOK, UniqueOwner, HoldsWhatWasMeant, NoLeak,
              NonBlockingAsAsked, NativeOpen, OneNumber, Holds
<1>2. ASSUME NEW o \in Objects, Default(o) \/ Close(o) \/ Destroy(o)
      PROVE  IInv'
  BY <1>2, DefaultPreserves, ClosePreserves, DestroyPreserves
<1>3. ASSUME NEW o \in Objects, NEW fd \in Fds, Adopt(o, fd)
      PROVE  IInv'
  BY <1>3, AdoptPreserves
<1>4. ASSUME NEW o \in Objects, NEW fd \in Fds, NEW type \in SUBSET Flags,
             Create(o, fd, type)
      PROVE  IInv'
  BY <1>4, CreatePreserves
<1>5. ASSUME NEW o \in Objects, NEW from \in Objects,
             MoveConstruct(o, from) \/ MoveAssign(o, from)
      PROVE  IInv'
  BY <1>5, MoveConstructPreserves, MoveAssignPreserves
<1>6. ASSUME NEW o \in Objects, NEW value \in BOOLEAN,
             SetNonBlocking(o, value) \/ SetCloexec(o, value)
      PROVE  IInv'
  BY <1>6, SetNonBlockingPreserves, SetCloexecPreserves
<1>7. ASSUME NEW fd \in Fds, CloseNative(fd)
      PROVE  IInv'
  BY <1>7, CloseNativePreserves
<1>8. ASSUME NEW fd \in Fds, NEW type \in SUBSET Flags, OpenNative(fd, type)
      PROVE  IInv'
  BY <1>8, OpenNativePreserves
<1>9. QED
  BY <1>1, <1>2, <1>3, <1>4, <1>5, <1>6, <1>7, <1>8 DEF Next

(* The inductive invariant holds: Socket's constructors, moves, close()    *)
(* and destructor, in any order, over any descriptors.                     *)
THEOREM Invariance == Spec => []IInv
<1>1. QED
  BY InitEstablishesIInv, NextPreserves, PTL DEF Spec

(* No descriptor is owned twice: no destructor closes what another object  *)
(* or the program still uses.                                              *)
THEOREM OneOwner == Spec => []UniqueOwner
<1>1. IInv => UniqueOwner
  BY DEF IInv
<1>2. QED
  BY <1>1, Invariance, PTL

(* No object reaches a socket other than the one it was given, however the *)
(* kernel uses closed numbers again.                                       *)
THEOREM NeverSomebodyElses == Spec => []HoldsWhatWasMeant
<1>1. IInv => HoldsWhatWasMeant
  BY DEF IInv
<1>2. QED
  BY <1>1, Invariance, PTL

(* No chain of moves and swaps loses an open socket.                       *)
THEOREM NothingLeaks == Spec => []NoLeak
<1>1. IInv => NoLeak
  BY DEF IInv
<1>2. QED
  BY <1>1, Invariance, PTL

(* setNonBlocking() follows the socket through every move.                 *)
THEOREM FlagFollowsSocket == Spec => []NonBlockingAsAsked
<1>1. IInv => NonBlockingAsAsked
  BY DEF IInv
<1>2. QED
  BY <1>1, Invariance, PTL

(* A socket is closed in a step of its owner, and its number leads to it   *)
(* until then.                                                             *)
THEOREM OwnersClose == Spec => OnlyOwnersClose
<1> DEFINE Step ==
      \A fd \in Fds : table[fd] # 0 => \/ table'[fd] = table[fd]
                                       \/ table'[fd] = 0 /\ ClosesOwn(fd)
<1>1. IInv /\ [Next]_vars => [Step]_vars
  <2> SUFFICES ASSUME IInv, Next, NEW g \in Fds, table[g] # 0, table'[g] # table[g]
               PROVE  table'[g] = 0 /\ ClosesOwn(g)
    OBVIOUS
  <2>1. table \in [Fds -> 0 .. opened]
    BY DEF IInv, TypeOK
  <2>2. \A fd \in Fds : Closes(fd) => g = fd /\ table'[g] = 0
    BY <2>1 DEF Closes
  <2>3. ASSUME NEW fd \in Fds, CloseNative(fd)
        PROVE  table'[g] = 0 /\ ClosesOwn(g)
    BY <2>2, <2>3 DEF CloseNative, ClosesOwn
  <2>4. ASSUME NEW o \in Objects, Close(o) \/ Destroy(o)
        PROVE  table'[g] = 0 /\ ClosesOwn(g)
    <3>1. o \in alive /\ sock_[o] # BadFd /\ Closes(sock_[o])
      BY <2>4 DEF Close, Destroy
    <3>2. /\ sock_[o] \in Fds
          /\ table[sock_[o]] = meant[o]
          /\ alive \subseteq Objects
          /\ sock_ \in [Objects -> Fds \cup {BadFd}]
      BY <3>1 DEF IInv, TypeOK, HoldsWhatWasMeant, Holds
    <3>3. g = sock_[o] /\ table'[g] = 0
      BY <2>2, <3>1, <3>2
    <3>4. o \notin alive' \/ sock_'[o] = BadFd
      BY <2>4, <3>1, <3>2 DEF Close, Destroy
    <3>5. QED
      BY <3>1, <3>2, <3>3, <3>4 DEF ClosesOwn
  <2>5. \A fd \in Fds, type \in SUBSET Flags : ~Opens(fd, type)
    BY <2>1 DEF Opens
  <2>6. QED
    BY <2>3, <2>4, <2>5 DEF Next, Default, Create, OpenNative, Adopt, MoveConstruct,
                            MoveAssign, SetNonBlocking, SetCloexec
<1>2. QED
  BY <1>1, Invariance, PTL DEF Spec, OnlyOwnersClose
=============================================================================
