------------------------------ MODULE Sockets ------------------------------
(***************************************************************************)
(* netbox::Socket, the owner of a file descriptor, and the descriptors of  *)
(* the process: which object owns which descriptor through construction,   *)
(* adoption, moves, swaps, close and destruction, while the kernel hands   *)
(* out the numbers of closed descriptors again.                            *)
(*                                                                         *)
(* A SocketResult is an object here as well: it holds the accepted socket  *)
(* until getSocket() moves it out.                                         *)
(***************************************************************************)
EXTENDS Integers, FiniteSets

CONSTANTS
  Objects,    (* places for a Socket, or for a SocketResult                *)
  Fds,        (* descriptor numbers the process may get                    *)
  MaxOpens    (* bound: sockets opened altogether                          *)

BadFd == -1

ASSUME SocketsAssumption ==
  /\ Fds \subseteq Nat
  /\ MaxOpens \in Nat

VARIABLES
  table,      (* kernel: the socket a descriptor leads to, 0 if it is closed *)
  nonblock,   (* kernel: the descriptors with O_NONBLOCK                   *)
  cloexec,    (* kernel: the descriptors with FD_CLOEXEC                   *)
  opened,     (* kernel: the sockets opened so far, 1 .. opened            *)
  alive,      (* the objects constructed and not destroyed                 *)
  sock_,      (* the descriptor in each object                             *)
  native,     (* descriptors the program got by calls of its own           *)
  meant,      (* history: the socket each object was given to hold         *)
  asked,      (* history: the sockets that were set non-blocking           *)
  promised    (* history: the sockets whose setCloexec() returned true     *)

vars ==
  <<table, nonblock, cloexec, opened, alive, sock_, native, meant, asked, promised>>

TypeOK ==
  /\ table \in [Fds -> 0 .. opened]
  /\ nonblock \subseteq Fds
  /\ cloexec \subseteq Fds
  /\ opened \in 0 .. MaxOpens
  /\ alive \subseteq Objects
  /\ sock_ \in [Objects -> Fds \cup {BadFd}]
  /\ native \subseteq Fds
  /\ meant \in [Objects -> 0 .. opened]
  /\ asked \subseteq 1 .. opened
  /\ promised \subseteq 1 .. opened

Init ==
  /\ table = [fd \in Fds |-> 0]
  /\ nonblock = {}
  /\ cloexec = {}
  /\ opened = 0
  /\ alive = {}
  /\ sock_ = [o \in Objects |-> BadFd]
  /\ native = {}
  /\ meant = [o \in Objects |-> 0]
  /\ asked = {}
  /\ promised = {}

-----------------------------------------------------------------------------
Put(set, x, yes) == IF yes THEN set \cup {x} ELSE set \ {x}

(* socket() and accept() of the kernel: any free number.  socket() takes   *)
(* SOCK_NONBLOCK and SOCK_CLOEXEC in its type, accept() sets neither flag. *)
Flags == {"SOCK_NONBLOCK", "SOCK_CLOEXEC"}

Opens(fd, type) ==
  /\ opened < MaxOpens
  /\ table[fd] = 0
  /\ opened' = opened + 1
  /\ table' = [table EXCEPT ![fd] = opened + 1]
  /\ nonblock' = Put(nonblock, fd, "SOCK_NONBLOCK" \in type)
  /\ cloexec' = Put(cloexec, fd, "SOCK_CLOEXEC" \in type)
  /\ asked' = Put(asked, opened + 1, "SOCK_NONBLOCK" \in type)

Closes(fd) == table' = [table EXCEPT ![fd] = 0]

(* Socket()                                                                *)
Default(o) ==
  /\ o \notin alive
  /\ alive' = alive \cup {o}
  /\ sock_' = [sock_ EXCEPT ![o] = BadFd]
  /\ meant' = [meant EXCEPT ![o] = 0]
  /\ UNCHANGED <<table, nonblock, cloexec, opened, native, asked, promised>>

(***************************************************************************)
(* Socket::create(), and accept() with its result.  A create() that fails  *)
(* throws and makes no object; an accept() that fails makes one that holds *)
(* nothing, as Default does.                                               *)
(***************************************************************************)
Create(o, fd, type) ==
  /\ o \notin alive
  /\ Opens(fd, type)
  /\ alive' = alive \cup {o}
  /\ sock_' = [sock_ EXCEPT ![o] = fd]
  /\ meant' = [meant EXCEPT ![o] = opened + 1]
  /\ UNCHANGED <<native, promised>>

(* The program opens a descriptor itself and closes it, or makes a Socket  *)
(* of it: Socket(int), which then owns it.                                 *)
OpenNative(fd, type) ==
  /\ Opens(fd, type)
  /\ native' = native \cup {fd}
  /\ UNCHANGED <<alive, sock_, meant, promised>>

CloseNative(fd) ==
  /\ fd \in native
  /\ Closes(fd)
  /\ native' = native \ {fd}
  /\ UNCHANGED <<nonblock, cloexec, opened, alive, sock_, meant, asked, promised>>

Adopt(o, fd) ==
  /\ o \notin alive
  /\ fd \in native
  /\ native' = native \ {fd}
  /\ alive' = alive \cup {o}
  /\ sock_' = [sock_ EXCEPT ![o] = fd]
  /\ meant' = [meant EXCEPT ![o] = table[fd]]
  /\ UNCHANGED <<table, nonblock, cloexec, opened, asked, promised>>

-----------------------------------------------------------------------------
Swapped(f, a, b) == [f EXCEPT ![a] = f[b], ![b] = f[a]]

MoveConstructCopy(o, from) ==
  /\ o \notin alive
  /\ from \in alive
  /\ alive' = alive \cup {o}
  /\ sock_' = [sock_ EXCEPT ![o] = sock_[from]]
  /\ meant' = [meant EXCEPT ![o] = meant[from], ![from] = 0]
  /\ UNCHANGED <<table, nonblock, cloexec, opened, native, asked, promised>>

(* Socket(Socket&&), also as Socket s = result.getSocket(): a swap with a  *)
(* new object that holds nothing.                                          *)
MoveConstruct(o, from) ==
  /\ o \notin alive
  /\ from \in alive
  /\ alive' = alive \cup {o}
  /\ sock_' = [sock_ EXCEPT ![o] = sock_[from], ![from] = BadFd]
  /\ meant' = [meant EXCEPT ![o] = meant[from], ![from] = 0]
  /\ UNCHANGED <<table, nonblock, cloexec, opened, native, asked, promised>>

MoveAssignOverwrite(o, from) ==
  /\ o \in alive
  /\ from \in alive \ {o}
  /\ sock_' = [sock_ EXCEPT ![o] = sock_[from], ![from] = BadFd]
  /\ meant' = [meant EXCEPT ![o] = meant[from], ![from] = 0]
  /\ UNCHANGED <<table, nonblock, cloexec, opened, alive, native, asked, promised>>

(* operator=(Socket&&) and swap(): what the target held is not closed, it  *)
(* goes to the source.  An object assigned to itself keeps what it holds.  *)
MoveAssign(o, from) ==
  /\ o \in alive
  /\ from \in alive
  /\ sock_' = IF o = from THEN sock_ ELSE Swapped(sock_, o, from)
  /\ meant' = IF o = from THEN meant ELSE Swapped(meant, o, from)
  /\ UNCHANGED <<table, nonblock, cloexec, opened, alive, native, asked, promised>>

CloseKeeping(o) ==
  /\ o \in alive
  /\ sock_[o] # BadFd
  /\ Closes(sock_[o])
  /\ UNCHANGED <<nonblock, cloexec, opened, alive, sock_, native, meant, asked, promised>>

(* close(), which may be called on an object that holds nothing.           *)
Close(o) ==
  /\ o \in alive
  /\ IF sock_[o] = BadFd THEN UNCHANGED <<table, sock_, meant>>
     ELSE /\ Closes(sock_[o])
          /\ sock_' = [sock_ EXCEPT ![o] = BadFd]
          /\ meant' = [meant EXCEPT ![o] = 0]
  /\ UNCHANGED <<nonblock, cloexec, opened, alive, native, asked, promised>>

(* ~Socket(): the bytes of the object keep their value.                    *)
Destroy(o) ==
  /\ o \in alive
  /\ alive' = alive \ {o}
  /\ IF sock_[o] = BadFd THEN UNCHANGED table ELSE Closes(sock_[o])
  /\ UNCHANGED <<nonblock, cloexec, opened, sock_, native, meant, asked, promised>>

-----------------------------------------------------------------------------
(* fcntl() on what the object holds; it fails on a descriptor that is not  *)
(* open, and the call returns false.                                       *)
IsOpen(fd) == fd \in Fds /\ table[fd] # 0

SetNonBlockingOnly(o, value) ==
  /\ o \in alive
  /\ IsOpen(sock_[o])
  /\ nonblock' = nonblock \cup {sock_[o]}
  /\ asked' = Put(asked, meant[o], value)
  /\ UNCHANGED <<table, cloexec, opened, alive, sock_, native, meant, promised>>

SetNonBlocking(o, value) ==
  /\ o \in alive
  /\ IsOpen(sock_[o])
  /\ nonblock' = Put(nonblock, sock_[o], value)
  /\ asked' = Put(asked, meant[o], value)
  /\ UNCHANGED <<table, cloexec, opened, alive, sock_, native, meant, promised>>

(* setCloexec() uses F_GETFL and F_SETFL, which know nothing of the flag   *)
(* and ignore it.                                                          *)
SetCloexec(o, value) ==
  /\ o \in alive
  /\ IsOpen(sock_[o])
  /\ promised' = Put(promised, meant[o], value)
  /\ UNCHANGED <<table, nonblock, cloexec, opened, alive, sock_, native, meant, asked>>

Next ==
  \/ \E o \in Objects :
       \/ Default(o)
       \/ Close(o)
       \/ Destroy(o)
       \/ \E fd \in Fds :
            Adopt(o, fd) \/ \E type \in SUBSET Flags : Create(o, fd, type)
       \/ \E from \in Objects : MoveConstruct(o, from) \/ MoveAssign(o, from)
       \/ \E value \in BOOLEAN : SetNonBlocking(o, value) \/ SetCloexec(o, value)
  \/ \E fd \in Fds :
       CloseNative(fd) \/ \E type \in SUBSET Flags : OpenNative(fd, type)

Spec == Init /\ [][Next]_vars
-----------------------------------------------------------------------------
Holds(o) == o \in alive /\ sock_[o] # BadFd

(***************************************************************************)
(* A descriptor has one owner: an object, or the program itself.           *)
(***************************************************************************)
UniqueOwner ==
  \A a \in Objects :
    Holds(a) => /\ sock_[a] \notin native
                /\ \A b \in Objects : b # a /\ Holds(b) => sock_[a] # sock_[b]

(***************************************************************************)
(* The descriptor in an object still leads to the socket the object was    *)
(* given, however many were closed and their numbers used again since: no  *)
(* call on an object reaches another one's socket.                         *)
(***************************************************************************)
HoldsWhatWasMeant ==
  \A o \in Objects : Holds(o) => meant[o] # 0 /\ table[sock_[o]] = meant[o]

(***************************************************************************)
(* An open socket is reachable: some live object holds it, or the program  *)
(* does.  When all objects are destroyed none is left.                     *)
(***************************************************************************)
NoLeak ==
  \A fd \in Fds :
    table[fd] # 0 => \/ fd \in native
                     \/ \E o \in Objects : Holds(o) /\ sock_[o] = fd

(***************************************************************************)
(* A socket is non-blocking if and only if that was asked for last of the  *)
(* object that was meant to hold it, wherever it has been moved since.     *)
(***************************************************************************)
NonBlockingAsAsked ==
  \A fd \in Fds : table[fd] # 0 => (fd \in nonblock <=> table[fd] \in asked)

(***************************************************************************)
(* A socket is closed in a step of its owner only, and never otherwise     *)
(* replaced behind its number.                                             *)
(***************************************************************************)
ClosesOwn(fd) ==
  \/ fd \in native \ native'
  \/ \E o \in alive : /\ sock_[o] = fd
                     /\ meant[o] = table[fd]
                     /\ (o \notin alive' \/ sock_'[o] = BadFd)

OnlyOwnersClose ==
  [][\A fd \in Fds :
       table[fd] # 0 => \/ table'[fd] = table[fd]
                        \/ table'[fd] = 0 /\ ClosesOwn(fd)]_vars

(***************************************************************************)
(* The inductive invariant: besides the above, what the program holds      *)
(* itself is open, and no two descriptors lead to the same socket.         *)
(***************************************************************************)
NativeOpen == \A fd \in native : table[fd] # 0

OneNumber ==
  \A f, g \in Fds : table[f] # 0 /\ table[f] = table[g] => f = g

IInv ==
  /\ TypeOK
  /\ UniqueOwner
  /\ HoldsWhatWasMeant
  /\ NoLeak
  /\ NonBlockingAsAsked
  /\ NativeOpen
  /\ OneNumber

(***************************************************************************)
(* "Set socket cloexec flag to socket descriptor" (Socket.h:108), with     *)
(* true returned for success.                                              *)
(***************************************************************************)
CloexecIsSet ==
  \A fd \in Fds : table[fd] # 0 /\ table[fd] \in promised => fd \in cloexec
=============================================================================
