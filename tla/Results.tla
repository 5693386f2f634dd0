------------------------------- MODULE Results -------------------------------
(***************************************************************************)
(* What the socket calls return: netbox::ErrorCode and the results built   *)
(* on it.  errno is an argument: the number a failed call left behind.     *)
(***************************************************************************)
EXTENDS Integers

CONSTANT Word    (* bound: 2 to the width of size_t, larger than any buffer *)

ASSUME ResultsAssumption == Word \in Nat \ {0}

NoError == "0"
Errno == {NoError, "EAGAIN", "ECONNRESET", "EINVAL", "EMFILE"}

IsTryAgain(code) == code = "EAGAIN"

(* TransmitResult: what send() and recv() return, with errno after -1.     *)
TransmitResult(value, errno) ==
  [value |-> value, code |-> IF value = -1 THEN errno ELSE NoError]

SucceededNonZero(result) == result.value # 0

Succeeded(result) == result.value > 0
IsClosedOrFailed(result) == result.value <= 0
IsClosed(result) == result.value = 0
Bytes(result) == result.value % Word

(* OpResult: what setsockopt(), bind() and their like return, 0 or failure. *)
OpResultStale(value, errno) == [value |-> value, code |-> errno]

OpResult(value, errno) ==
  [value |-> value, code |-> IF value # 0 THEN errno ELSE NoError]

OpSucceeded(result) == result.value = 0

(***************************************************************************)
(* SocketResult: what accept() returns, a socket or Nobody, with errno if  *)
(* there is none.                                                          *)
(***************************************************************************)
Nobody == "nobody"

SocketResultNoCode(socket, errno) == [socket |-> socket, code |-> NoError]

SocketResult(socket, errno) ==
  [socket |-> socket, code |-> IF socket = Nobody THEN errno ELSE NoError]

HasSocket(result) == result.socket # Nobody
=============================================================================
