----------------------------- MODULE ByteChannel -----------------------------
(***************************************************************************)
(* What the receiver of a stream promises: what it has read is always the  *)
(* beginning of what was written, in whole records.  A new connection      *)
(* begins with nothing written and nothing read.                           *)
(***************************************************************************)
EXTENDS Integers, Sequences

CONSTANTS Byte, RecordSize

VARIABLES written, read

Init ==
  /\ written = <<>>
  /\ read = <<>>

Write ==
  /\ \E byte \in Byte : written' = Append(written, byte)
  /\ UNCHANGED read

ReadRecord ==
  /\ Len(read) + RecordSize <= Len(written)
  /\ read' = SubSeq(written, 1, Len(read) + RecordSize)
  /\ UNCHANGED written

Restart ==
  /\ written' = <<>>
  /\ read' = <<>>

Next == Write \/ ReadRecord \/ Restart

Spec == Init /\ [][Next]_<<written, read>>
=============================================================================
