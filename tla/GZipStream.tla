----------------------------- MODULE GZipStream -----------------------------
(***************************************************************************)
(* GZipDecompressStream, one iteration of its loops per step, over zlib's  *)
(* inflate().  error_ is also the state inflate() is in: after an end or   *)
(* an error it returns the same again and takes nothing.                   *)
(***************************************************************************)
EXTENDS DecodedStream

VARIABLES
  error_,
  count      (* of unzipFromStream: what there was to decode *)

zlibVars == <<error_, count>>
vars == <<file, pos, input, pending, output, area, pc, ioVars, zlibVars>>

TypeOK ==
  /\ DecodedTypeOK
  /\ error_ \in {"Z_OK", "Z_STREAM_END", "Z_DATA_ERROR"}
  /\ count \in 0 .. InSize

Init == DecodedInit /\ error_ = "Z_OK" /\ count = 0

(* underflow() with an empty get area calls unzipFromStream().             *)
Underflow ==
  /\ NeedsMore
  /\ output' = <<>>
  /\ count' = Len(input)
  /\ pc' = "decode"
  /\ UNCHANGED <<file, pos, input, pending, area, ioVars, error_>>

FillInputBufferAlways == Block

FillInputBuffer == IF input = <<>> THEN Block ELSE input

After(unit) ==
  IF unit.kind = "end" THEN "Z_STREAM_END"
  ELSE IF unit.kind = "bad" THEN "Z_DATA_ERROR" ELSE "Z_OK"

InflateFromStart(available) ==       (* next_out set back in every iteration *)
  \E k \in Taken(available, OutSize, {"end", "bad"}) :
    LET yield == Yield(available, k) IN
    /\ input' = SubSeq(available, k + 1, Len(available))
    /\ output' = output \o SubSeq(yield, 1, Min({OutSize, Len(yield)}))
    /\ pending' = SubSeq(yield, OutSize + 1, Len(yield))
    /\ error_' = IF k = 0 THEN "Z_OK" ELSE After(available[k])

Inflate(available) ==
  IF error_ # "Z_OK" THEN
    /\ input' = available
    /\ UNCHANGED <<pending, output, error_>>
  ELSE
    LET room == OutSize - Len(output) IN
    \E k \in Taken(available, room, {"end", "bad"}) :
      LET yield == Yield(available, k) IN
      /\ input' = SubSeq(available, k + 1, Len(available))
      /\ output' = output \o SubSeq(yield, 1, Min({room, Len(yield)}))
      /\ pending' = SubSeq(yield, room + 1, Len(yield))
      /\ error_' = IF k = 0 THEN "Z_OK" ELSE After(available[k])

(* The condition of the do-while loop.                                     *)
Again == error_' = "Z_OK" /\ Len(output') < OutSize /\ count' # 0

Iterate ==
  /\ pc = "decode"
  /\ LET available == FillInputBuffer IN
     /\ pos' = IF input = <<>> THEN pos + Len(available) ELSE pos
     /\ count' = IF input = <<>> THEN Len(available) ELSE count
     /\ IF available = <<>> THEN UNCHANGED <<input, pending, output, error_>>
                            ELSE Inflate(available)
  /\ pc' = IF Again THEN "decode" ELSE "decoded"
  /\ UNCHANGED <<file, area, ioVars>>

(* Behind the loop: what is left of the input when the member has ended is *)
(* given back to the ifstream.                                             *)
GiveBackNothing ==
  /\ input' = IF error_ = "Z_STREAM_END" THEN <<>> ELSE input
  /\ UNCHANGED pos

GiveBack ==
  IF error_ = "Z_STREAM_END" THEN
    /\ input' = <<>>
    /\ pos' = pos - Len(input)
  ELSE UNCHANGED <<input, pos>>

UnderflowReturns ==
  /\ pc = "decoded"
  /\ GiveBack
  /\ output' = <<>>
  /\ IF output = <<>> THEN EofSeen /\ UNCHANGED area
     ELSE /\ area' = output
          /\ pc' = "copy"
          /\ UNCHANGED ioVars
  /\ UNCHANGED <<file, pending, error_, count>>

Idle(n) == (CallRead(n) \/ CallReadFails(n)) /\ UNCHANGED zlibVars

Step ==
  \/ (Copy \/ ReadReturns) /\ UNCHANGED zlibVars
  \/ Underflow
  \/ Iterate
  \/ UnderflowReturns

Next == (\E n \in Sizes : Idle(n)) \/ Step

Spec == Init /\ [][Next]_vars

-----------------------------------------------------------------------------
(* The units of the first member, as far as it is there.                   *)
FirstMember(units) ==
  LET ends == {k \in DOMAIN units : units[k].kind # "part"} IN
  IF ends = {} THEN units
  ELSE SubSeq(units, 1, CHOOSE k \in ends : \A j \in ends : k <= j)

Complete(units) == units # <<>> /\ Last(FirstMember(units)).kind = "end"

(***************************************************************************)
(* No byte is lost, doubled or reordered on the way: what was delivered,   *)
(* what the running read() has, the get area, the output buffer, what      *)
(* inflate() holds, the input buffer and the rest of the file are together *)
(* the first member, in this order, in every step of the refill.           *)
(***************************************************************************)
Upcoming ==
  IF error_ = "Z_OK"
  THEN Decoded(FirstMember(input \o SubSeq(file, pos + 1, Len(file))))
  ELSE <<>>

NothingLost ==
  delivered \o got \o area \o output \o pending \o Upcoming
    = Decoded(FirstMember(file))

(***************************************************************************)
(* When the end is reported, the underlying stream stands right behind the *)
(* gzip member, however much of what follows had been buffered.            *)
(***************************************************************************)
LeftBehindMember ==
  flags.eof /\ Complete(file) => pos = Len(FirstMember(file))

(***************************************************************************)
(* What this decoder has to deliver is the first member; the end behind a  *)
(* member that was cut short or is damaged may come before all of it.      *)
(***************************************************************************)
Deliverable == IF flags.eof THEN delivered ELSE Decoded(FirstMember(file))

Damaged == ~Complete(file)
=============================================================================
