----------------------------- MODULE LZMAStream -----------------------------
(***************************************************************************)
(* LZMADecompressStream, one iteration of its loop per step, over liblzma's *)
(* lzma_code() with LZMA_CONCATENATED: the streams of a file follow one    *)
(* another, and only LZMA_FINISH tells the decoder that none follows.      *)
(***************************************************************************)
EXTENDS DecodedStream

VARIABLES
  inputDone_,
  outputDone_,
  atEnd,       (* of lzma_code(): has it just ended a stream?              *)
  stalled      (* of lzma_code(): did the last call make no progress?      *)

lzmaVars == <<inputDone_, outputDone_, atEnd, stalled>>
vars == <<file, pos, input, pending, output, area, pc, ioVars, lzmaVars>>

TypeOK ==
  /\ DecodedTypeOK
  /\ {inputDone_, outputDone_, atEnd, stalled} \subseteq BOOLEAN

Init ==
  /\ DecodedInit
  /\ inputDone_ = FALSE
  /\ outputDone_ = FALSE
  /\ atEnd = FALSE
  /\ stalled = FALSE

(* underflow() with an empty get area: the end, or the loop is entered.    *)
Underflow ==
  /\ NeedsMore
  /\ ~outputDone_
  /\ pc' = "fill"
  /\ UNCHANGED <<file, pos, input, pending, output, area, ioVars, lzmaVars>>

UnderflowAtEnd ==
  /\ NeedsMore
  /\ outputDone_
  /\ EofSeen
  /\ UNCHANGED <<file, pos, input, pending, output, area, lzmaVars>>

(***************************************************************************)
(* The file is read when the input is used up and its end not yet seen: a  *)
(* short read sets the ifstream's eof, which selects LZMA_FINISH.          *)
(***************************************************************************)
NeverDone == FALSE

ShortBlock == Len(Block) < InSize

Fill ==
  /\ pc = "fill"
  /\ input = <<>> /\ ~inputDone_
  /\ input' = Block
  /\ pos' = pos + Len(Block)
  /\ inputDone_' = ShortBlock
  /\ pc' = "decode"
  /\ UNCHANGED <<file, pending, output, area, ioVars, outputDone_, atEnd, stalled>>

NoFill ==
  /\ pc = "fill"
  /\ input # <<>> \/ inputDone_
  /\ pc' = "decode"
  /\ UNCHANGED <<file, pos, input, pending, output, area, ioVars, lzmaVars>>

(***************************************************************************)
(* lzma_code(), whose k-th outcome takes k units.  It returns              *)
(* LZMA_STREAM_END if it is to finish and the last stream is over, fails   *)
(* on a bad unit, and on its second call with nothing to do.               *)
(***************************************************************************)
Ended(k) == IF k = 0 THEN atEnd ELSE input[k].kind = "end"

Idles(k) == k = 0 /\ pending = <<>>

StreamEnd(k) ==
  inputDone_ /\ k = Len(input) /\ Ended(k) /\ Len(Yield(input, k)) <= OutSize

Fails(k) ==
  \/ k > 0 /\ input[k].kind = "bad"
  \/ Idles(k) /\ ~StreamEnd(k) /\ stalled

(* What it yields is the new get area; the loop ends with the first bytes. *)
Code(k) ==
  LET yield == Yield(input, k) IN
  /\ area' = SubSeq(yield, 1, Min({OutSize, Len(yield)}))
  /\ pending' = SubSeq(yield, OutSize + 1, Len(yield))
  /\ input' = SubSeq(input, k + 1, Len(input))
  /\ atEnd' = Ended(k)
  /\ stalled' = Idles(k)

NowDoneNever(k) == outputDone_

NowDone(k) == outputDone_ \/ StreamEnd(k)

Decode ==
  /\ pc = "decode"
  /\ \E k \in Taken(input, OutSize, {"bad"}) :
       /\ ~Fails(k)
       /\ Code(k)
       /\ outputDone_' = NowDone(k)
       /\ IF area' # <<>> THEN pc' = "copy" /\ UNCHANGED ioVars
          ELSE IF outputDone_' THEN EofSeen
          ELSE pc' = "fill" /\ UNCHANGED ioVars
  /\ UNCHANGED <<file, pos, output, inputDone_>>

(* The exception; bytes that came with the failure are not used.           *)
DecodeThrows ==
  /\ pc = "decode"
  /\ \E k \in Taken(input, OutSize, {"bad"}) : Fails(k)
  /\ Thrown
  /\ UNCHANGED <<file, pos, input, pending, output, area, lzmaVars>>

Idle(n) == (CallRead(n) \/ CallReadFails(n)) /\ UNCHANGED lzmaVars

Step ==
  \/ (Copy \/ ReadReturns) /\ UNCHANGED lzmaVars
  \/ Underflow
  \/ UnderflowAtEnd
  \/ Fill
  \/ NoFill
  \/ Decode
  \/ DecodeThrows

Next == (\E n \in Sizes : Idle(n)) \/ Step

Spec == Init /\ [][Next]_vars

-----------------------------------------------------------------------------
(* What can be decoded: everything up to the first damage.                 *)
Decodable(units) ==
  LET bad == {k \in DOMAIN units : units[k].kind = "bad"} IN
  Decoded(IF bad = {} THEN units
          ELSE SubSeq(units, 1, CHOOSE k \in bad : \A j \in bad : k <= j))

Damaged ==
  \/ file = <<>>
  \/ Last(file).kind # "end"
  \/ \E k \in DOMAIN file : file[k].kind = "bad"

(***************************************************************************)
(* No byte is lost, doubled or reordered on the way from the file to the   *)
(* reader, in every step of the refill and from one stream to the next.    *)
(***************************************************************************)
NothingLost ==
  delivered \o got \o area \o pending
    \o Decodable(input \o SubSeq(file, pos + 1, Len(file)))
    = Decodable(file)

(***************************************************************************)
(* What this decoder has to deliver are the bytes of all streams; after an *)
(* exception, which a damaged file throws, it is what came before.         *)
(***************************************************************************)
Deliverable == IF flags.bad THEN delivered ELSE Decodable(file)
=============================================================================
