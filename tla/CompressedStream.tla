-------------------------- MODULE CompressedStream --------------------------
(***************************************************************************)
(* The stream of a FileReader whose file name ends in .gz or in .xz: the   *)
(* constructor puts one decoder or the other in front of the ifstream, and *)
(* every read goes to it.  Both have to be what the reader expects of a    *)
(* plain file.                                                             *)
(***************************************************************************)
EXTENDS DecodedStream

VARIABLES
  codec,                                      (* the end of the file name  *)
  error_, count,                              (* GZipStream                *)
  inputDone_, outputDone_, atEnd, stalled     (* LZMAStream                *)

GZip == INSTANCE GZipStream
LZMA == INSTANCE LZMAStream

zlibVars == <<error_, count>>
lzmaVars == <<inputDone_, outputDone_, atEnd, stalled>>
vars == <<codec, file, pos, input, pending, output, area, pc, ioVars, zlibVars, lzmaVars>>

TypeOK == codec \in {"gz", "xz"} /\ GZip!TypeOK /\ LZMA!TypeOK

Init == codec \in {"gz", "xz"} /\ GZip!Init /\ LZMA!Init

ReadCalled ==
  /\ UNCHANGED codec
  /\ \E n \in Sizes :
       \/ codec = "gz" /\ GZip!Idle(n) /\ UNCHANGED lzmaVars
       \/ codec = "xz" /\ LZMA!Idle(n) /\ UNCHANGED zlibVars

Step ==
  /\ UNCHANGED codec
  /\ \/ codec = "gz" /\ GZip!Step /\ UNCHANGED lzmaVars
     \/ codec = "xz" /\ LZMA!Step /\ UNCHANGED zlibVars

Next == ReadCalled \/ Step

Spec == Init /\ [][Next]_vars

(* A read that was called runs on: it is sequential code.                  *)
FairSpec == Spec /\ WF_vars(Step)
-----------------------------------------------------------------------------
(***************************************************************************)
(* No byte is lost, doubled or reordered on the way from the file to the   *)
(* reader, in every step of the refill and between the buffers.            *)
(***************************************************************************)
NothingLost == IF codec = "gz" THEN GZip!NothingLost ELSE LZMA!NothingLost

(***************************************************************************)
(* When the end of a gzip member is reported, the file stands right behind *)
(* it, however much of what follows had been buffered.                     *)
(***************************************************************************)
LeftBehindMember == codec = "gz" => GZip!LeftBehindMember

(* A read that was called returns, or throws.                              *)
ReadsReturn == pc # "idle" ~> pc = "idle"

(***************************************************************************)
(* Through either decoder the stream is the one FileReader is modelled     *)
(* with.                                                                   *)
(***************************************************************************)
Abstract == INSTANCE ByteStream WITH
  damaged <- IF codec = "gz" THEN GZip!Damaged ELSE LZMA!Damaged,
  stream  <- [ data   |-> IF codec = "gz" THEN GZip!Deliverable ELSE LZMA!Deliverable,
               pos    |-> Len(delivered),
               ending |-> IF codec = "xz" /\ LZMA!Damaged THEN "throw" ELSE "eof",
               eof    |-> flags.eof,
               fail   |-> flags.fail,
               bad    |-> flags.bad ]

ImplementsByteStream == Abstract!Spec

(***************************************************************************)
(* "Could open gzip or lzma encoded files" (FileReader.h:28), "provides    *)
(* the decompressed data" (GZipDecompressStream.h:118): of every member of *)
(* an undamaged file.                                                      *)
(***************************************************************************)
AllMembersDelivered ==
  /\ flags.eof
  /\ file # <<>> /\ Last(file).kind = "end"
  /\ \A k \in DOMAIN file : file[k].kind # "bad"
  => delivered = Decoded(file)
=============================================================================
