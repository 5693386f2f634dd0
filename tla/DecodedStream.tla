---------------------------- MODULE DecodedStream ----------------------------
(***************************************************************************)
(* What the gzip and the xz stream have in common: a compressed file, the  *)
(* ifstream it is read from, and the istream in front of the decompressing *)
(* streambuf, whose read() takes from the streambuf's get area and calls   *)
(* underflow() whenever that is empty.                                     *)
(***************************************************************************)
EXTENDS FileReader, SequencesExt

CONSTANTS
  Files,      (* the compressed files                                      *)
  Sizes,      (* bound: numbers of bytes that are asked for                *)
  InSize,     (* BufferSize of the input buffer                            *)
  OutSize     (* the part of the output buffer the decoder may fill        *)

(***************************************************************************)
(* A compressed file is a sequence of units.  Consuming one yields the     *)
(* bytes "out"; an "end" unit ends a member (gzip) or a stream (xz), and a *)
(* "bad" one makes the decoder fail.                                       *)
(***************************************************************************)
Unit == [kind : {"part", "end", "bad"}, out : Seq(Word)]

(* An end is a trailer: the decoder reports it behind all of the output,   *)
(* and it holds none itself.                                               *)
ASSUME DecodedAssumption ==
  /\ Files \subseteq Seq(Unit)
  /\ \A units \in Files : \A k \in DOMAIN units :
       units[k].kind = "end" => units[k].out = <<>>
  /\ Sizes \subseteq Nat
  /\ InSize \in Nat \ {0}
  /\ OutSize \in Nat \ {0}

VARIABLES
  file,        (* the compressed file                                      *)
  pos,         (* where the ifstream stands in it                          *)
  input,       (* what the decoder has not taken of inputBuffer_           *)
  pending,     (* what the decoder has decoded and found no room for       *)
  output,      (* what the running underflow() has put into outputBuffer_  *)
  area,        (* the get area: gptr() to egptr()                          *)
  pc,          (* where the running read() is                              *)
  wanted,      (* the size the running read() was called with              *)
  got,         (* what it has copied                                       *)
  flags,       (* the istream's eof, fail and bad bits                     *)
  delivered,   (* history: everything that was copied by reads that ended  *)
  result       (* what the last read brought                               *)

ioVars == <<wanted, got, flags, delivered, result>>

Good == ~flags.eof /\ ~flags.fail /\ ~flags.bad

DecodedTypeOK ==
  /\ file \in Files
  /\ pos \in 0 .. Len(file)
  /\ input \in Seq(Unit) /\ Len(input) <= InSize
  /\ pending \in Seq(Word)
  /\ output \in Seq(Word) /\ Len(output) <= OutSize
  /\ area \in Seq(Word) /\ Len(area) <= OutSize
  /\ pc \in {"idle", "copy", "fill", "decode", "decoded"}
  /\ wanted \in Sizes \cup {0}
  /\ got \in Seq(Word) /\ Len(got) <= wanted
  /\ flags \in [eof : BOOLEAN, fail : BOOLEAN, bad : BOOLEAN]
  /\ delivered \in Seq(Word)
  /\ result.words \in Seq(Word) /\ result.count \in 0 .. Len(result.words)

DecodedInit ==
  /\ file \in Files
  /\ pos = 0
  /\ input = <<>>
  /\ pending = <<>>
  /\ output = <<>>
  /\ area = <<>>
  /\ pc = "idle"
  /\ wanted = 0
  /\ got = <<>>
  /\ flags = [eof |-> FALSE, fail |-> FALSE, bad |-> FALSE]
  /\ delivered = <<>>
  /\ result = [words |-> <<>>, count |-> 0]

-----------------------------------------------------------------------------
(* A read of InSize units from the ifstream.                               *)
Block == SubSeq(file, pos + 1, Min({pos + InSize, Len(file)}))

Decoded(units) == FlattenSeq([i \in DOMAIN units |-> units[i].out])

(***************************************************************************)
(* How many units a decoder takes of those it is given, with room for so   *)
(* many bytes: it goes on while it has room for what it decodes, and until *)
(* a unit stops it.  When the room is just used up it may stop or go on to *)
(* a unit that needs none, or that it then keeps pending.                  *)
(***************************************************************************)
Yield(units, k) == pending \o Decoded(SubSeq(units, 1, k))

Taken(units, room, stops) ==
  LET Stop(k) == \/ Len(Yield(units, k)) > room
                 \/ k = Len(units)
                 \/ k > 0 /\ units[k].kind \in stops
      last    == CHOOSE k \in 0 .. Len(units) :
                   Stop(k) /\ \A j \in 0 .. k - 1 : ~Stop(j)
  IN {last} \cup {k \in 0 .. last : Len(Yield(units, k)) = room}

-----------------------------------------------------------------------------
(* read(buffer, n) is called; a stream that is not good only fails.        *)
CallRead(n) ==
  /\ pc = "idle"
  /\ Good
  /\ wanted' = n
  /\ got' = <<>>
  /\ pc' = "copy"
  /\ UNCHANGED <<file, pos, input, pending, output, area, flags, delivered, result>>

CallReadFails(n) ==
  /\ pc = "idle"
  /\ ~Good
  /\ wanted' = n
  /\ flags' = [flags EXCEPT !.fail = TRUE]
  /\ result' = [words |-> <<>>, count |-> 0]
  /\ got' = <<>>
  /\ UNCHANGED <<file, pos, input, pending, output, area, pc, delivered>>

Copy ==
  /\ pc = "copy"
  /\ area # <<>>
  /\ Len(got) < wanted
  /\ LET m == Min({Len(area), wanted - Len(got)}) IN
     /\ got' = got \o SubSeq(area, 1, m)
     /\ area' = SubSeq(area, m + 1, Len(area))
  /\ UNCHANGED <<file, pos, input, pending, output, pc, wanted, flags, delivered, result>>

(* The end of a read, at its full size or short of it.                     *)
Ends(count, newFlags) ==
  /\ pc' = "idle"
  /\ flags' = newFlags
  /\ delivered' = delivered \o got
  /\ result' = [words |-> got, count |-> count]
  /\ got' = <<>>
  /\ UNCHANGED wanted

ReadReturns ==
  /\ pc = "copy"
  /\ Len(got) = wanted
  /\ Ends(wanted, flags)
  /\ UNCHANGED <<file, pos, input, pending, output, area>>

EofSeen == Ends(Len(got), [flags EXCEPT !.eof = TRUE, !.fail = TRUE])

(* An exception of underflow() is caught: nothing is counted.              *)
Thrown == Ends(0, [flags EXCEPT !.bad = TRUE])

NeedsMore == pc = "copy" /\ area = <<>> /\ Len(got) < wanted
=============================================================================
