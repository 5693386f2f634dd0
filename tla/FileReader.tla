----------------------------- MODULE FileReader -----------------------------
(***************************************************************************)
(* utils::FileReader as its one client, pcap::Reader, uses it: a stream    *)
(* opened from a file, plain or behind a decompressor, read in blocks, with *)
(* the eof / fail / bad bits of the std::istream it wraps.                 *)
(*                                                                         *)
(* The operators are functions of a stream record, so that a specification *)
(* can hold as many streams as it has readers.  The unit of data is one    *)
(* 32-bit word.                                                            *)
(***************************************************************************)
EXTENDS Integers, Sequences

CONSTANTS
  Codecs,   (* decoders compiled in: netbox_PCAP_GZIP, netbox_PCAP_LZMA *)
  Word32    (* 2^32, the modulus of a word                              *)

ASSUME FileReaderAssumption ==
  /\ Codecs \subseteq {"gz", "xz"}
  /\ Word32 \in Nat \ {0}

Word == 0 .. Word32 - 1

(***************************************************************************)
(* What a path leads to.  "data" is what follows the 24-byte file header,  *)
(* decoded as far as the decoder can; "ending" is what the stream does     *)
(* when asked for more: "eof" for a plain file and for the gzip decoder,   *)
(* which reports end-of-file on damage as well; "throw" for an xz file that *)
(* is truncated or corrupt, whose decoder throws from underflow().         *)
(***************************************************************************)
Header ==
  [ complete : BOOLEAN,                               \* 24 bytes are there
    magic    : {"usec", "nsec", "swapped", "unknown"},
    thiszone : Int,
    snaplen  : Word,
    linktype : {"ethernet", "other"} ]

FileType ==
  [ exists : BOOLEAN,
    codec  : {"plain", "gz", "xz"},                   \* by file name suffix
    header : Header,
    data   : Seq(Word),
    ending : {"eof", "throw"} ]

StreamType ==
  [ data : Seq(Word), pos : Nat, ending : {"eof", "throw"},
    eof : BOOLEAN, fail : BOOLEAN, bad : BOOLEAN ]

Stream(data, ending) ==
  [ data |-> data, pos |-> 0, ending |-> ending,
    eof |-> FALSE, fail |-> FALSE, bad |-> FALSE ]

(* FileReader(): a default-constructed ifstream is not open, but is good.  *)
Unopened == Stream(<<>>, "eof")

(* The constructor throws when the suffix asks for a decoder that is not   *)
(* compiled in.                                                            *)
OpenThrows(f) == f.exists /\ f.codec \notin Codecs \cup {"plain"}

(* FileReader(filename), positioned behind the file header.                *)
Open(f) ==
  IF f.exists THEN Stream(f.data, f.ending)
              ELSE [Unopened EXCEPT !.fail = TRUE]

IsOk(s) == ~s.fail /\ ~s.bad              \* operator bool
IsGood(s) == IsOk(s) /\ ~s.eof            \* good()
IsEof(s) == s.eof                         \* eof()

(***************************************************************************)
(* read(buffer, n): the stream afterwards, the words that reached the      *)
(* buffer and the count returned (gcount).  A stream that is not good      *)
(* fails without reading; a short read sets eof and fail; an exception of  *)
(* the decoder is caught inside istream::read, which sets bad and reports  *)
(* zero bytes although a part of the block was already copied.             *)
(***************************************************************************)
Rest(s) == Len(s.data) - s.pos

ReadWithoutEof(s, n) ==
  IF n <= Rest(s) THEN
    [stream |-> [s EXCEPT !.pos = @ + n],
     words  |-> SubSeq(s.data, s.pos + 1, s.pos + n),
     count  |-> n]
  ELSE
    [stream |-> [s EXCEPT !.pos = Len(s.data), !.fail = TRUE],
     words  |-> SubSeq(s.data, s.pos + 1, Len(s.data)),
     count  |-> Rest(s)]

Read(s, n) ==
  IF ~IsGood(s) THEN
    [stream |-> [s EXCEPT !.fail = TRUE], words |-> <<>>, count |-> 0]
  ELSE IF n <= Rest(s) THEN
    [stream |-> [s EXCEPT !.pos = @ + n],
     words  |-> SubSeq(s.data, s.pos + 1, s.pos + n),
     count  |-> n]
  ELSE IF s.ending = "throw" THEN
    [stream |-> [s EXCEPT !.pos = Len(s.data), !.bad = TRUE],
     words  |-> SubSeq(s.data, s.pos + 1, Len(s.data)),
     count  |-> 0]
  ELSE
    [stream |-> [s EXCEPT !.pos = Len(s.data), !.eof = TRUE, !.fail = TRUE],
     words  |-> SubSeq(s.data, s.pos + 1, Len(s.data)),
     count  |-> Rest(s)]
=============================================================================
