----------------------------- MODULE ByteStream -----------------------------
(***************************************************************************)
(* What a reader may expect of the stream inside its FileReader, however   *)
(* the bytes get there: Read of FileReader, over data that is fixed from   *)
(* the start.  Only a damaged file may turn out to hold less than could be *)
(* decoded of it.                                                          *)
(***************************************************************************)
EXTENDS FileReader

CONSTANT Sizes        (* numbers of bytes that are asked for *)

VARIABLES
  stream,     (* a stream as in FileReader                            *)
  damaged,    (* is the file behind it truncated or corrupt?          *)
  result      (* what the last read brought: the bytes, and the count *)

vars == <<stream, damaged, result>>

Init ==
  /\ stream = Stream(stream.data, stream.ending)
  /\ stream.ending = "throw" => damaged
  /\ result = [words |-> <<>>, count |-> 0]

Cut(kept) == [stream EXCEPT !.data = SubSeq(stream.data, 1, kept)]

Kept == IF damaged THEN stream.pos .. Len(stream.data) ELSE {Len(stream.data)}

ReadSome(n) ==
  \E kept \in Kept :
    LET read == Read(Cut(kept), n) IN
    /\ stream' = read.stream
    /\ result' = [words |-> read.words, count |-> read.count]
    /\ UNCHANGED damaged

Next == \E n \in Sizes : ReadSome(n)

Spec == Init /\ [][Next]_vars
=============================================================================
