-------------------------- MODULE MCPcapReaderLoop --------------------------
(* Files of every content up to MaxLength words of 0 .. 2, valid or not,   *)
(* and files with one frame behind another, of up to five words.           *)
EXTENDS PcapReaderLoop

MaxLength == 7

Datas == UNION {[1 .. n -> 0 .. 2] : n \in 0 .. MaxLength}

File(snaplen, data, ending) ==
  [ exists |-> TRUE, codec |-> "xz",
    header |-> [ complete |-> TRUE, magic |-> "nsec", thiszone |-> 0,
                 snaplen |-> snaplen, linktype |-> "ethernet" ],
    data |-> data, ending |-> ending ]

Record(frame) == <<0, 0, Len(frame)>> \o frame
Frames == UNION {[1 .. n -> 0 .. 3] : n \in 0 .. 5}
Earlier == {<<1, 1, 2, 2>>, <<0, 3, 1, 2, 0>>}

Framed == {File(5, Record(frame) \o Record(next), "eof") : frame \in Earlier, next \in Frames}

MCContents ==
  Framed \cup
  {File(snaplen, data, "eof") : snaplen \in 0 .. 1, data \in Datas}
  \cup {[File(1, <<0, usec, 0>>, "eof") EXCEPT !.header.magic = "usec"] : usec \in {1, 5}}
  \cup {[File(1, <<0, 0, 1, 2>>, "eof") EXCEPT !.header.complete = FALSE]}

XzOnly == {"xz"}
=============================================================================
