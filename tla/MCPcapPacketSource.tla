------------------------- MODULE MCPcapPacketSource -------------------------
(***************************************************************************)
(* Capture files for model checking.  The scale is small: a second is four *)
(* nanoseconds, a microsecond two, a word less than eight, so that a       *)
(* microsecond count of 4 or more wraps.                                   *)
(***************************************************************************)
EXTENDS PcapPacketSource

HeaderOf(magic, snaplen) ==
  [ complete |-> TRUE, magic |-> magic, thiszone |-> 0, snaplen |-> snaplen,
    linktype |-> "ethernet" ]

File(magic, data) ==
  [ exists |-> TRUE, codec |-> "plain", header |-> HeaderOf(magic, 2),
    data |-> data, ending |-> "eof" ]

(* Nanosecond files: time stamps 4, 5, 5 and 5, 6; two records out of      *)
(* order, 6 before 5.                                                      *)
Busy   == File("nsec", <<1, 0, 1, 7,  1, 1, 2, 6, 5,  1, 1, 0>>)
Quiet  == File("nsec", <<1, 1, 1, 3,  1, 2, 1, 2>>)
Jumbled == File("nsec", <<1, 2, 1, 4,  1, 1, 2, 3, 1>>)

(* Microsecond files: 4 and 6; a count that wraps, 5 * 2 % 8 = 2, and 6.   *)
Micro  == File("usec", <<1, 0, 1, 5,  1, 1, 1, 6>>)
Wraps  == File("usec", <<0, 5, 0,  1, 1, 1, 3>>)

(* Files whose second record cannot be read: too long for the buffer,      *)
(* payload cut short, header cut short.                                    *)
Overlong == File("nsec", <<1, 0, 1, 2,  1, 1, 3, 1, 1, 1,  1, 2, 0>>)
ShortPayload == File("nsec", <<1, 1, 1, 2,  1, 2, 2, 1>>)
ShortHeader == File("nsec", <<1, 0, 2, 2, 3,  1, 2>>)

Empty == File("nsec", <<>>)

(* Files that are rejected, or in which no packet has a payload.           *)
Missing == [Busy EXCEPT !.exists = FALSE]
Stub == [Empty EXCEPT !.header.complete = FALSE]
Swapped == [Busy EXCEPT !.header.magic = "swapped"]
Unknown == [Busy EXCEPT !.header.magic = "unknown"]
LongSnap == [Busy EXCEPT !.header.snaplen = 4]
Wireless == [Busy EXCEPT !.header.linktype = "other"]
NoPayload == [Busy EXCEPT !.header.snaplen = 0]

(* Compressed files: a damaged xz file, and a gz file with no decoder.     *)
Damaged == [ShortPayload EXCEPT !.codec = "xz", !.ending = "throw"]
Unsupported == [Busy EXCEPT !.codec = "gz"]

Valid == {Busy, Quiet, Jumbled, Micro, Wraps}
Broken == {Overlong, ShortPayload, ShortHeader, Damaged}
Rejected ==
  {Empty, Missing, Stub, Swapped, Unknown, LongSnap, Wireless, NoPayload, Unsupported}

AllContents == Valid \cup Broken \cup Rejected

(* For merging three: all that are rejected, and enough of the others.     *)
SomeContents ==
  {Busy, Jumbled, Wraps, Overlong, ShortHeader, Damaged} \cup Rejected

XzOnly == {"xz"}
=============================================================================
