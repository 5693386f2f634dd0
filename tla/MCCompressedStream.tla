------------------------- MODULE MCCompressedStream -------------------------
(* Compressed files for model checking: every short member or stream,      *)
(* whole, cut short or damaged, followed by the end of the file, by more   *)
(* of them or by garbage.                                                  *)
EXTENDS CompressedStream

Part(out) == [kind |-> "part", out |-> out]
End == [kind |-> "end", out |-> <<>>]
Bad == [kind |-> "bad", out |-> <<>>]

(* Bodies whose units yield nothing, one byte, or more than fits.          *)
Bodies ==
  { <<>>, <<Part(<<>>)>>, <<Part(<<>>), Part(<<1>>), Part(<<2, 3>>)>>,
    <<Part(<<>>), Part(<<>>), Part(<<>>), Part(<<1>>), Part(<<2, 3>>)>>,
    <<Part(<<1, 2>>), Part(<<3>>)>>, <<Part(<<1>>), Part(<<2, 3, 4, 5, 6>>)>>,
    <<Part(<<1, 2, 3>>), Part(<<>>), Part(<<>>), Part(<<4>>)>>,
    <<Part(<<>>), Part(<<1, 2>>), Part(<<>>), Part(<<3, 4, 5>>)>> }

Tails ==
  { <<>>, <<Bad>>, <<End>>, <<End, Bad>>, <<End, Part(<<>>), Part(<<7>>), End>>,
    <<End, End, Part(<<7>>)>> }

MCFiles == {body \o tail : body \in Bodies, tail \in Tails}
MCSizes == {0, 1, 3}
NoCodecs == {}
=============================================================================
