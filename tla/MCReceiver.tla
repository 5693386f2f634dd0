----------------------------- MODULE MCReceiver -----------------------------
(* Records of two bytes in storage for three: a record may lie at either   *)
(* end, recv() may return a part of one, one and a half, or fill the       *)
(* storage.  Seven bytes make room for several connections.                 *)
EXTENDS Receiver
=============================================================================
