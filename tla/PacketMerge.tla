---------------------------- MODULE PacketMerge -----------------------------
(***************************************************************************)
(* What a packet source promises, with no readers, buffers or queue: a     *)
(* merge of the records of files that are added over time.                 *)
(***************************************************************************)
EXTENDS PcapReader

CONSTANT Contents      (* the files there are *)

VARIABLES
  files,     (* the files added                       *)
  pos,       (* where the next record of each starts  *)
  emitted,   (* the packets handed out, as file, key  *)
  ended      (* was the user told that nothing is left? *)

vars == <<files, pos, emitted, ended>>

HasMore(i) == HasRecord(files[i], pos[i])

Init ==
  /\ files = <<>>
  /\ pos = <<>>
  /\ emitted = <<>>
  /\ ended = TRUE

(* A file with nothing to read does not restart a merge that has ended.    *)
Add(f) ==
  /\ files' = Append(files, f)
  /\ pos' = Append(pos, 0)
  /\ ended' = (ended /\ ~HasRecord(f, 0))
  /\ UNCHANGED emitted

(* An earliest record goes out; between equals any may be chosen.          *)
Emit(i) ==
  /\ HasMore(i)
  /\ \A j \in DOMAIN files :
       HasMore(j) => TimeOf(files[i], pos[i]) <= TimeOf(files[j], pos[j])
  /\ pos' = [pos EXCEPT ![i] = NextRecord(files[i], @)]
  /\ emitted' = Append(emitted, [file |-> i, key |-> TimeOf(files[i], pos[i])])
  /\ ended' = FALSE
  /\ UNCHANGED files

End ==
  /\ \A i \in DOMAIN files : ~HasMore(i)
  /\ ended' = TRUE
  /\ UNCHANGED <<files, pos, emitted>>

Next ==
  \/ \E f \in Contents : Add(f)
  \/ \E i \in DOMAIN files : Emit(i)
  \/ End

Spec == Init /\ [][Next]_vars
=============================================================================
