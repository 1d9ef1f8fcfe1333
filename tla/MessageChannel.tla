--------------------------- MODULE MessageChannel ---------------------------
(***************************************************************************)
(* What one direction of a connection promises the tasks at its two ends,  *)
(* without bytes, frames, buffers or a handshake: the messages arrive      *)
(* whole, once and in the order in which they were sent, and the receiver  *)
(* is told of the end only when it has them all, unless the connection     *)
(* broke.  The queues of messages in the other modules rest on this.       *)
(***************************************************************************)
EXTENDS Naturals, Sequences, SequencesExt

VARIABLES
  sent,    \* the messages sent so far
  got,     \* the messages received so far
  closed,  \* nothing more is sent
  broken,  \* what was sent and not received may be lost
  ended    \* what the receiver was told: "none", "Disconnected"

channel == <<sent, got, closed, broken, ended>>

Init == sent = <<>> /\ got = <<>> /\ ~closed /\ ~broken /\ ended = "none"

\* The sender's task writes one message.
Send ==
  /\ ~closed
  /\ Len(sent') = Len(sent) + 1 /\ IsPrefix(sent, sent')
  /\ UNCHANGED <<got, closed, broken, ended>>

\* The receiver's task reads the next one.
Deliver ==
  /\ ended = "none" /\ Len(got) < Len(sent)
  /\ got' = Append(got, sent[Len(got) + 1])
  /\ UNCHANGED <<sent, closed, broken, ended>>

Close == ~closed /\ closed' /\ UNCHANGED <<sent, got, broken, ended>>

Break == ~broken /\ broken' /\ closed' /\ UNCHANGED <<sent, got, ended>>

\* The receiver is told that nothing more will come.
End ==
  /\ ended = "none" /\ closed /\ (broken \/ got = sent)
  /\ ended' = "Disconnected"
  /\ UNCHANGED <<sent, got, closed, broken>>

Next == Send \/ Deliver \/ Close \/ Break \/ End

Spec == Init /\ [][Next]_channel
=============================================================================
