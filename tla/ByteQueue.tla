------------------------------ MODULE ByteQueue ------------------------------
(* What the output of a connection is for (daemon/queue.c, daemon/conn.c):  *)
(* the peer is sent bytes in the order they were given out, each of them    *)
(* once, and a byte never before one that waits.  What waits is lost only   *)
(* when the connection is closed.                                           *)
EXTENDS Naturals, Sequences, SequencesExt

CONSTANT Bytes

VARIABLES waits, sent, closed

vars == <<waits, sent, closed>>

Init == waits = <<>> /\ sent = <<>> /\ closed = FALSE

Give ==
  /\ waits' \in Seq(Bytes) /\ IsPrefix(waits, waits')
  /\ sent' \in Seq(Bytes) /\ IsPrefix(sent, sent') /\ (sent' # sent => waits = <<>>)

Take == \E n \in 1 .. Len(waits) :
  /\ sent' = sent \o SubSeq(waits, 1, n)
  /\ waits' = SubSeq(waits, n + 1, Len(waits))

Close == closed' = TRUE /\ waits' = <<>> /\ sent' = sent

Next == ~ closed /\ (((Give \/ Take) /\ UNCHANGED closed) \/ Close)

Spec == Init /\ [][Next]_vars
=============================================================================
