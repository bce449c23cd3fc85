------------------------------- MODULE OutQueue -------------------------------
(***************************************************************************)
(* The output of one connection: siconn_printfv and siconn_flush           *)
(* (daemon/conn.c) over a queue of blocks (daemon/queue.c).                *)
(*                                                                         *)
(* A line is written at once when nothing waits, and what the write leaves *)
(* over is queued.  It is at most 512 bytes and a block holds 16384, so it *)
(* is in one block or in two; here a line is at most as long as a block.   *)
(* A byte is known by its line and its place in it.                        *)
(***************************************************************************)
EXTENDS Naturals, Sequences, SequencesExt, FiniteSets, FiniteSetsExt

CONSTANTS
  BlockSize,  \* sizeof(qe_buffer)
  IovNum,     \* blocks that one writev takes
  MaxLines    \* bound: lines printed

ASSUME OutQueueAssumption ==
  BlockSize \in Nat \ {0} /\ IovNum \in Nat \ {0} /\ MaxLines \in Nat

VARIABLES
  state,   \* "connecting", "up", "gone"
  blocks,  \* from q_head to q_tail: qe_buffer up to qe_addpos, and how much of it is gone
  size,    \* q_size
  pollout, \* POLLOUT in the events of the connection
  sent,    \* what the peer was sent
  lines,   \* the lengths of the lines printed
  marred   \* lines that were cut off for want of memory, or went over two blocks

queueVars == <<state, blocks, size, pollout, sent, lines, marred>>

Line(k, n) == [j \in 1 .. n |-> <<k, j>>]

Waiting(b) == SubSeq(b.buf, b.gone + 1, Len(b.buf))

(* What waits in the blocks of q, one after the other.                     *)
HeldIn(q) == FlattenSeq([k \in DOMAIN q |-> Waiting(q[k])])

Stream == HeldIn(blocks)

(* The bytes of the lines that were printed.                               *)
Printed(ls) == FlattenSeq([k \in DOMAIN ls |-> Line(k, ls[k])])

-----------------------------------------------------------------------------
Fresh == [buf |-> <<>>, gone |-> 0]

Put(q, s) == [q EXCEPT ![Len(q)].buf = @ \o s]

(* Variant: one byte more is taken to fit. *)
QueuedRoomy(q0, s, news) ==
  LET need == IF q0 = <<>> THEN 1 ELSE 0
      q == IF q0 = <<>> THEN <<Fresh>> ELSE q0
      room == BlockSize + 1 - Len(q[Len(q)].buf)
      over == IF Len(s) > room THEN Len(s) - room ELSE 0
  IN  IF news < need THEN [q |-> q0, n |-> 0, ok |-> FALSE, whole |-> FALSE]
      ELSE IF over = 0 THEN [q |-> Put(q, s), n |-> Len(s), ok |-> TRUE, whole |-> TRUE]
      ELSE IF news = need
      THEN [q |-> Put(q, SubSeq(s, 1, room)), n |-> room, ok |-> FALSE, whole |-> FALSE]
      ELSE [q |-> Put(Append(Put(q, SubSeq(s, 1, room)), Fresh), SubSeq(s, 1, over)),
            n |-> Len(s), ok |-> TRUE, whole |-> FALSE]

(* Variant: q_size is told of the first piece only. *)
QueuedFirst(q0, s, news) ==
  LET need == IF q0 = <<>> THEN 1 ELSE 0
      q == IF q0 = <<>> THEN <<Fresh>> ELSE q0
      room == BlockSize - Len(q[Len(q)].buf)
      over == IF Len(s) > room THEN Len(s) - room ELSE 0
  IN  IF news < need THEN [q |-> q0, n |-> 0, ok |-> FALSE, whole |-> FALSE]
      ELSE IF over = 0 THEN [q |-> Put(q, s), n |-> Len(s), ok |-> TRUE, whole |-> TRUE]
      ELSE IF news = need
      THEN [q |-> Put(q, SubSeq(s, 1, room)), n |-> room, ok |-> FALSE, whole |-> FALSE]
      ELSE [q |-> Put(Append(Put(q, SubSeq(s, 1, room)), Fresh), SubSeq(s, 1, over)),
            n |-> room, ok |-> TRUE, whole |-> FALSE]

(* siqueue_add, as far as memory goes: what is queued, whether it returns  *)
(* 0, and whether the line is in one piece.  What does not fit the last    *)
(* block goes into a new one, and buffer is at the line's first byte still. *)
Queued(q0, s, news) ==
  LET need == IF q0 = <<>> THEN 1 ELSE 0
      q == IF q0 = <<>> THEN <<Fresh>> ELSE q0
      room == BlockSize - Len(q[Len(q)].buf)
      over == IF Len(s) > room THEN Len(s) - room ELSE 0
  IN  IF news < need THEN [q |-> q0, n |-> 0, ok |-> FALSE, whole |-> FALSE]
      ELSE IF over = 0 THEN [q |-> Put(q, s), n |-> Len(s), ok |-> TRUE, whole |-> TRUE]
      ELSE IF news = need
      THEN [q |-> Put(q, SubSeq(s, 1, room)), n |-> room, ok |-> FALSE, whole |-> FALSE]
      ELSE [q |-> Put(Append(Put(q, SubSeq(s, 1, room)), Fresh), SubSeq(s, 1, over)),
            n |-> Len(s), ok |-> TRUE, whole |-> FALSE]

(* Variant: what is left of the block is freed with what is gone. *)
TakenAll(q, n) ==
  LET before == [k \in 0 .. Len(q) |-> Len(HeldIn(SubSeq(q, 1, k)))]
      k == Min({j \in DOMAIN q : n <= before[j]})
      rest == SubSeq(q, k + 1, Len(q))
  IN  IF rest = <<>> THEN <<Fresh>> ELSE rest

(* siqueue_del: blocks that are used up are freed, but for the last one,   *)
(* which starts again at its beginning.                                    *)
Taken(q, n) ==
  LET before == [k \in 0 .. Len(q) |-> Len(HeldIn(SubSeq(q, 1, k)))]
      k == Min({j \in DOMAIN q : n <= before[j]})
      b == [q[k] EXCEPT !.gone = @ + n - before[k - 1]]
      rest == SubSeq(q, k + 1, Len(q))
  IN  IF b.gone < Len(b.buf) THEN <<b>> \o rest
      ELSE IF rest = <<>> THEN <<Fresh>> ELSE rest

(* siqueue_get: the first IovNum blocks that hold anything, with those in  *)
(* between and after them that hold nothing.                               *)
Offered(q) ==
  LET full(k) == Cardinality({j \in 1 .. k : Waiting(q[j]) # <<>>})
      last == CHOOSE k \in 0 .. Len(q) :
                full(k) <= IovNum /\ (k = Len(q) \/ full(k + 1) > IovNum)
  IN  HeldIn(SubSeq(q, 1, last))

-----------------------------------------------------------------------------
QueueInit ==
  /\ state \in {"connecting", "up"} /\ blocks = <<>> /\ size = 0
  /\ pollout = (state = "connecting")
  /\ sent = <<>> /\ lines = <<>> /\ marred = {}

(* Variant: a line is written at once although others wait. *)
WritesAtOnceAlways == state # "connecting"

WritesAtOnce == size = 0 /\ state # "connecting"

(* siconn_printfv.  write() may take part of the line, or fail, which      *)
(* counts as nothing; memory may go for any of the blocks.                 *)
Send(n) ==
  /\ state # "gone" /\ Len(lines) < MaxLines
  /\ LET k == Len(lines) + 1
     IN  \E w \in IF WritesAtOnce THEN 0 .. n ELSE {0}, news \in 0 .. 2 :
           LET rest == SubSeq(Line(k, n), w + 1, n)
               r == Queued(blocks, rest, news)
           IN  /\ lines' = Append(lines, n)
               /\ sent' = sent \o SubSeq(Line(k, n), 1, w)
               /\ IF w = n THEN UNCHANGED <<blocks, size, pollout, marred>>
                  ELSE /\ blocks' = r.q /\ size' = size + r.n
                       /\ pollout' = (pollout \/ r.ok)
                       /\ marred' = IF r.whole THEN marred ELSE marred \cup {k}
  /\ UNCHANGED state

(* Variant: poll is not asked again once something was written. *)
FlushOnce ==
  /\ state # "gone" /\ pollout
  /\ state' = "up"
  /\ IF Offered(blocks) = <<>>
     THEN pollout' = FALSE /\ UNCHANGED <<blocks, size, sent>>
     ELSE \E n \in 1 .. Len(Offered(blocks)) :
            /\ sent' = sent \o SubSeq(Offered(blocks), 1, n)
            /\ blocks' = Taken(blocks, n) /\ size' = size - n
            /\ pollout' = FALSE
  /\ UNCHANGED <<lines, marred>>

(* POLLOUT: the connection is made, and siconn_flush writes what it can.   *)
(* poll() does not return POLLOUT for a connection that did not ask.       *)
Flush ==
  /\ state # "gone" /\ pollout
  /\ state' = "up"
  /\ IF Offered(blocks) = <<>>
     THEN pollout' = FALSE /\ UNCHANGED <<blocks, size, sent>>
     ELSE \E n \in 1 .. Len(Offered(blocks)) :
            /\ sent' = sent \o SubSeq(Offered(blocks), 1, n)
            /\ blocks' = Taken(blocks, n) /\ size' = size - n
            /\ pollout' = (size # n)
  /\ UNCHANGED <<lines, marred>>

(* siconn_del, for whatever reason.                                        *)
Close ==
  /\ state # "gone" /\ state' = "gone"
  /\ blocks' = <<>> /\ size' = 0 /\ pollout' = FALSE
  /\ UNCHANGED <<sent, lines, marred>>

QueueNext == (\E n \in 1 .. BlockSize : Send(n)) \/ Flush \/ Close

(* poll() reports a connection that has room again.                        *)
QueueSpec == QueueInit /\ [][QueueNext]_queueVars /\ WF_queueVars(Flush)

-----------------------------------------------------------------------------
Bytes == (1 .. MaxLines) \X (1 .. BlockSize)

QueueTypeOK ==
  /\ state \in {"connecting", "up", "gone"}
  /\ blocks \in Seq([buf : Seq(Bytes), gone : 0 .. BlockSize])
  /\ \A k \in DOMAIN blocks : Len(blocks[k].buf) <= BlockSize
                              /\ blocks[k].gone <= Len(blocks[k].buf)
  /\ size \in Nat /\ pollout \in BOOLEAN /\ sent \in Seq(Bytes)
  /\ lines \in Seq(1 .. BlockSize) /\ marred \subseteq 1 .. MaxLines

(* q_size is what waits; queue.c:77 asserts that never more is taken.  No  *)
(* block but the last is empty, or siqueue_get would offer nothing for it. *)
SizeIsWhatWaits ==
  /\ size = Len(Stream)
  /\ \A k \in 1 .. Len(blocks) - 1 : Waiting(blocks[k]) # <<>>

(* What the peer was sent, and what waits behind it, is the lines in the   *)
(* order they were printed, whole and once, until a line goes over two     *)
(* blocks or memory runs out.                                              *)
LinesInOrder ==
  (marred = {} /\ state # "gone") =>
    sent \o Stream = Printed(lines)

(* The queue's blocks, its size and what has left it agree with the lines  *)
(* that were printed (siqueue_add, siqueue_del, siconn_printfv).           *)
QueueSound == QueueTypeOK /\ SizeIsWhatWaits /\ LinesInOrder

(* Bytes leave the queue as they came, whatever block they are in, and no  *)
(* write overtakes those that wait.                                        *)
Queue == INSTANCE ByteQueue WITH waits <- Stream, closed <- state = "gone"

ImplementsByteQueue == Queue!Spec

(* Everything that is queued is sent in the end, or the connection is      *)
(* closed: whatever number of bytes the peer has been sent or waits in the *)
(* queue, the peer has been sent as many some time, lines over two blocks  *)
(* and lines cut off for want of memory included, and while other lines go *)
(* on being printed.                                                       *)
AllIsSent ==
  \A n \in 1 .. MaxLines * BlockSize :
    (Len(sent) + size >= n) ~> (Len(sent) >= n \/ state = "gone")
=============================================================================
