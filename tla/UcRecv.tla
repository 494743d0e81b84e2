------------------------------- MODULE UcRecv -------------------------------
(***************************************************************************)
(* The receive side of the control-message framing, src/nlusctl/recv_msg.c *)
(* uc_recvmsg() with shift_buf() and take_complete_msg(): a stream socket  *)
(* read into a fixed buffer, cut into length-prefixed messages.  A caller  *)
(* calls uc_recvmsg() over and over, blocking or not, while the peer       *)
(* writes a stream of messages in pieces of any size and closes it.        *)
(*                                                                         *)
(* The buffer ur->buf .. ur->end is a sequence of BufSize cells, offsets   *)
(* 0-based as in the code.  A byte of the stream is a cell [m, off]: byte  *)
(* off of message m, which is all the data the framing can tell apart.    *)
(* Ancillary data (the ucbuf uc) is not modelled.                         *)
(***************************************************************************)
EXTENDS Integers, SequencesExt

CONSTANTS
  Streams,      \* the sequences of message lengths a peer may write
  BufSize,      \* ur->end - ur->buf
  HdrSize       \* sizeof(struct ucmsg)

ASSUME \A s \in Streams : \A i \in DOMAIN s : s[i] >= HdrSize

VARIABLES
  lens,         \* the messages the peer writes, by length
  sent,         \* stream bytes the peer has written
  closed,       \* the peer has closed its end
  taken,        \* stream bytes recvmsg has handed over
  ubuf,         \* the cells of ur->buf
  mptr, rptr,   \* ur->mptr - ur->buf, ur->rptr - ur->buf
  umsg,         \* ur->msg - ur->buf, or -1 for NULL
  dontwait,     \* MSG_DONTWAIT is in flags
  total,        \* bytes read in this call
  upc,          \* "idle" between calls, "loop" in the while loop, "done"
  uret,         \* what the last call returned
  got           \* the messages the caller took, as their cells

uvars == <<lens, sent, closed, taken, ubuf, mptr, rptr, umsg, dontwait,
           total, upc, uret, got>>

None == [m |-> 0, off |-> 0]            \* a cell never written
EBADF == 9
ENOBUFS == 105
EBADMSG == 74
EAGAIN == 11

\* The bytes of message i; the stream offset where message i ends; the
\* k-th byte of the stream.
MsgCells(i) == [k \in 1 .. lens[i] |-> [m |-> i, off |-> k - 1]]
EndOf(i) == SumFunctionOnSet(lens, 1 .. i)
StreamLen == EndOf(Len(lens))
StreamAt(k) ==
  LET i == CHOOSE i \in DOMAIN lens : EndOf(i - 1) < k /\ k <= EndOf(i)
  IN [m |-> i, off |-> k - 1 - EndOf(i - 1)]

\* uc_msg(buf, len), whose body is not in the repository, from spec 4.6
\* (len counts the whole message, header included): the cells b[a..e)
\* hold a message when they cover the header and the msg->len it gives.
\* A header read from the middle of a message holds payload, here taken
\* as a length below the header's size.
LenField(c) == IF c.off = 0 /\ c.m \in DOMAIN lens THEN lens[c.m] ELSE 0
uc_msg(b, a, e) ==
  e - a >= HdrSize /\ LenField(b[a + 1]) >= HdrSize
                   /\ LenField(b[a + 1]) <= e - a

\* (ur->msg set, but mptr left at the message just taken)
take_complete_msg_noadvance(b) ==
  LET len == LenField(b[mptr + 1]) IN
  /\ umsg' = mptr
  /\ UNCHANGED mptr
  /\ got' = Append(got, SubSeq(b, mptr + 1, mptr + len))

\* take_complete_msg() as it succeeds on the buffer b it sees: ur->msg =
\* mptr and mptr += msg->len; the caller takes the message at ur->msg.
take_complete_msg(b) ==
  LET len == LenField(b[mptr + 1]) IN
  /\ umsg' = mptr
  /\ mptr' = mptr + len
  /\ got' = Append(got, SubSeq(b, mptr + 1, mptr + len))

\* (end of stream reported as -EBADF whatever is left in the buffer)
RecvEof_badf ==
  /\ upc = "loop" /\ rptr < BufSize /\ taken = sent /\ closed
  /\ uret' = -EBADF
  /\ upc' = "done"
  /\ UNCHANGED <<lens, sent, closed, taken, ubuf, mptr, rptr, umsg, dontwait,
                 total, got>>

\* (the data moved, but mptr not moved back with it)
shift_buf_keepmptr ==
  /\ umsg' = -1
  /\ IF mptr = 0 THEN UNCHANGED <<ubuf, mptr, rptr>>
     ELSE /\ ubuf' = [i \in 1 .. BufSize |->
                        IF i <= rptr - mptr THEN ubuf[mptr + i] ELSE ubuf[i]]
          /\ rptr' = rptr - mptr
          /\ UNCHANGED mptr

\* shift_buf(): ur->msg = NULL, and the partial message moves to the
\* start of the buffer (memmove), mptr and rptr with it.
shift_buf ==
  /\ umsg' = -1
  /\ IF mptr = 0 THEN UNCHANGED <<ubuf, mptr, rptr>>
     ELSE /\ ubuf' = [i \in 1 .. BufSize |->
                        IF i <= rptr - mptr THEN ubuf[mptr + i] ELSE ubuf[i]]
          /\ mptr' = 0
          /\ rptr' = rptr - mptr

\* A call, up to the loop: a message already whole in the buffer is
\* returned at once (0); otherwise the buffer is shifted.
Call(block) ==
  /\ upc = "idle"
  /\ total' = 0
  /\ dontwait' = ~block
  /\ IF uc_msg(ubuf, mptr, rptr)
     THEN /\ take_complete_msg(ubuf) /\ uret' = 0 /\ upc' = "idle"
          /\ UNCHANGED <<ubuf, rptr>>
     ELSE /\ shift_buf /\ upc' = "loop" /\ UNCHANGED <<uret, got>>
  /\ UNCHANGED <<lens, sent, closed, taken>>

\* left = ur->end - ur->rptr is 0: return -ENOBUFS.
NoBufs ==
  /\ upc = "loop" /\ rptr >= BufSize
  /\ uret' = -ENOBUFS /\ upc' = "done"
  /\ UNCHANGED <<lens, sent, closed, taken, ubuf, mptr, rptr, umsg, dontwait,
                 total, got>>

\* recvmsg() hands over what the peer has written, up to left bytes;
\* rptr and total grow, and a whole message ends the call (total), or the
\* loop goes on with flags = 0.
Recv ==
  /\ upc = "loop" /\ rptr < BufSize /\ taken < sent
  /\ LET rd == IF sent - taken < BufSize - rptr THEN sent - taken
               ELSE BufSize - rptr
     IN /\ ubuf' = [i \in 1 .. BufSize |->
                      IF i > rptr /\ i <= rptr + rd THEN StreamAt(taken + i - rptr)
                      ELSE ubuf[i]]
        /\ rptr' = rptr + rd
        /\ taken' = taken + rd
        /\ total' = total + rd
        /\ IF uc_msg(ubuf', mptr, rptr + rd)
           THEN take_complete_msg(ubuf') /\ uret' = total + rd /\ upc' = "idle"
                /\ UNCHANGED dontwait
           ELSE dontwait' = FALSE /\ UNCHANGED <<umsg, mptr, got, uret, upc>>
  /\ UNCHANGED <<lens, sent, closed>>

\* Nothing to read with MSG_DONTWAIT: recvmsg fails, return -EAGAIN.
RecvAgain ==
  /\ upc = "loop" /\ rptr < BufSize /\ taken = sent /\ ~closed /\ dontwait
  /\ uret' = -EAGAIN /\ upc' = "idle"
  /\ UNCHANGED <<lens, sent, closed, taken, ubuf, mptr, rptr, umsg, dontwait,
                 total, got>>

\* recvmsg() returns 0 at end of stream: -EBADMSG with a partial message
\* left, -EBADF without.
RecvEof ==
  /\ upc = "loop" /\ rptr < BufSize /\ taken = sent /\ closed
  /\ uret' = IF mptr < rptr THEN -EBADMSG ELSE -EBADF
  /\ upc' = "done"
  /\ UNCHANGED <<lens, sent, closed, taken, ubuf, mptr, rptr, umsg, dontwait,
                 total, got>>

\* A caller keeps calling after a message or -EAGAIN, and gives up on any
\* other error (the "done" state above).

\* The peer writes the next piece of the stream, or closes.
Write ==
  /\ ~closed /\ sent < StreamLen
  /\ \E n \in sent + 1 .. StreamLen : sent' = n
  /\ UNCHANGED <<lens, closed, taken, ubuf, mptr, rptr, umsg, dontwait,
                 total, upc, uret, got>>

Close ==
  /\ ~closed /\ closed' = TRUE
  /\ UNCHANGED <<lens, sent, taken, ubuf, mptr, rptr, umsg, dontwait,
                 total, upc, uret, got>>

Init ==
  /\ lens \in Streams
  /\ sent = 0 /\ closed = FALSE /\ taken = 0
  /\ ubuf = [i \in 1 .. BufSize |-> None]
  /\ mptr = 0 /\ rptr = 0 /\ umsg = -1
  /\ dontwait = FALSE /\ total = 0
  /\ upc = "idle" /\ uret = 0 /\ got = <<>>

Next ==
  \/ \E block \in BOOLEAN : Call(block)
  \/ NoBufs \/ Recv \/ RecvAgain \/ RecvEof
  \/ Write \/ Close

\* The caller's calls run on (a blocking recvmsg waits only for the peer),
\* and the peer writes its stream and closes.
Fairness == WF_uvars(Next) /\ WF_uvars(Write \/ Close)

Spec == Init /\ [][Next]_uvars /\ Fairness

-----------------------------------------------------------------------------
Cell == [m : 0 .. Len(lens), off : Nat]

TypeOK ==
  /\ ubuf \in [1 .. BufSize -> Cell]
  /\ 0 <= mptr /\ mptr <= rptr /\ rptr <= BufSize
  /\ umsg \in -1 .. BufSize
  /\ 0 <= taken /\ taken <= sent /\ sent <= StreamLen
  /\ {closed, dontwait} \subseteq BOOLEAN
  /\ upc \in {"idle", "loop", "done"}
  /\ got \in Seq(Seq(Cell))

(***************************************************************************)
(* Every message the caller takes (at ur->msg after a call that returned  *)
(* 0 or the bytes read) is the next message of the stream, whole: its     *)
(* cells are exactly those of message 1, 2, ... in turn.  This is about    *)
(* take_complete_msg's advance of mptr, and shift_buf's memmove with the  *)
(* offsets moved back, whatever the sizes of the peer's writes and of     *)
(* recvmsg's reads.                                                        *)
(***************************************************************************)
DeliveredInOrder == \A i \in DOMAIN got : got[i] = MsgCells(i)

\* The messages the caller can get: those wholly written, up to the first
\* one longer than the buffer.
Deliverable ==
  LET ok(n) == \A j \in 1 .. n : lens[j] <= BufSize /\ EndOf(j) <= sent
  IN CHOOSE n \in 0 .. Len(lens) : ok(n) /\ (n = Len(lens) \/ ~ok(n + 1))

\* How the calls end: -EBADF after the last whole message, -ENOBUFS on a
\* message that fills the buffer, -EBADMSG on one cut by the close.
EndCode ==
  IF sent = EndOf(Deliverable) THEN -EBADF
  ELSE IF sent - EndOf(Deliverable) >= BufSize THEN -ENOBUFS
  ELSE -EBADMSG

(***************************************************************************)
(* The calls come to an end, having handed the caller every message the   *)
(* peer wrote whole before it closed, up to the first one that does not   *)
(* fit, and with the error that tells why they stopped.  This is about    *)
(* uc_recvmsg's loop: -ENOBUFS only on a message longer than the buffer   *)
(* (the shift makes room for any other), -EAGAIN never losing the partial *)
(* data, and the end-of-stream test of mptr < rptr.                      *)
(***************************************************************************)
AllDelivered ==
  <>(upc = "done" /\ Len(got) = Deliverable /\ uret = EndCode)
=============================================================================
