------------------------------ MODULE NetStream ------------------------------
(***************************************************************************)
(* tcp-send and tcp-recv of host/net.c on one connected handle, in clear   *)
(* or over TLS, against a peer that reads and writes when it likes, shuts  *)
(* down, cuts the connection or resets it.  A byte sent is a pair of the   *)
(* number of the tcp-send and its place in that payload; a byte received   *)
(* is its place in what the peer wrote.  An error is caught by the script, *)
(* which goes on with the same handle.                                     *)
(***************************************************************************)
EXTENDS Integers, Sequences, SequencesExt

CONSTANTS
  SendMax,   \* bound: calls of tcp-send
  LenMax,    \* bound: the length of a payload
  Room,      \* what the kernel's send buffer takes
  InMax,     \* bound: bytes that the peer writes
  Nul,       \* which of them is a NUL
  BreakMax   \* bound: signals that interrupt a system call

ASSUME StreamAssumption == {SendMax, LenMax, Room, InMax, Nul, BreakMax} \subseteq Nat

VARIABLES
  encrypted, \* s->ssl is set
  deadlined, \* the descriptor has a read and write deadline
  out,       \* everything that has entered the stream to the peer
  unread,    \* how much of it the peer has not read
  inp,       \* what the peer has written and tcp-recv has not taken
  written,   \* how much the peer has written
  peer,      \* "up"; "shut" orderly, "cut" without close_notify, "reset"
  stuck,     \* a write of the session failed: it takes no other
  io,        \* the primitive under way
  pending,   \* its registered buffers
  sends,     \* history: the length of each payload, and whether its call returned
  got,       \* history: the bytes that tcp-recv returned
  ended,     \* history: it has returned nil
  breaks

kind == <<encrypted, deadlined>>
streamVars == <<kind, out, unread, inp, written, peer, stuck, io, pending, sends, got, ended,
                breaks>>

Rest == [op |-> "no", len |-> 0, sent |-> 0]

Doing(op) == io.op = op

(* on_error frees what is registered.                                      *)
Abandon == io' = Rest /\ pending' = 0
-----------------------------------------------------------------------------
(* tcp-send: a blob is borrowed; any other value is copied and registered. *)
BeginSend(len, blob) ==
  /\ Doing("no") /\ Len(sends) < SendMax
  /\ io' = [op |-> "send", len |-> len, sent |-> 0]
  /\ sends' = Append(sends, [len |-> len, ok |-> FALSE])
  /\ pending' = IF blob THEN pending ELSE pending + 1
  /\ UNCHANGED <<kind, out, unread, inp, written, peer, stuck, got, ended, breaks>>

(* The n bytes of the payload from the first one that was not sent yet.    *)
(* Slip: from the start.                                                   *)
FromStart(n) == [i \in 1..n |-> <<Len(sends), i>>]

Bytes(n) == [i \in 1..n |-> <<Len(sends), io.sent + i>>]

Transmit(n) == out' = out \o Bytes(n) /\ unread' = unread + n

(* send takes what there is room for.  SSL_write does the same inside, and *)
(* keeps count itself: to the caller it takes all or fails.                *)
Write ==
  /\ Doing("send") /\ io.sent < io.len /\ peer \in {"up", "shut"} /\ ~stuck
  /\ \E n \in 1..(io.len - io.sent) :
       /\ unread + n <= Room
       /\ Transmit(n)
       /\ io' = [io EXCEPT !.sent = @ + n]
  /\ UNCHANGED <<kind, inp, written, peer, stuck, pending, sends, got, ended, breaks>>

(* EINTR: nothing was taken, again. *)
Retried ==
  /\ io.op \in {"send", "recv"} /\ breaks < BreakMax
  /\ breaks' = breaks + 1
  /\ UNCHANGED <<kind, out, unread, inp, written, peer, stuck, io, pending, sends, got, ended>>

(* A deadline that has passed while the buffer is full, a connection that  *)
(* is gone, a session that failed before.                                  *)
WriteFails ==
  /\ Doing("send") /\ io.sent < io.len
  /\ \/ deadlined /\ unread = Room
     \/ peer \in {"reset", "cut"}
     \/ stuck
  /\ stuck' = encrypted
  /\ Abandon
  /\ UNCHANGED <<kind, out, unread, inp, written, peer, sends, got, ended, breaks>>

(* The loop is over.  Slip: never.                                         *)
SentPast == io.sent > io.len

SentAll == io.sent = io.len

(* The buffer is freed before fe_number, which may raise.                  *)
SendReturns ==
  /\ Doing("send") /\ SentAll
  /\ sends' = [sends EXCEPT ![Len(sends)].ok = TRUE]
  /\ io' = Rest /\ pending' = 0
  /\ UNCHANGED <<kind, out, unread, inp, written, peer, stuck, got, ended, breaks>>

SendRaises ==
  /\ Doing("send") /\ SentAll
  /\ Abandon
  /\ UNCHANGED <<kind, out, unread, inp, written, peer, stuck, sends, got, ended, breaks>>
-----------------------------------------------------------------------------
(* tcp-recv *)
BeginRecv(max) ==
  /\ Doing("no")
  /\ io' = [op |-> "recv", len |-> max, sent |-> 0]
  /\ pending' = pending + 1
  /\ UNCHANGED <<kind, out, unread, inp, written, peer, stuck, sends, got, ended, breaks>>

(* fe_string reads the buffer up to a NUL. *)
UpToNul(s) == SelectInSeq(s, LAMBDA b : b = Nul)

AsString(s) == IF UpToNul(s) = 0 THEN s ELSE SubSeq(s, 1, UpToNul(s) - 1)

(* One read's worth.  fe_string may raise: the bytes are gone.             *)
Take(n) == inp' = SubSeq(inp, n + 1, Len(inp))

Deliver ==
  /\ Doing("recv") /\ inp # <<>> /\ peer # "reset"
  /\ \E n \in 1..Len(inp) :
       /\ n <= io.len
       /\ Take(n)
       /\ \/ got' = got \o AsString(SubSeq(inp, 1, n))
          \/ UNCHANGED got
  /\ io' = Rest /\ pending' = 0
  /\ UNCHANGED <<kind, out, unread, written, peer, stuck, sends, ended, breaks>>

(* nil at the end of the stream.  Over TLS the end is close_notify, or a   *)
(* dropped connection while errno happens to be 0.  Slip: nil whenever     *)
(* there is nothing to read.                                               *)
NothingYet == inp = <<>>

AtEnd == inp = <<>> /\ peer \in {"shut", "cut"}

RecvNil ==
  /\ Doing("recv") /\ AtEnd
  /\ ended' = TRUE
  /\ io' = Rest /\ pending' = 0
  /\ UNCHANGED <<kind, out, unread, inp, written, peer, stuck, sends, got, breaks>>

RecvFails ==
  /\ Doing("recv")
  /\ \/ deadlined /\ inp = <<>> /\ peer = "up"    \* timed out
     \/ peer = "reset"
     \/ peer = "cut" /\ inp = <<>> /\ encrypted
  /\ Abandon
  /\ UNCHANGED <<kind, out, unread, inp, written, peer, stuck, sends, got, ended, breaks>>
-----------------------------------------------------------------------------
PeerReads ==
  /\ unread > 0
  /\ unread' \in 0..(unread - 1)
  /\ UNCHANGED <<kind, out, inp, written, peer, stuck, io, pending, sends, got, ended, breaks>>

PeerWrites ==
  /\ peer = "up" /\ written < InMax
  /\ written' = written + 1 /\ inp' = Append(inp, written + 1)
  /\ UNCHANGED <<kind, out, unread, peer, stuck, io, pending, sends, got, ended, breaks>>

PeerLeaves ==
  /\ peer = "up" /\ peer' \in {"shut", "cut", "reset"}
  /\ UNCHANGED <<kind, out, unread, inp, written, stuck, io, pending, sends, got, ended, breaks>>
-----------------------------------------------------------------------------
StreamInit ==
  /\ encrypted \in BOOLEAN /\ deadlined \in BOOLEAN
  /\ out = <<>> /\ unread = 0 /\ inp = <<>> /\ written = 0 /\ peer = "up" /\ stuck = FALSE
  /\ io = Rest /\ pending = 0 /\ sends = <<>> /\ got = <<>>
  /\ ended = FALSE /\ breaks = 0

Transfer == Write \/ WriteFails \/ SendReturns \/ SendRaises
            \/ Deliver \/ RecvNil \/ RecvFails

StreamNext ==
  \/ \E len \in 0..LenMax, blob \in BOOLEAN : BeginSend(len, blob)
  \/ \E max \in 1..2 : BeginRecv(max)
  \/ Transfer \/ Retried \/ PeerReads \/ PeerWrites \/ PeerLeaves

(* The primitives' own loops, with the kernel's timer in them; the peer    *)
(* owes nothing.                                                           *)
StreamFairness == WF_streamVars(Transfer)

StreamSpec == StreamInit /\ [][StreamNext]_streamVars /\ StreamFairness
-----------------------------------------------------------------------------
StreamTypeOK ==
  /\ unread \in 0..Room /\ unread <= Len(out)
  /\ peer \in {"up", "shut", "cut", "reset"} /\ stuck \in BOOLEAN /\ ended \in BOOLEAN
  /\ io.op \in {"no", "send", "recv"} /\ io.sent \in 0..io.len
  /\ pending \in 0..1 /\ breaks \in 0..BreakMax
  /\ written \in 0..InMax /\ Len(inp) + Len(got) <= written

(* Both streams carry each byte in order and once.  Out: of every payload  *)
(* the bytes from the first one on, all of them if tcp-send returned, and  *)
(* no byte of an earlier payload after one of a later, however the writes  *)
(* were cut up or interrupted.  In: what the script gets is in the peer's  *)
(* order, precedes what is still to be read, and never holds the NUL.      *)
Before(b, c) == b[1] < c[1] \/ (b[1] = c[1] /\ b[2] < c[2])

Payloads ==
  /\ \A i \in 1..Len(out) :
       /\ out[i][1] \in 1..Len(sends) /\ out[i][2] \in 1..sends[out[i][1]].len
       /\ out[i][2] > 1 => i > 1 /\ out[i - 1] = <<out[i][1], out[i][2] - 1>>
  /\ \A k \in 1..Len(sends) :
       sends[k].ok /\ sends[k].len > 0 => \E i \in 1..Len(out) : out[i] = <<k, sends[k].len>>

BytesInOrder ==
  /\ Payloads
  /\ \A i, j \in 1..Len(out) : i < j => Before(out[i], out[j])
  /\ \A i, j \in 1..Len(got) : i < j => got[i] < got[j]
  /\ \A i \in 1..Len(got), j \in 1..Len(inp) : got[i] < inp[j]
  /\ \A i \in 1..Len(got) : got[i] # Nul

(* nil means the end: once tcp-recv has returned it, no byte is delivered  *)
(* any more.  A stall raises instead.                                      *)
NilIsTheEnd == [][ended => got' = got]_streamVars

(* With a deadline, no peer can hold a script: every tcp-send and tcp-recv *)
(* ends.                                                                   *)
CallsEnd == deadlined => (~Doing("no") ~> Doing("no"))
=============================================================================
