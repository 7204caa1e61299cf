------------------------------ MODULE NamedPipe ------------------------------
(***************************************************************************)
(* windows::NamedPipe, either end of a pipe: overlapped connect, read and  *)
(* write behind a non-blocking interface, and the completion port that     *)
(* tells a Poll when one of them is over.                                  *)
(*                                                                         *)
(* io_mutex_ makes each call one step; the kernel finishes operations and  *)
(* the peer acts between them.  Bytes are numbered in the order in which   *)
(* the peer sends them, or write is given them.  An object is moved        *)
(* when it is idle and not used once it is closed: a move leaves pending   *)
(* operations and unread bytes behind, and close frees the buffers without *)
(* waiting for what it cancels.                                            *)
(***************************************************************************)
EXTENDS Naturals, Sequences, Functions

CONSTANTS
  Sizes,       \* sizes the program passes to read and write
  BufferSize,  \* bytes of read_buffer_ (65536)
  DwordMax,    \* the largest size WriteFile takes
  Quota,       \* bytes the pipe buffers towards the peer
  MaxSent,     \* bound: bytes the peer sends
  MaxWritten   \* bound: bytes the program writes

Kinds == {"connect", "read", "write"}

ASSUME PipeAssumption ==
  /\ Sizes \subseteq Nat
  /\ {BufferSize, DwordMax, Quota, MaxSent, MaxWritten} \subseteq Nat \ {0}

VARIABLES
  \* NamedPipe
  open,          \* handle_ is valid
  client,        \* it is from open_client
  pending,       \* kinds whose connect_pending_, read_pending_, write_pending_ is set
  read_buffer_,  \* bytes from read_pos_ to read_ready_size_
  write_buffer_,
  last_error_,   \* is it set
  \* Selector
  registered, associated, \* in the map; with the completion port
  port,          \* kinds with a completion packet in the port
  \* kernel and peer
  conn,          \* "listening", "connected", "broken" by the peer, "disconnected"
  op,            \* kind -> "idle", in "flight", "done", "failed"
  landed,        \* what a finished read put into the buffer
  inPipe, outPipe,
  \* history
  told,          \* pending kinds with an Event since they last would have blocked
  owed,          \* kinds that failed in flight and have not said so
  sent, lost,    \* bytes the peer sent; those of them a disconnect discarded
  got,           \* bytes read has returned
  written,       \* bytes write said it took
  dropped,       \* those of them the peer cannot get any more
  clipped,       \* those of them WriteFile was not given
  received       \* bytes the peer has read

objectVars == <<open, client, pending, read_buffer_, write_buffer_, last_error_>>
selectorVars == <<registered, associated>>
readVars == <<read_buffer_, landed, inPipe, sent, lost, got>>
writeVars == <<write_buffer_, outPipe, written, dropped, clipped, received>>
vars == <<objectVars, selectorVars, port, conn, op, landed, inPipe, outPipe,
          told, owed, sent, lost, got, written, dropped, clipped, received>>

Init ==
  /\ open = FALSE /\ client = FALSE /\ pending = {} /\ read_buffer_ = <<>> /\ write_buffer_ = <<>> /\ last_error_ = FALSE
  /\ registered = FALSE /\ associated = FALSE /\ port = {}
  /\ conn = "disconnected" /\ op = [k \in Kinds |-> "idle"]
  /\ landed = <<>> /\ inPipe = <<>> /\ outPipe = <<>>
  /\ told = {} /\ owed = {}
  /\ sent = 0 /\ lost = {} /\ got = <<>>
  /\ written = 0 /\ dropped = {} /\ clipped = {} /\ received = <<>>

Numbers(from, to) == [i \in 1..(to - from) |-> from + i]

Smaller(a, b) == IF a < b THEN a ELSE b

Take(s, n) == SubSeq(s, 1, Smaller(n, Len(s)))

Drop(s, n) == SubSeq(s, Smaller(n, Len(s)) + 1, Len(s))

------------------------------------------------------------------------------
\* Kernel (external).

\* The completion packets of operations that are over, in success or in failure.
Posted(kinds) == port' = IF associated THEN port \cup kinds ELSE port

\* The operations among kinds that are in flight come to an end.
Finish(kinds, result) ==
  LET over == {k \in kinds : op[k] = "flight"}
  IN /\ op' = [k \in Kinds |-> IF k \in over THEN result ELSE op[k]]
     /\ owed' = IF result = "failed" THEN owed \cup over ELSE owed
     /\ Posted(over)

\* The bytes of the write in flight: the size WriteFile got is a DWORD.
InFlight == IF op["write"] = "flight" THEN Take(write_buffer_, DwordMax) ELSE <<>>

\* The peer is gone or cut off: it gets none of what is on the way to it.
CutOff ==
  /\ dropped' = dropped \cup Range(outPipe) \cup Range(InFlight)
  /\ outPipe' = <<>>
  /\ UNCHANGED <<write_buffer_, written, clipped, received>>

\* Some program opens the other end of a pipe that create has made.
ClientOpens ==
  /\ open /\ conn = "listening"
  /\ conn' = "connected"
  /\ Finish({"connect"}, "done")
  /\ UNCHANGED <<objectVars, selectorVars, told, landed, inPipe, sent, lost, got, outPipe, written,
                 dropped, clipped, received>>

\* A read in flight gets what fits its buffer.
PeerWrites ==
  /\ open /\ conn = "connected"
  /\ \E n \in 1..(MaxSent - sent) :
       LET bytes == Numbers(sent, sent + n)
           now == IF op["read"] = "flight" THEN BufferSize ELSE 0
       IN /\ sent' = sent + n
          /\ landed' = landed \o Take(bytes, now)
          /\ inPipe' = inPipe \o Drop(bytes, now)
  /\ Finish({"read"}, "done")
  /\ UNCHANGED <<objectVars, selectorVars, conn, told, lost, got, outPipe, written, dropped, clipped,
                 received>>

\* The pipe's buffer first, then the buffer of the write in flight.
PeerReads ==
  /\ open /\ conn = "connected"
  /\ IF outPipe # <<>>
     THEN /\ received' = Append(received, Head(outPipe))
          /\ outPipe' = Tail(outPipe)
          /\ UNCHANGED <<op, owed, port>>
     ELSE /\ op["write"] = "flight"
          /\ received' = received \o InFlight
          /\ Finish({"write"}, "done")
          /\ UNCHANGED outPipe
  /\ UNCHANGED <<objectVars, selectorVars, conn, told, landed, inPipe, sent, lost, got, written, dropped,
                 clipped>>

PeerCloses ==
  /\ open /\ conn = "connected"
  /\ conn' = "broken"
  /\ CutOff
  /\ Finish({"read", "write"}, "failed")
  /\ UNCHANGED <<open, client, pending, last_error_, selectorVars, told, readVars>>

\* DisconnectNamedPipe, called by the server at the other end.
ServerDisconnects ==
  /\ open /\ client /\ conn = "connected"
  /\ conn' = "broken"
  /\ CutOff
  /\ lost' = lost \cup Range(inPipe)
  /\ inPipe' = <<>>
  /\ Finish({"read", "write"}, "failed")
  /\ UNCHANGED <<open, client, pending, last_error_, selectorVars, told, read_buffer_, landed, sent, got>>

------------------------------------------------------------------------------
\* NamedPipe

create ==
  /\ ~open
  /\ open' = TRUE
  /\ conn' = "listening"
  /\ UNCHANGED <<client, pending, last_error_, selectorVars, port, op, told, owed, readVars, writeVars>>

\* CreateFile connects to a server's end that waits, or fails.
open_client ==
  /\ ~open
  /\ open' = TRUE /\ client' = TRUE
  /\ conn' = "connected"
  /\ UNCHANGED <<pending, last_error_, selectorVars, port, op, told, owed, readVars, writeVars>>

\* The call on kind k says operation_would_block.
WouldBlock(k) ==
  /\ told' = told \ {k}
  /\ UNCHANGED <<open, client, selectorVars, last_error_>>

\* It returns for good.
Over(k) ==
  /\ pending' = pending \ {k}
  /\ told' = told \ {k}
  /\ op' = [op EXCEPT ![k] = "idle"]
  /\ UNCHANGED <<open, client, selectorVars>>

\* An operation in flight, and the flag that says so.
Start(k) ==
  /\ pending' = pending \cup {k}
  /\ op' = [op EXCEPT ![k] = "flight"]
  /\ UNCHANGED <<owed, port>>
  /\ WouldBlock(k)

\* GetOverlappedResult of a pending operation: not over yet, or failed.
StillPending(k) ==
  /\ k \in pending /\ op[k] = "flight"
  /\ WouldBlock(k)
  /\ UNCHANGED <<pending, op, owed, port, conn>>

Failed(k) ==
  /\ k \in pending /\ op[k] = "failed"
  /\ Over(k)
  /\ owed' = owed \ {k}
  /\ last_error_' = TRUE
  /\ UNCHANGED <<port, conn>>

\* A call that fails at once.
Refused(k) ==
  /\ k \notin pending
  /\ last_error_' = TRUE
  /\ UNCHANGED <<open, client, pending, selectorVars, port, conn, op, told, owed>>

\* complete_connect_locked throws, and the exception leaves connect even when it was
\* called with an error_code; read and write catch theirs.
connect_throws == Failed("connect")

\* A client that has been there and gone counts as connected (ERROR_NO_DATA); the
\* client's end cannot be connected.
connect ==
  /\ open
  /\ \/ StillPending("connect") \/ connect_throws
     \/ /\ "connect" \in pending /\ op["connect"] = "done"
        /\ Over("connect")
        /\ UNCHANGED <<owed, last_error_, port, conn>>
     \/ /\ "connect" \notin pending /\ ~client /\ conn \in {"listening", "disconnected"}
        /\ conn' = "listening"
        /\ Start("connect")
     \/ /\ client
        /\ Refused("connect")
  /\ UNCHANGED <<readVars, writeVars>>

\* Bytes that have come in and are still in the object are kept.
disconnect ==
  /\ open /\ ~client /\ conn # "disconnected"
  /\ conn' = "disconnected"
  /\ CutOff
  /\ lost' = lost \cup Range(inPipe)
  /\ inPipe' = <<>>
  /\ Finish(Kinds, "failed")
  /\ UNCHANGED <<open, client, pending, last_error_, selectorVars, told, read_buffer_, landed, sent, got>>

\* A variant that empties the buffer after every call.
copy_ready_drops(bytes, size) ==
  /\ got' = got \o Take(bytes, size)
  /\ read_buffer_' = <<>>

copy_ready(bytes, size) ==
  /\ got' = got \o Take(bytes, size)
  /\ read_buffer_' = Drop(bytes, size)

\* A variant that reads more than the buffer holds.
ReadFile_unbounded(size) ==
  /\ copy_ready(inPipe, size)
  /\ inPipe' = <<>>

ReadFile(size) ==
  /\ copy_ready(Take(inPipe, BufferSize), size)
  /\ inPipe' = Drop(inPipe, BufferSize)

read(size) ==
  /\ open
  /\ \/ /\ read_buffer_ # <<>>
        /\ copy_ready(read_buffer_, size)
        /\ UNCHANGED <<open, client, pending, last_error_, selectorVars, port, conn, op, told, owed, landed, inPipe>>
     \/ /\ read_buffer_ = <<>>
        /\ (StillPending("read") \/ Failed("read"))
        /\ UNCHANGED <<read_buffer_, got, landed, inPipe>>
     \/ /\ read_buffer_ = <<>> /\ "read" \in pending /\ op["read"] = "done"
        /\ copy_ready(landed, size)
        /\ landed' = <<>>
        /\ Over("read")
        /\ UNCHANGED <<owed, last_error_, port, conn, inPipe>>
     \/ /\ read_buffer_ = <<>> /\ "read" \notin pending /\ inPipe # <<>>
        /\ ReadFile(size)
        /\ Posted({"read"})
        /\ UNCHANGED <<open, client, pending, last_error_, selectorVars, conn, op, told, owed, landed>>
     \/ /\ read_buffer_ = <<>> /\ "read" \notin pending /\ inPipe = <<>> /\ conn = "connected"
        /\ Start("read")
        /\ UNCHANGED <<conn, read_buffer_, got, landed, inPipe>>
     \/ /\ read_buffer_ = <<>> /\ inPipe = <<>> /\ conn # "connected"
        /\ Refused("read")
        /\ UNCHANGED <<read_buffer_, got, landed, inPipe>>
  /\ UNCHANGED <<sent, lost, writeVars>>

\* WriteFile of the bytes in write_buffer_, when no write is in flight, as far as
\* checked_size lets it.  A write that pends counts as done: the caller gets size, and
\* not the clipped size.
WriteFile(size) ==
  LET bytes == Numbers(written, written + size)
      taken == Take(bytes, DwordMax)
  IN \/ /\ conn = "connected" /\ Len(outPipe) + Len(taken) <= Quota
        /\ outPipe' = outPipe \o taken
        /\ written' = written + Len(taken)
        /\ write_buffer_' = <<>>
        /\ Over("write")
        /\ Posted({"write"})
        /\ UNCHANGED <<last_error_, clipped>>
     \/ /\ conn = "connected" /\ Len(outPipe) + Len(taken) > Quota
        /\ written' = written + size
        /\ write_buffer_' = bytes
        /\ clipped' = clipped \cup Range(Drop(bytes, DwordMax))
        /\ Start("write")
        /\ UNCHANGED outPipe
     \/ /\ conn # "connected"
        /\ write_buffer_' = <<>>
        /\ Over("write")
        /\ last_error_' = TRUE
        /\ UNCHANGED <<outPipe, written, clipped, port>>

\* No memory for write_buffer_: the write that was pending is over, the new one is not
\* begun.
NoMemory ==
  /\ write_buffer_' = <<>>
  /\ Over("write")
  /\ UNCHANGED <<outPipe, written, clipped, last_error_, port>>

\* A variant that does not look at the write in flight.
write_regardless(size) ==
  /\ open /\ written + size <= MaxWritten
  /\ WriteFile(size)
  /\ UNCHANGED <<owed, conn, dropped, received, readVars>>

\* A variant of complete_write_locked that takes a failure for the end of the write.
write_ignores_failure(size) ==
  /\ open /\ written + size <= MaxWritten
  /\ \/ /\ StillPending("write")
        /\ UNCHANGED <<write_buffer_, outPipe, written, clipped>>
     \/ /\ "write" \in pending => op["write"] # "flight"
        /\ WriteFile(size)
        /\ UNCHANGED <<owed, conn>>
  /\ UNCHANGED <<dropped, received, readVars>>

write(size) ==
  /\ open /\ written + size <= MaxWritten
  /\ \/ /\ StillPending("write")
        /\ UNCHANGED <<write_buffer_, outPipe, written, clipped>>
     \/ /\ Failed("write")
        /\ write_buffer_' = <<>>
        /\ UNCHANGED <<outPipe, written, clipped>>
     \/ /\ "write" \in pending => op["write"] = "done"
        /\ WriteFile(size) \/ NoMemory
        /\ UNCHANGED <<owed, conn>>
  /\ UNCHANGED <<dropped, received, readVars>>

take_error ==
  /\ open /\ last_error_
  /\ last_error_' = FALSE
  /\ UNCHANGED <<open, client, pending, selectorVars, port, conn, op, told, owed, readVars, writeVars>>

\* The move of an idle pipe; last_error_ stays behind.
Move ==
  /\ open /\ pending = {} /\ read_buffer_ = <<>>
  /\ last_error_' = FALSE
  /\ UNCHANGED <<open, client, pending, selectorVars, port, conn, op, told, owed, readVars, writeVars>>

\* The destructor.  The model follows nothing past it but the next object.
close ==
  /\ open
  /\ open' = FALSE /\ client' = FALSE /\ pending' = {}
  /\ read_buffer_' = <<>> /\ write_buffer_' = <<>> /\ last_error_' = FALSE
  /\ registered' = FALSE /\ associated' = FALSE /\ port' = {}
  /\ conn' = "disconnected" /\ op' = [k \in Kinds |-> "idle"]
  /\ landed' = <<>> /\ inPipe' = <<>> /\ outPipe' = <<>>
  /\ told' = {} /\ owed' = {}
  /\ sent' = 0 /\ lost' = {} /\ got' = <<>>
  /\ written' = 0 /\ dropped' = {} /\ clipped' = {} /\ received' = <<>>

------------------------------------------------------------------------------
\* Selector

\* A variant that leaves the handle out of the completion port.
RegisterHandle_map_only ==
  /\ open /\ ~registered /\ ~associated
  /\ registered' = TRUE
  /\ told' = pending
  /\ UNCHANGED <<objectVars, associated, port, conn, op, owed, landed, inPipe, sent, lost, got, outPipe,
                 written, dropped, clipped, received>>

\* The program tries again what it left pending before it registered.  A handle cannot
\* be associated twice: registering after deregistering fails and is rolled back.
RegisterHandle ==
  /\ open /\ ~registered /\ ~associated
  /\ registered' = TRUE /\ associated' = TRUE
  /\ told' = pending
  /\ UNCHANGED <<objectVars, port, conn, op, owed, landed, inPipe, sent, lost, got, outPipe,
                 written, dropped, clipped, received>>

\* The handle stays with the port.
DeregisterHandle ==
  /\ open /\ registered
  /\ registered' = FALSE
  /\ UNCHANGED <<objectVars, associated, port, conn, op, told, owed, landed, inPipe, sent, lost, got,
                 outPipe, written, dropped, clipped, received>>

\* One packet leaves the port; it becomes an Event with all interests of the handle.
PollReport ==
  /\ \E k \in port : port' = port \ {k}
  /\ told' = IF registered THEN pending ELSE told
  /\ UNCHANGED <<objectVars, selectorVars, conn, op, owed, landed, inPipe, sent, lost, got, outPipe,
                 written, dropped, clipped, received>>

------------------------------------------------------------------------------
Peer == ClientOpens \/ PeerWrites \/ PeerReads \/ PeerCloses \/ ServerDisconnects

Next ==
  \/ Peer
  \/ create \/ open_client \/ connect \/ disconnect \/ take_error \/ Move \/ close
  \/ \E size \in Sizes : read(size) \/ write(size)
  \/ RegisterHandle \/ DeregisterHandle \/ PollReport

Spec == Init /\ [][Next]_vars

------------------------------------------------------------------------------
\* Every variable has its type: read puts no more into read_buffer_ than it holds.
TypeOK ==
  /\ {open, client, last_error_, registered, associated} \subseteq BOOLEAN
  /\ pending \cup port \cup told \cup owed \subseteq Kinds
  /\ conn \in {"listening", "connected", "broken", "disconnected"}
  /\ op \in [Kinds -> {"idle", "flight", "done", "failed"}]
  /\ Len(read_buffer_) <= BufferSize /\ Len(landed) <= BufferSize
  /\ sent \in 0..MaxSent /\ written \in 0..MaxWritten
  /\ (UNION {Range(s) : s \in {read_buffer_, landed, inPipe, got}}) \cup lost \subseteq 1..sent
  /\ (UNION {Range(s) : s \in {write_buffer_, outPipe, received}}) \cup dropped \cup clipped \subseteq 1..written

\* The sequence s lists the numbers of S, each once and in order.
Lists(s, S) ==
  /\ \A i, j \in DOMAIN s : i < j => s[i] < s[j]
  /\ Range(s) = S

Incoming == got \o read_buffer_ \o landed \o inPipe

Outgoing == received \o outPipe \o InFlight

\* What the peer sent and no disconnect discarded is in what read has returned, in
\* read_buffer_, in a finished read or in the pipe: each byte once, in the order sent,
\* for any sizes passed to read and any interleaving with completions.
ReadConserves == Lists(Incoming, (1..sent) \ lost)

\* What write said it took, and no broken connection discarded, the peer has read or
\* will read, in order and without a gap, also across a write that pended: its buffer
\* is left alone while it is in flight.  The exception is a write of more bytes than a
\* DWORD counts that pends: write returns the full size, and the rest (clipped) goes
\* nowhere.
WriteConserves ==
  /\ Lists(Outgoing, (1..written) \ (dropped \cup clipped))
  /\ (\A n \in Sizes : n <= DwordMax) => clipped = {}

\* The failure of an operation that had said would-block, or of a write that had been
\* counted as done, is told by the next call of its kind.
FailureTold == owed \subseteq {k \in pending : op[k] = "failed"}

\* A registered pipe wakes its Poll: each pending operation is still in flight, or its
\* packet is in the port, or an Event has come since it last would have blocked.
PendingWakes ==
  registered => \A k \in pending : op[k] = "flight" \/ k \in port \/ k \in told

==============================================================================
