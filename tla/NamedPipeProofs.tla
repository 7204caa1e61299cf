-------------------------- MODULE NamedPipeProofs --------------------------
(***************************************************************************)
(* Proofs about NamedPipe, for any sizes, buffers and quota.  The control  *)
(* of the three operations is an inductive invariant by itself; the bytes  *)
(* towards the program and those towards the peer have one each  , which   *)
(* rest on it.                                                             *)
(***************************************************************************)
EXTENDS NamedPipe, SequenceTheorems, TLAPS

------------------------------------------------------------------------------
\* Sequences of bytes

Bytes == Seq(Nat)

\* What read copies out and what it keeps are together what there was.
LEMMA TakeDrop ==
  ASSUME NEW s \in Bytes, NEW n \in Nat
  PROVE  /\ Take(s, n) \in Bytes /\ Drop(s, n) \in Bytes
         /\ Len(Take(s, n)) = Smaller(n, Len(s)) /\ Len(Drop(s, n)) = Len(s) - Smaller(n, Len(s))
         /\ Take(s, n) \o Drop(s, n) = s
<1> DEFINE m == Smaller(n, Len(s))
<1>1. Len(s) \in Nat /\ \A i \in 1..Len(s) : s[i] \in Nat
  BY LenProperties, ElementOfSeq DEF Bytes
<1>2. m \in 0..Len(s)
  BY <1>1 DEF Smaller
<1> HIDE DEF m
<1>3. /\ SubSeq(s, 1, m) \in Bytes /\ Len(SubSeq(s, 1, m)) = IF 1 <= m THEN m - 1 + 1 ELSE 0
  <2>1. \A i \in 1..m : s[i] \in Nat
    BY <1>1, <1>2
  <2> QED
    BY <2>1, <1>2, SubSeqProperties DEF Bytes
<1>4. /\ SubSeq(s, m + 1, Len(s)) \in Bytes
      /\ Len(SubSeq(s, m + 1, Len(s))) = IF m + 1 <= Len(s) THEN Len(s) - (m + 1) + 1 ELSE 0
  <2>1. \A i \in (m + 1)..Len(s) : s[i] \in Nat
    BY <1>1, <1>2
  <2>2. m + 1 \in Int /\ Len(s) \in Int
    BY <1>1, <1>2
  <2> QED
    BY <2>1, <2>2, SubSeqProperties DEF Bytes
<1>5. SubSeq(s, 1, m) \o SubSeq(s, m + 1, Len(s)) = s
  <2>1. /\ 1 \in 1..(Len(s) + 1) /\ m \in (1 - 1)..Len(s) /\ Len(s) \in m..Len(s)
    BY <1>1, <1>2
  <2>2. SubSeq(s, 1, m) \o SubSeq(s, m + 1, Len(s)) = SubSeq(s, 1, Len(s))
    BY Zenon, <2>1, ConcatAdjacentSubSeq DEF Bytes
  <2> QED
    BY Zenon, <2>2, SubSeqFull DEF Bytes
<1>6. Take(s, n) = SubSeq(s, 1, m) /\ Drop(s, n) = SubSeq(s, m + 1, Len(s))
  BY DEF Take, Drop, m
<1>7. Len(SubSeq(s, 1, m)) = m /\ Len(SubSeq(s, m + 1, Len(s))) = Len(s) - m
  BY <1>1, <1>2, <1>3, <1>4
<1> QED
  BY Zenon, <1>3, <1>4, <1>5, <1>6, <1>7 DEF m

\* The bytes after the first a, n of them.
LEMMA NumbersList ==
  ASSUME NEW a \in Nat, NEW n \in Nat
  PROVE  /\ Numbers(a, a + n) \in Bytes /\ Len(Numbers(a, a + n)) = n
         /\ Lists(Numbers(a, a + n), (a + 1)..(a + n))
<1> DEFINE s == [i \in 1..n |-> a + i]
<1>1. Numbers(a, a + n) = s
  <2>1. (a + n) - a = n
    OBVIOUS
  <2> QED
    BY <2>1 DEF Numbers
<1>2. s \in Bytes /\ Len(s) = n
  <2>1. s \in [1..n -> Nat]
    OBVIOUS
  <2>2. s \in Seq(Nat)
    BY <2>1, SeqDef
  <2>3. DOMAIN s = 1..n /\ DOMAIN s = 1..Len(s) /\ Len(s) \in Nat
    BY <2>2, LenProperties
  <2> QED
    BY <2>2, <2>3 DEF Bytes
<1>3. \A i, j \in DOMAIN s : i < j => s[i] < s[j]
  OBVIOUS
<1>4. Range(s) = (a + 1)..(a + n)
  <2>1. ASSUME NEW b \in (a + 1)..(a + n) PROVE b \in Range(s)
    <3>1. b - a \in 1..n /\ s[b - a] = b
      OBVIOUS
    <3> QED
      BY <3>1 DEF Range
  <2>2. Range(s) \subseteq (a + 1)..(a + n)
    BY DEF Range
  <2> QED
    BY Zenon, <2>1, <2>2
<1> QED
  BY <1>1, <1>2, <1>3, <1>4 DEF Lists

\* Bytes added behind.
LEMMA ListsConcat ==
  ASSUME NEW s \in Bytes, NEW t \in Bytes, NEW A, NEW B, Lists(s, A), Lists(t, B),
         \A a \in A, b \in B : a < b
  PROVE  Lists(s \o t, A \cup B)
<1>1. /\ Len(s) \in Nat /\ Len(t) \in Nat
      /\ DOMAIN s = 1..Len(s) /\ DOMAIN t = 1..Len(t)
      /\ s \o t \in Bytes /\ DOMAIN (s \o t) = 1..(Len(s) + Len(t))
      /\ \A i \in 1..(Len(s) + Len(t)) : (s \o t)[i] = IF i <= Len(s) THEN s[i] ELSE t[i - Len(s)]
  BY LenProperties, ConcatProperties DEF Bytes
<1>2. Range(s \o t) = A \cup B
  BY RangeConcatenation DEF Bytes, Lists
<1>3. ASSUME NEW i \in DOMAIN (s \o t), NEW j \in DOMAIN (s \o t), i < j
      PROVE  (s \o t)[i] < (s \o t)[j]
  <2>1. CASE j <= Len(s)
    <3>1. (s \o t)[i] = s[i] /\ (s \o t)[j] = s[j] /\ i \in DOMAIN s /\ j \in DOMAIN s
      BY <1>1, <1>3, <2>1
    <3> QED
      BY <3>1, <1>3 DEF Lists
  <2>2. CASE i > Len(s)
    <3>1. /\ (s \o t)[i] = t[i - Len(s)] /\ (s \o t)[j] = t[j - Len(s)]
          /\ i - Len(s) \in DOMAIN t /\ j - Len(s) \in DOMAIN t /\ i - Len(s) < j - Len(s)
      BY <1>1, <1>3, <2>2
    <3> QED
      BY <3>1 DEF Lists
  <2>3. CASE i <= Len(s) /\ j > Len(s)
    <3>1. /\ (s \o t)[i] = s[i] /\ (s \o t)[j] = t[j - Len(s)]
          /\ i \in DOMAIN s /\ j - Len(s) \in DOMAIN t
      BY <1>1, <1>3, <2>3
    <3>2. s[i] \in A /\ t[j - Len(s)] \in B
      BY <3>1 DEF Lists, Range
    <3> QED
      BY <3>1, <3>2
  <2> QED
    BY <1>1, <2>1, <2>2, <2>3
<1> QED
  BY <1>2, <1>3 DEF Lists

\* Bytes cut off at the end.
LEMMA ListsPrefix ==
  ASSUME NEW s \in Bytes, NEW t \in Bytes, NEW S, Lists(s \o t, S)
  PROVE  Lists(s, S \ Range(t))
<1>1. /\ Len(s) \in Nat /\ Len(t) \in Nat
      /\ DOMAIN s = 1..Len(s) /\ DOMAIN t = 1..Len(t)
      /\ s \o t \in Bytes /\ DOMAIN (s \o t) = 1..(Len(s) + Len(t))
      /\ \A i \in 1..(Len(s) + Len(t)) : (s \o t)[i] = IF i <= Len(s) THEN s[i] ELSE t[i - Len(s)]
  BY LenProperties, ConcatProperties DEF Bytes
<1>2. \A i \in DOMAIN s : i \in DOMAIN (s \o t) /\ (s \o t)[i] = s[i]
  BY <1>1
<1>3. \A i, j \in DOMAIN s : i < j => s[i] < s[j]
  BY <1>2 DEF Lists
<1>4. ASSUME NEW i \in DOMAIN s, NEW j \in DOMAIN t PROVE s[i] # t[j]
  <2>1. /\ i \in DOMAIN (s \o t) /\ (s \o t)[i] = s[i]
        /\ Len(s) + j \in DOMAIN (s \o t) /\ (s \o t)[Len(s) + j] = t[j]
        /\ i < Len(s) + j
    BY <1>1
  <2>2. s[i] < t[j]
    BY <2>1 DEF Lists
  <2>3. s[i] \in Nat /\ t[j] \in Nat
    BY <1>1, ElementOfSeq DEF Bytes
  <2> QED
    BY <2>2, <2>3
<1>5. Range(s) \cup Range(t) = S
  BY RangeConcatenation DEF Bytes, Lists
<1>6. Range(s) \cap Range(t) = {}
  BY <1>4 DEF Range
<1> QED
  BY <1>3, <1>5, <1>6 DEF Lists

------------------------------------------------------------------------------
\* Control

Results == {"idle", "flight", "done", "failed"}

\* An operation that is not idle is pending, and a registered handle is with the port.
Control ==
  /\ open \in BOOLEAN /\ client \in BOOLEAN /\ last_error_ \in BOOLEAN
  /\ registered \in BOOLEAN /\ associated \in BOOLEAN
  /\ pending \subseteq Kinds /\ port \subseteq Kinds /\ told \subseteq Kinds /\ owed \subseteq Kinds
  /\ conn \in {"listening", "connected", "broken", "disconnected"}
  /\ op \in [Kinds -> Results]
  /\ \A k \in Kinds : op[k] # "idle" => k \in pending
  /\ registered => associated
  /\ FailureTold
  /\ PendingWakes

USE DEF selectorVars

\* Operations in flight come to an end.
LEMMA ControlFinish ==
  ASSUME Control, NEW kinds \in SUBSET Kinds, NEW result \in {"done", "failed"},
         Finish(kinds, result), UNCHANGED <<open, client, pending, last_error_, selectorVars, told>>,
         conn' \in {"listening", "connected", "broken", "disconnected"}
  PROVE  Control'
<1> DEFINE over == {k \in kinds : op[k] = "flight"}
<1>1. /\ op' = [k \in Kinds |-> IF k \in over THEN result ELSE op[k]]
      /\ owed' = IF result = "failed" THEN owed \cup over ELSE owed
      /\ port' = IF associated THEN port \cup over ELSE port
  BY DEF Finish, Posted
<1>2. over \subseteq pending /\ \A k \in over : k \in Kinds /\ op[k] = "flight"
  BY DEF Control
<1> HIDE DEF over
<1>3. op' \in [Kinds -> Results] /\ \A k \in Kinds : op'[k] = IF k \in over THEN result ELSE op[k]
  BY <1>1 DEF Control, Results
<1>4. FailureTold'
  BY <1>1, <1>2, <1>3 DEF Control, FailureTold
<1>5. PendingWakes'
  <2>1. ASSUME registered', NEW k \in pending' PROVE op'[k] = "flight" \/ k \in port' \/ k \in told'
    <3>1. registered /\ k \in pending /\ k \in Kinds /\ associated /\ port' = port \cup over
      BY <1>1, <2>1 DEF Control
    <3>2. op[k] = "flight" \/ k \in port \/ k \in told
      BY <3>1 DEF Control, PendingWakes
    <3>3. CASE op[k] = "flight"
      BY <3>1, <3>3, <1>3
    <3> QED
      BY <3>1, <3>2, <3>3
  <2> QED
    BY <2>1 DEF PendingWakes
<1>6. \A k \in Kinds : op'[k] # "idle" => k \in pending'
  BY <1>2, <1>3 DEF Control
<1> QED
  BY <1>1, <1>2, <1>3, <1>4, <1>5, <1>6 DEF Control

\* A call on an operation that is not over.
LEMMA ControlStillPending ==
  ASSUME Control, NEW k \in Kinds, StillPending(k)
  PROVE  Control'
BY DEF Control, StillPending, WouldBlock, FailureTold, PendingWakes

\* A call that starts an operation.
LEMMA ControlStart ==
  ASSUME Control, NEW k \in Kinds, Start(k), k \in pending => op[k] = "done",
         conn' \in {"listening", "connected", "broken", "disconnected"}
  PROVE  Control'
<1>1. op' \in [Kinds -> Results] /\ op' = [op EXCEPT ![k] = "flight"]
  BY DEF Control, Start, Results
<1>2. \A j \in Kinds : op'[j] = IF j = k THEN "flight" ELSE op[j]
  BY <1>1 DEF Control
<1>3. FailureTold'
  BY <1>2 DEF Control, Start, FailureTold
<1>4. PendingWakes'
  BY <1>2 DEF Control, Start, WouldBlock, PendingWakes
<1> QED
  BY <1>1, <1>2, <1>3, <1>4 DEF Control, Start, WouldBlock

\* A call that ends an operation, in success.
LEMMA ControlOver ==
  ASSUME Control, NEW k \in Kinds, Over(k), UNCHANGED <<owed, conn>>,
         k \in pending => op[k] = "done", last_error_' \in BOOLEAN,
         port' = port \/ Posted({k})
  PROVE  Control'
<1>1. op' \in [Kinds -> Results] /\ op' = [op EXCEPT ![k] = "idle"]
  BY DEF Control, Over, Results
<1>2. \A j \in Kinds : op'[j] = IF j = k THEN "idle" ELSE op[j]
  BY <1>1 DEF Control
<1>3. port \subseteq port' /\ port' \subseteq Kinds
  BY DEF Posted, Control
<1>4. FailureTold'
  BY <1>2 DEF Control, Over, FailureTold
<1>5. PendingWakes'
  BY <1>2, <1>3 DEF Control, Over, PendingWakes
<1> QED
  BY <1>1, <1>2, <1>3, <1>4, <1>5 DEF Control, Over

\* A call that tells a failure.
LEMMA ControlFailed ==
  ASSUME Control, NEW k \in Kinds, Failed(k)
  PROVE  Control'
<1>1. op' \in [Kinds -> Results] /\ op' = [op EXCEPT ![k] = "idle"]
  BY DEF Control, Failed, Over, Results
<1>2. \A j \in Kinds : op'[j] = IF j = k THEN "idle" ELSE op[j]
  BY <1>1 DEF Control
<1>4. FailureTold'
  BY <1>2 DEF Control, Failed, Over, FailureTold
<1>5. PendingWakes'
  BY <1>2 DEF Control, Failed, Over, PendingWakes
<1> QED
  BY <1>1, <1>2, <1>4, <1>5 DEF Control, Failed, Over

\* A step that at most records an error, or posts a packet too many.
LEMMA ControlQuiet ==
  ASSUME Control, UNCHANGED <<open, client, pending, selectorVars, conn, op, told, owed>>,
         last_error_' \in BOOLEAN, NEW k \in Kinds, port' = port \/ Posted({k})
  PROVE  Control'
<1>1. port \subseteq port' /\ port' \subseteq Kinds
  BY DEF Posted, Control
<1> QED
  BY <1>1 DEF Control, FailureTold, PendingWakes

LEMMA ControlPeer ==
  ASSUME Control, Peer
  PROVE  Control'
<1> USE DEF Kinds
<1>1. CASE ClientOpens
  BY <1>1, ControlFinish DEF ClientOpens, objectVars
<1>2. CASE PeerWrites
  BY <1>2, ControlFinish DEF PeerWrites, objectVars, Control
<1>3. CASE PeerReads
  <2>1. CASE outPipe # <<>>
    BY <1>3, <2>1, ControlQuiet DEF PeerReads, objectVars, Control
  <2>2. CASE outPipe = <<>>
    BY <1>3, <2>2, ControlFinish DEF PeerReads, objectVars, Control
  <2> QED
    BY <2>1, <2>2
<1>4. CASE PeerCloses
  BY <1>4, ControlFinish DEF PeerCloses
<1>5. CASE ServerDisconnects
  BY <1>5, ControlFinish DEF ServerDisconnects
<1> QED
  BY <1>1, <1>2, <1>3, <1>4, <1>5 DEF Peer

LEMMA ControlConnect ==
  ASSUME Control, connect
  PROVE  Control'
<1>0. "connect" \in Kinds
  BY DEF Kinds
<1>1. CASE StillPending("connect")
  BY <1>0, <1>1, ControlStillPending
<1>2. CASE Failed("connect")
  BY <1>0, <1>2, ControlFailed
<1>3. CASE /\ "connect" \in pending /\ op["connect"] = "done"
           /\ Over("connect")
           /\ UNCHANGED <<owed, last_error_, port, conn>>
  BY <1>0, <1>3, ControlOver DEF Control
<1>4. CASE /\ "connect" \notin pending /\ conn \in {"listening", "disconnected"}
           /\ conn' = "listening"
           /\ Start("connect")
  BY <1>0, <1>4, ControlStart
<1>5. CASE Refused("connect")
  BY <1>0, <1>5, ControlQuiet DEF Control, Refused
<1> QED
  BY <1>1, <1>2, <1>3, <1>4, <1>5 DEF connect, connect_throws

LEMMA ControlRead ==
  ASSUME Control, NEW size, read(size)
  PROVE  Control'
<1>0. "read" \in Kinds
  BY DEF Kinds
<1>1. CASE UNCHANGED <<open, client, pending, last_error_, selectorVars, port, conn, op, told, owed>>
  BY <1>0, <1>1, ControlQuiet DEF Control
<1>2. CASE StillPending("read")
  BY <1>0, <1>2, ControlStillPending
<1>3. CASE Failed("read")
  BY <1>0, <1>3, ControlFailed
<1>4. CASE /\ "read" \in pending /\ op["read"] = "done"
           /\ Over("read")
           /\ UNCHANGED <<owed, last_error_, port, conn>>
  BY <1>0, <1>4, ControlOver DEF Control
<1>5. CASE /\ Posted({"read"})
           /\ UNCHANGED <<open, client, pending, last_error_, selectorVars, conn, op, told, owed>>
  BY <1>0, <1>5, ControlQuiet DEF Control
<1>6. CASE /\ "read" \notin pending /\ Start("read") /\ UNCHANGED conn
  BY <1>0, <1>6, ControlStart DEF Control
<1>7. CASE Refused("read")
  BY <1>0, <1>7, ControlQuiet DEF Control, Refused
<1> QED
  BY Zenon, <1>1, <1>2, <1>3, <1>4, <1>5, <1>6, <1>7 DEF read

LEMMA ControlWrite ==
  ASSUME Control, NEW size, write(size)
  PROVE  Control'
<1>0. "write" \in Kinds
  BY DEF Kinds
<1>1. CASE StillPending("write")
  BY <1>0, <1>1, ControlStillPending
<1>2. CASE Failed("write")
  BY <1>0, <1>2, ControlFailed
<1>3. CASE /\ "write" \in pending => op["write"] = "done"
           /\ WriteFile(size) \/ NoMemory
           /\ UNCHANGED <<owed, conn>>
  <2>1. CASE Over("write") /\ Posted({"write"}) /\ UNCHANGED last_error_
    BY <1>0, <1>3, <2>1, ControlOver DEF Control
  <2>2. CASE Start("write")
    BY <1>0, <1>3, <2>2, ControlStart DEF Control
  <2>3. CASE Over("write") /\ last_error_' = TRUE /\ UNCHANGED port
    BY <1>0, <1>3, <2>3, ControlOver DEF Control
  <2>4. CASE Over("write") /\ UNCHANGED <<last_error_, port>>
    BY <1>0, <1>3, <2>4, ControlOver DEF Control
  <2> QED
    BY Zenon, <1>3, <2>1, <2>2, <2>3, <2>4 DEF WriteFile, NoMemory
<1> QED
  BY <1>1, <1>2, <1>3 DEF write

LEMMA ControlOthers ==
  ASSUME Control,
         create \/ open_client \/ disconnect \/ take_error \/ Move \/ close \/ RegisterHandle \/ DeregisterHandle \/ PollReport
  PROVE  Control'
<1>0. "connect" \in Kinds
  BY DEF Kinds
<1>1. CASE create \/ open_client
  <2>1. CASE create
    BY <2>1 DEF create, Control, FailureTold, PendingWakes
  <2>2. CASE open_client
    BY <2>2 DEF open_client, Control, FailureTold, PendingWakes
  <2> QED
    BY <1>1, <2>1, <2>2
<1>2. CASE disconnect
  BY <1>2, ControlFinish DEF disconnect
<1>3. CASE take_error \/ Move
  BY Zenon, <1>0, <1>3, ControlQuiet DEF take_error, Move
<1>4. CASE close
  BY Zenon, <1>4 DEF close, Control, FailureTold, PendingWakes, Results
<1>5. CASE RegisterHandle
  BY <1>5 DEF RegisterHandle, objectVars, Control, FailureTold, PendingWakes
<1>6. CASE DeregisterHandle
  BY Zenon, <1>6 DEF DeregisterHandle, objectVars, Control, FailureTold, PendingWakes
<1>7. CASE PollReport
  <2>1. port' \subseteq port /\ told' = IF registered THEN pending ELSE told
    BY <1>7 DEF PollReport
  <2> QED
    BY <1>7, <2>1 DEF PollReport, objectVars, Control, FailureTold, PendingWakes
<1> QED
  BY <1>1, <1>2, <1>3, <1>4, <1>5, <1>6, <1>7

\* The control of the three operations, whatever the program, the peer and the
\* kernel do.
LEMMA ControlInvariant == Spec => []Control
<1>1. Init => Control
  BY Zenon DEF Init, Control, FailureTold, PendingWakes, Results
<1>2. Control /\ [Next]_vars => Control'
  <2> SUFFICES ASSUME Control, [Next]_vars PROVE Control'
    OBVIOUS
  <2>1. CASE UNCHANGED vars
    BY <2>1 DEF vars, objectVars, Control, FailureTold, PendingWakes
  <2>2. CASE Next
    BY <2>2, ControlPeer, ControlConnect, ControlRead, ControlWrite, ControlOthers DEF Next
  <2> QED
    BY <2>1, <2>2
<1> QED
  BY <1>1, <1>2, PTL DEF Spec

\* No failure of an operation in flight is forgotten: it stays pending, and failed,
\* until a call of its kind tells it (complete_read_locked, complete_write_locked).
THEOREM FailuresTold == Spec => []FailureTold
BY ControlInvariant, PTL DEF Control

\* A registered pipe never waits for an event that cannot come: what is pending is in
\* flight, has its packet in the port, or has been followed by an Event.
THEOREM PendingOperationsWake == Spec => []PendingWakes
BY ControlInvariant, PTL DEF Control

------------------------------------------------------------------------------
\* The bytes towards the program

\* A read is in flight only while the pipe is empty, and what a read in flight got is
\* there only until a call of read copies it.
Reads ==
  /\ got \in Bytes /\ read_buffer_ \in Bytes /\ landed \in Bytes /\ inPipe \in Bytes
  /\ Len(read_buffer_) <= BufferSize /\ Len(landed) <= BufferSize
  /\ sent \in 0..MaxSent /\ lost \subseteq 1..sent
  /\ op["read"] = "flight" => inPipe = <<>>
  /\ landed # <<>> => op["read"] = "done"
  /\ ReadConserves

LEMMA Joined ==
  ASSUME NEW s \in Bytes, NEW t \in Bytes
  PROVE  s \o t \in Bytes
BY ConcatProperties DEF Bytes

LEMMA Regrouped ==
  ASSUME NEW s \in Bytes, NEW t \in Bytes, NEW u \in Bytes
  PROVE  (s \o t) \o u = s \o (t \o u)
<1>1. s \in Seq(Nat) /\ t \in Seq(Nat) /\ u \in Seq(Nat)
  BY DEF Bytes
<1> QED
  BY ONLY <1>1, ConcatAssociative, SMTT(60)

LEMMA RangeJoined ==
  ASSUME NEW s \in Bytes, NEW t \in Bytes
  PROVE  Range(s \o t) = Range(s) \cup Range(t)
BY RangeConcatenation DEF Bytes

LEMMA NoBytes == <<>> \in Bytes /\ Len(<<>>) = 0 /\ \A s \in Bytes : s \o <<>> = s /\ <<>> \o s = s
BY EmptySeq, ConcatEmptySeq DEF Bytes

LEMMA ReadsQuiet ==
  ASSUME Reads, UNCHANGED readVars,
         op'["read"] = "flight" => inPipe = <<>>,
         landed # <<>> => op'["read"] = "done"
  PROVE  Reads'
BY DEF Reads, readVars, ReadConserves, Incoming

\* copy_ready gives the caller a first part and keeps the rest.
LEMMA CopyReady ==
  ASSUME got \in Bytes, NEW bytes \in Bytes, NEW size \in Nat, copy_ready(bytes, size)
  PROVE  /\ got' \in Bytes /\ read_buffer_' \in Bytes
         /\ Len(read_buffer_') <= Len(bytes)
         /\ got' \o read_buffer_' = got \o bytes
<1>1. got' = got \o Take(bytes, size) /\ read_buffer_' = Drop(bytes, size)
  BY DEF copy_ready
<1>2. /\ Take(bytes, size) \in Bytes /\ Drop(bytes, size) \in Bytes
      /\ Len(Drop(bytes, size)) = Len(bytes) - Smaller(size, Len(bytes))
      /\ Take(bytes, size) \o Drop(bytes, size) = bytes
  BY TakeDrop
<1>3. Len(bytes) \in Nat
  BY LenProperties DEF Bytes
<1>4. Len(Drop(bytes, size)) <= Len(bytes)
  BY <1>2, <1>3 DEF Smaller
<1>5. (got \o Take(bytes, size)) \o Drop(bytes, size) = got \o (Take(bytes, size) \o Drop(bytes, size))
  BY ONLY Zenon, <1>2, got \in Bytes, Regrouped
<1>6. got \o Take(bytes, size) \in Bytes
  BY <1>2, ConcatProperties DEF Bytes
<1> QED
  BY <1>1, <1>2, <1>4, <1>5, <1>6

\* read takes from its buffer, from the read that is over, or from the pipe.
LEMMA ReadsRead ==
  ASSUME Control, Reads, NEW size \in Nat, read(size)
  PROVE  Reads'
<1>0. "read" \in Kinds /\ UNCHANGED <<sent, lost>> /\ BufferSize \in Nat \ {0}
  BY PipeAssumption DEF Kinds, read
<1>1. CASE copy_ready(read_buffer_, size) /\ UNCHANGED <<op, landed, inPipe>>
  <2>1. got' \in Bytes /\ read_buffer_' \in Bytes /\ got' \o read_buffer_' = got \o read_buffer_
        /\ Len(read_buffer_') <= Len(read_buffer_)
    BY Zenon, <1>1, CopyReady DEF Reads
  <2>2. Len(read_buffer_') \in Nat /\ Len(read_buffer_) \in Nat
    BY <2>1, LenProperties DEF Bytes, Reads
  <2>3. Incoming' = Incoming
    BY <1>1, <2>1 DEF Incoming
  <2> QED
    BY <1>0, <1>1, <2>1, <2>2, <2>3 DEF Reads, ReadConserves
<1>2. CASE (StillPending("read") \/ Failed("read")) /\ UNCHANGED <<read_buffer_, got, landed, inPipe>>
  <2>1. landed # <<>> => op["read"] = "done"
    BY DEF Reads
  <2>2. landed # <<>> => FALSE
    BY <1>2, <2>1 DEF StillPending, Failed
  <2>3. op'["read"] = "flight" => op["read"] = "flight"
    BY <1>0, <1>2 DEF StillPending, Failed, Over, Control
  <2> QED
    BY <1>0, <1>2, <2>2, <2>3, ReadsQuiet DEF readVars, Reads
<1>3. CASE /\ read_buffer_ = <<>> /\ op["read"] = "done"
           /\ copy_ready(landed, size) /\ landed' = <<>>
           /\ Over("read") /\ UNCHANGED inPipe
  <2>1. got' \in Bytes /\ read_buffer_' \in Bytes /\ got' \o read_buffer_' = got \o landed
        /\ Len(read_buffer_') <= Len(landed)
    BY Zenon, <1>3, CopyReady DEF Reads
  <2>2. Len(read_buffer_') \in Nat /\ Len(landed) \in Nat
    BY <2>1, LenProperties DEF Bytes, Reads
  <2>3. got \o landed \in Bytes
    BY ConcatProperties DEF Bytes, Reads
  <2>4. Incoming' = Incoming
    BY <1>3, <2>1, <2>3, NoBytes DEF Incoming, Reads
  <2>5. op'["read"] = "idle"
    BY <1>0, <1>3 DEF Over, Control
  <2> QED
    BY <1>0, <1>3, <2>1, <2>2, <2>4, <2>5, NoBytes DEF Reads, ReadConserves
<1>4. CASE /\ read_buffer_ = <<>> /\ "read" \notin pending
           /\ ReadFile(size) /\ UNCHANGED <<op, landed>>
  <2> DEFINE now == Take(inPipe, BufferSize)
             later == Drop(inPipe, BufferSize)
  <2>1. op["read"] = "idle" /\ landed = <<>>
    BY <1>0, <1>4 DEF Control, Reads
  <2>2. /\ now \in Bytes /\ later \in Bytes /\ now \o later = inPipe
        /\ Len(now) = Smaller(BufferSize, Len(inPipe))
    BY <1>0, TakeDrop DEF Reads
  <2>3. copy_ready(now, size) /\ inPipe' = later
    BY <1>4 DEF ReadFile
  <2> HIDE DEF now, later
  <2>4. got' \in Bytes /\ read_buffer_' \in Bytes /\ got' \o read_buffer_' = got \o now
        /\ Len(read_buffer_') <= Len(now)
    BY Zenon, <2>2, <2>3, CopyReady DEF Reads
  <2>5. Len(read_buffer_') \in Nat /\ Len(now) \in Nat /\ Len(inPipe) \in Nat
    BY <2>2, <2>4, LenProperties DEF Bytes, Reads
  <2>6. Len(read_buffer_') <= BufferSize
    BY <1>0, <2>2, <2>4, <2>5 DEF Smaller
  <2>7. got \o now \in Bytes /\ (got \o now) \o later = got \o inPipe
    <3>1. got \in Bytes
      BY DEF Reads
    <3>2. got \o now \in Bytes
      BY <2>2, <3>1, Joined
    <3>3. (got \o now) \o later = got \o (now \o later)
      BY ONLY Zenon, <2>2, <3>1, Regrouped
    <3> QED
      BY <2>2, <3>2, <3>3
  <2>8. Incoming' = got \o inPipe
    BY Zenon, <1>4, <2>1, <2>3, <2>4, <2>7, NoBytes DEF Incoming
  <2>9. Incoming = got \o inPipe
    BY <1>4, <2>1, NoBytes DEF Incoming, Reads
  <2> QED
    BY <1>0, <1>4, <2>1, <2>2, <2>3, <2>4, <2>6, <2>8, <2>9 DEF Reads, ReadConserves
<1>5. CASE /\ "read" \notin pending /\ inPipe = <<>>
           /\ Start("read") /\ UNCHANGED <<read_buffer_, got, landed, inPipe>>
  <2>1. landed = <<>>
    BY <1>0, <1>5 DEF Control, Reads
  <2> QED
    BY <1>0, <1>5, <2>1, ReadsQuiet DEF readVars
<1>6. CASE Refused("read") /\ UNCHANGED <<read_buffer_, got, landed, inPipe>>
  BY <1>0, <1>6, ReadsQuiet DEF readVars, Refused, Reads
<1> QED
  BY Zenon, <1>1, <1>2, <1>3, <1>4, <1>5, <1>6 DEF read

\* What the peer sends goes to the read in flight as far as it fits, else to the pipe.
LEMMA ReadsPeerWrites ==
  ASSUME Control, Reads, PeerWrites
  PROVE  Reads'
<1>0. /\ "read" \in Kinds /\ BufferSize \in Nat \ {0} /\ sent \in Nat /\ MaxSent \in Nat
      /\ UNCHANGED <<got, read_buffer_, lost>>
  BY PipeAssumption DEF Kinds, Reads, PeerWrites, objectVars
<1> DEFINE now == IF op["read"] = "flight" THEN BufferSize ELSE 0
<1>1. PICK n \in 1..(MaxSent - sent) :
        /\ sent' = sent + n
        /\ landed' = landed \o Take(Numbers(sent, sent + n), now)
        /\ inPipe' = inPipe \o Drop(Numbers(sent, sent + n), now)
  BY Zenon DEF PeerWrites
<1>2. n \in Nat /\ now \in Nat /\ sent' \in 0..MaxSent /\ 1..sent \subseteq 1..sent'
  BY <1>0, <1>1
<1> DEFINE bytes == Numbers(sent, sent + n)
           first == Take(bytes, now)
           rest == Drop(bytes, now)
<1>3. bytes \in Bytes /\ Len(bytes) = n /\ Lists(bytes, (sent + 1)..(sent + n))
  BY Zenon, <1>0, <1>2, NumbersList
<1>4. /\ first \in Bytes /\ rest \in Bytes /\ first \o rest = bytes
      /\ Len(first) = Smaller(now, Len(bytes))
  BY Zenon, <1>2, <1>3, TakeDrop
<1>5. op'["read"] = IF op["read"] = "flight" THEN "done" ELSE op["read"]
  BY <1>0 DEF PeerWrites, Finish
<1>6. landed' = landed \o first /\ inPipe' = inPipe \o rest
  BY <1>1
<1>7. /\ op["read"] = "flight" => inPipe = <<>> /\ landed = <<>> /\ Len(first) <= BufferSize
      /\ op["read"] # "flight" => Len(first) = 0
  BY <1>0, <1>2, <1>3, <1>4 DEF Reads, Smaller
<1> HIDE DEF now, bytes, first, rest
<1>8. /\ landed' \in Bytes /\ inPipe' \in Bytes
      /\ Len(landed') <= BufferSize
      /\ landed' # <<>> => op'["read"] = "done"
      /\ landed' \o inPipe' = (landed \o inPipe) \o bytes
  <2>1. CASE op["read"] = "flight"
    <3>1. landed' = first /\ inPipe' = rest /\ landed \o inPipe = <<>>
      BY Zenon, <1>4, <1>6, <1>7, <2>1, NoBytes
    <3> QED
      BY Zenon, <1>3, <1>4, <1>5, <1>7, <2>1, <3>1, NoBytes
  <2>2. CASE op["read"] # "flight"
    <3>1. first = <<>>
      BY <1>4, <1>7, <2>2, EmptySeq DEF Bytes
    <3>2. rest = bytes
      BY <1>4, <3>1, NoBytes
    <3>3. landed' = landed /\ inPipe' = inPipe \o bytes
      BY <1>6, <3>1, <3>2, NoBytes DEF Reads
    <3>4. inPipe' \in Bytes /\ (landed \o inPipe) \o bytes = landed \o (inPipe \o bytes)
      <4>1. landed \in Bytes /\ inPipe \in Bytes /\ bytes \in Bytes
        BY <1>3 DEF Reads
      <4>2. inPipe \o bytes \in Bytes
        BY ONLY <4>1, Joined
      <4>3. (landed \o inPipe) \o bytes = landed \o (inPipe \o bytes)
        BY ONLY <4>1, Regrouped
      <4> QED
        BY <3>3, <4>2, <4>3
    <3> QED
      BY <1>5, <2>2, <3>3, <3>4 DEF Reads
  <2> QED
    BY <2>1, <2>2
<1>9. Incoming' = Incoming \o bytes
  <2> DEFINE g == got \o read_buffer_
  <2>1. g \in Bytes /\ landed \in Bytes /\ inPipe \in Bytes
    BY Joined DEF Reads
  <2>2. Incoming = (g \o landed) \o inPipe /\ Incoming' = (g \o landed') \o inPipe'
    BY <1>0 DEF Incoming
  <2> HIDE DEF g
  <2>3. landed \o inPipe \in Bytes
    BY <2>1, Joined
  <2>6. (g \o landed) \o inPipe = g \o (landed \o inPipe)
    BY ONLY <2>1, Regrouped
  <2>4. (g \o landed') \o inPipe' = g \o (landed' \o inPipe')
    <3>1. g \in Bytes /\ landed' \in Bytes /\ inPipe' \in Bytes
      BY <1>8, <2>1
    <3> QED
      BY ONLY <3>1, Regrouped
  <2>5. (g \o (landed \o inPipe)) \o bytes = g \o ((landed \o inPipe) \o bytes)
    <3>1. g \in Bytes /\ landed \o inPipe \in Bytes /\ bytes \in Bytes
      BY <1>3, <2>1, <2>3
    <3> QED
      BY ONLY Zenon, <3>1, Regrouped
  <2> QED
    BY Zenon, <1>8, <2>2, <2>4, <2>5, <2>6
<1>10. ReadConserves'
  <2>1. Incoming \in Bytes
    BY Joined DEF Incoming, Reads
  <2>2. \A a \in (1..sent) \ lost, b \in (sent + 1)..(sent + n) : a < b
    BY <1>0, <1>2
  <2>3. Lists(Incoming \o bytes, ((1..sent) \ lost) \cup ((sent + 1)..(sent + n)))
    BY <1>3, <2>1, <2>2, ListsConcat DEF Reads, ReadConserves
  <2>4. ((1..sent) \ lost) \cup ((sent + 1)..(sent + n)) = (1..(sent + n)) \ lost
    BY <1>0, <1>2 DEF Reads
  <2> QED
    BY Zenon, <1>0, <1>1, <1>9, <2>3, <2>4 DEF ReadConserves
<1>11. op'["read"] = "flight" => inPipe' = <<>>
  BY <1>5
<1> QED
  BY Zenon, <1>0, <1>2, <1>8, <1>10, <1>11 DEF Reads

\* disconnect, here or at the server, discards what is still in the pipe.
LEMMA ReadsDisconnect ==
  ASSUME Control, Reads, disconnect \/ ServerDisconnects
  PROVE  Reads'
<1>1. /\ lost' = lost \cup Range(inPipe) /\ inPipe' = <<>>
      /\ UNCHANGED <<read_buffer_, landed, sent, got>>
  BY DEF disconnect, ServerDisconnects
<1>2. "read" \in Kinds /\ op'["read"] = IF op["read"] = "flight" THEN "failed" ELSE op["read"]
  BY DEF Kinds, disconnect, ServerDisconnects, Finish
<1> DEFINE kept == (got \o read_buffer_) \o landed
<1>3. kept \in Bytes /\ Incoming = kept \o inPipe
  BY Joined DEF Reads, Incoming
<1>4. Incoming' = kept
  BY <1>1, <1>3, NoBytes DEF Incoming
<1> HIDE DEF kept
<1>5. Lists(kept, ((1..sent) \ lost) \ Range(inPipe))
  BY <1>3, ListsPrefix DEF Reads, ReadConserves
<1>6. ((1..sent) \ lost) \ Range(inPipe) = (1..sent') \ lost'
  BY <1>1
<1>7. ReadConserves'
  BY <1>4, <1>5, <1>6 DEF ReadConserves
<1>8. Range(inPipe) \subseteq 1..sent
  <2>1. Range(Incoming) = Range(kept) \cup Range(inPipe)
    BY <1>3, RangeConcatenation DEF Bytes, Reads
  <2> QED
    BY <2>1 DEF Reads, ReadConserves, Lists
<1> QED
  BY Zenon, <1>1, <1>2, <1>7, <1>8, NoBytes DEF Reads

\* The other steps leave the bytes alone, and fail a read in flight at most.
LEMMA ReadsOthers ==
  ASSUME Control, Reads, UNCHANGED readVars,
         \/ op' = op
         \/ \E kinds \in SUBSET Kinds, result \in {"done", "failed"} :
              Finish(kinds, result) /\ ("read" \in kinds => result = "failed")
         \/ \E k \in {"connect", "write"} : Start(k) \/ Over(k)
         \/ StillPending("connect") \/ StillPending("write")
         \/ Failed("connect") \/ Failed("write") \/ Refused("connect")
  PROVE  Reads'
<1>0. "read" \in Kinds
  BY DEF Kinds
<1>1. op'["read"] = op["read"] \/ (op["read"] = "flight" /\ op'["read"] = "failed")
  BY Zenon, <1>0 DEF Finish, Start, Over, StillPending, Failed, Refused, Control
<1> QED
  BY <1>1, ReadsQuiet DEF Reads

LEMMA ReadsStep ==
  ASSUME Control, Reads, [Next]_vars
  PROVE  Reads'
<1> USE DEF Kinds
<1>1. CASE ClientOpens
  BY <1>1, ReadsOthers DEF ClientOpens, objectVars, readVars
<1>2. CASE PeerWrites
  BY <1>2, ReadsPeerWrites
<1>3. CASE PeerReads
  BY <1>3, ReadsOthers DEF PeerReads, objectVars, readVars
<1>4. CASE PeerCloses
  BY <1>4, ReadsOthers DEF PeerCloses
<1>5. CASE create \/ open_client \/ take_error \/ Move
  BY <1>5, ReadsOthers DEF create, open_client, take_error, Move
<1>6. CASE connect
  BY <1>6, ReadsOthers DEF connect, connect_throws
<1>7. CASE disconnect \/ ServerDisconnects
  BY <1>7, ReadsDisconnect
<1>8. CASE close
  <2>1. /\ got' = <<>> /\ read_buffer_' = <<>> /\ landed' = <<>> /\ inPipe' = <<>>
        /\ sent' = 0 /\ lost' = {}
    BY <1>8 DEF close
  <2>2. Incoming' = <<>>
    BY <2>1, NoBytes DEF Incoming
  <2>3. ReadConserves'
    BY <2>1, <2>2 DEF ReadConserves, Lists, Range
  <2> QED
    BY <2>1, <2>3, NoBytes, PipeAssumption DEF Reads
<1>9. ASSUME NEW size \in Sizes, read(size) PROVE Reads'
  BY <1>9, ReadsRead, PipeAssumption
<1>10. ASSUME NEW size \in Sizes, write(size) PROVE Reads'
  BY Zenon, <1>10, ReadsOthers DEF write, WriteFile, NoMemory, StillPending, Failed
<1>11. CASE RegisterHandle \/ DeregisterHandle \/ PollReport
  BY <1>11, ReadsOthers DEF RegisterHandle, DeregisterHandle, PollReport, objectVars, readVars
<1>12. CASE UNCHANGED vars
  BY <1>12, ReadsOthers DEF vars, objectVars, readVars
<1> QED
  BY <1>1, <1>2, <1>3, <1>4, <1>5, <1>6, <1>7, <1>8, <1>9, <1>10, <1>11, <1>12 DEF Next, Peer

LEMMA ReadsInvariant == Spec => []Reads
<1>1. Init => Reads
  <2> SUFFICES ASSUME Init PROVE Reads
    OBVIOUS
  <2>1. /\ got = <<>> /\ read_buffer_ = <<>> /\ landed = <<>> /\ inPipe = <<>>
        /\ sent = 0 /\ lost = {}
    BY DEF Init
  <2>2. Incoming = <<>>
    BY <2>1, NoBytes DEF Incoming
  <2>3. ReadConserves
    BY <2>1, <2>2 DEF ReadConserves, Lists, Range
  <2> QED
    BY <2>1, <2>3, NoBytes, PipeAssumption DEF Reads
<1>2. Control /\ Reads /\ [Next]_vars => Reads'
  BY ReadsStep
<1> QED
  BY <1>1, <1>2, ControlInvariant, PTL DEF Spec

\* Every byte the peer sent is returned by read once and in order, unless a disconnect
\* discarded it, for any sizes of reads, buffer and pipe.
THEOREM ReadsConserve == Spec => []ReadConserves
BY ReadsInvariant, PTL DEF Reads

------------------------------------------------------------------------------
\* The bytes towards the peer

Writes ==
  /\ received \in Bytes /\ outPipe \in Bytes /\ write_buffer_ \in Bytes
  /\ written \in 0..MaxWritten /\ dropped \cup clipped \subseteq 1..written
  /\ Range(write_buffer_) \subseteq 1..written
  /\ WriteConserves

\* The bytes the peer has or will get.
Kept == (1..written) \ (dropped \cup clipped)

LEMMA OutgoingParts ==
  ASSUME Writes
  PROVE  /\ InFlight \in Bytes /\ received \o outPipe \in Bytes
         /\ Outgoing = (received \o outPipe) \o InFlight
         /\ Range(received) \cup Range(outPipe) \cup Range(InFlight) = Kept
<1>1. received \in Bytes /\ outPipe \in Bytes /\ InFlight \in Bytes
  BY NoBytes, TakeDrop, PipeAssumption DEF InFlight, Writes
<1>2. received \o outPipe \in Bytes
  BY <1>1, Joined
<1>3. Outgoing = (received \o outPipe) \o InFlight
  BY DEF Outgoing
<1>4. Range((received \o outPipe) \o InFlight) = Range(received \o outPipe) \cup Range(InFlight)
  BY ONLY <1>1, <1>2, RangeJoined
<1>5. Range(received \o outPipe) = Range(received) \cup Range(outPipe)
  BY ONLY <1>1, RangeJoined
<1>6. Range(Outgoing) = Kept
  BY DEF Writes, WriteConserves, Lists, Kept
<1> QED
  BY <1>1, <1>2, <1>3, <1>4, <1>5, <1>6

LEMMA WritesQuiet ==
  ASSUME Writes, UNCHANGED writeVars, op'["write"] = "flight" <=> op["write"] = "flight"
  PROVE  Writes'
BY DEF Writes, writeVars, WriteConserves, Outgoing, InFlight

\* The peer is cut off: it has what it has received.
LEMMA WritesCutOff ==
  ASSUME Control, Writes, CutOff, op'["write"] # "flight"
  PROVE  Writes'
<1>1. /\ dropped' = dropped \cup Range(outPipe) \cup Range(InFlight)
      /\ outPipe' = <<>> /\ UNCHANGED <<write_buffer_, written, clipped, received>>
  BY DEF CutOff
<1>2. /\ InFlight \in Bytes /\ received \o outPipe \in Bytes
      /\ Outgoing = (received \o outPipe) \o InFlight
      /\ Range(received) \cup Range(outPipe) \cup Range(InFlight) = Kept
  BY OutgoingParts
<1>3. Lists(received \o outPipe, Kept \ Range(InFlight))
  BY <1>2, ListsPrefix DEF Writes, WriteConserves, Kept
<1>4. Lists(received, (Kept \ Range(InFlight)) \ Range(outPipe))
  BY <1>3, ListsPrefix DEF Writes
<1>5. (Kept \ Range(InFlight)) \ Range(outPipe) = (1..written') \ (dropped' \cup clipped')
  BY <1>1 DEF Kept
<1>6. Outgoing' = received
  BY <1>1, NoBytes DEF Outgoing, InFlight, Writes
<1>7. WriteConserves'
  BY Zenon, <1>1, <1>4, <1>5, <1>6 DEF WriteConserves, Writes
<1> QED
  BY Zenon, <1>1, <1>2, <1>7, NoBytes DEF Writes, Kept

\* The peer reads the pipe's buffer first, then the buffer of the write in flight.
LEMMA WritesPeerReads ==
  ASSUME Control, Writes, PeerReads
  PROVE  Writes'
<1>0. "write" \in Kinds /\ UNCHANGED <<write_buffer_, written, dropped, clipped>>
  BY DEF Kinds, PeerReads, objectVars
<1>1. CASE outPipe # <<>>
  <2>1. received' = Append(received, Head(outPipe)) /\ outPipe' = Tail(outPipe) /\ op' = op
    BY <1>1 DEF PeerReads
  <2>2. Head(outPipe) \in Nat /\ Tail(outPipe) \in Bytes
    BY <1>1, HeadTailProperties DEF Writes, Bytes
  <2>3. <<Head(outPipe)>> \in Bytes /\ received' = received \o <<Head(outPipe)>>
    BY <2>1, <2>2, AppendIsConcat DEF Writes, Bytes
  <2>4. <<Head(outPipe)>> \o Tail(outPipe) = outPipe
    BY <1>1 DEF Writes, Bytes
  <2>5. received' \in Bytes /\ received' \o outPipe' = received \o (<<Head(outPipe)>> \o Tail(outPipe))
    <3>1. received \in Bytes /\ <<Head(outPipe)>> \in Bytes /\ Tail(outPipe) \in Bytes
      BY <2>2, <2>3 DEF Writes
    <3>2. received \o <<Head(outPipe)>> \in Bytes
      BY ONLY <3>1, Joined
    <3>3. (received \o <<Head(outPipe)>>) \o Tail(outPipe) = received \o (<<Head(outPipe)>> \o Tail(outPipe))
      BY ONLY Zenon, <3>1, Regrouped
    <3> QED
      BY Zenon, <2>1, <2>3, <3>2, <3>3
  <2>6. Outgoing' = Outgoing
    BY Zenon, <1>0, <2>1, <2>4, <2>5 DEF Outgoing, InFlight
  <2> QED
    BY <1>0, <2>1, <2>2, <2>5, <2>6 DEF Writes, WriteConserves
<1>2. CASE outPipe = <<>>
  <2>1. /\ op["write"] = "flight" /\ received' = received \o InFlight /\ outPipe' = <<>>
        /\ Finish({"write"}, "done")
    BY <1>2 DEF PeerReads
  <2>2. op'["write"] = "done"
    BY <1>0, <2>1 DEF Finish
  <2>3. received' \in Bytes
    BY <2>1, OutgoingParts, Joined DEF Writes
  <2>4. Outgoing' = received' /\ Outgoing = received \o InFlight
    <3>1. InFlight' = <<>>
      BY <2>2 DEF InFlight
    <3> QED
      BY <1>2, <2>1, <2>3, <3>1, NoBytes DEF Outgoing, Writes
  <2> QED
    BY <1>0, <2>1, <2>3, <2>4, NoBytes DEF Writes, WriteConserves
<1> QED
  BY <1>1, <1>2

\* The first bytes of those that follow the first a.
LEMMA TakeNumbers ==
  ASSUME NEW a \in Nat, NEW n \in Nat, NEW max \in Nat
  PROVE  Lists(Take(Numbers(a, a + n), max), (a + 1)..(a + Smaller(max, n)))
<1> DEFINE m == Smaller(max, n)
<1>1. m \in Nat /\ m <= n
  BY DEF Smaller
<1>2. PICK s : s = Numbers(a, a + n)
  BY Zenon
<1>3. PICK u : u = Numbers(a, a + m)
  BY Zenon
<1> HIDE DEF m
<1>4. s \in Bytes /\ Len(s) = n /\ u \in Bytes /\ Len(u) = m /\ Lists(u, (a + 1)..(a + m))
  BY Zenon, <1>1, <1>2, <1>3, NumbersList
<1>5. (\A i \in 1..n : s[i] = a + i) /\ (\A i \in 1..m : u[i] = a + i)
  <2>1. (a + n) - a = n /\ (a + m) - a = m
    BY <1>1
  <2> QED
    BY <1>2, <1>3, <2>1 DEF Numbers
<1>6. Take(s, max) = SubSeq(s, 1, m)
  BY <1>4 DEF Take, m
<1>7. SubSeq(s, 1, m) = u
  <2>0. s \in Seq(Nat) /\ m \in Nat /\ m <= Len(s)
    BY <1>1, <1>4 DEF Bytes
  <2>1. /\ SubSeq(s, 1, m) \in Seq(Nat) /\ Len(SubSeq(s, 1, m)) = m
        /\ \A i \in 1..m : SubSeq(s, 1, m)[i] = s[i]
    <3>1. SubSeq(s, 1, m) \in Seq(Nat)
      BY <2>0
    <3>2. Len(SubSeq(s, 1, m)) = m
      BY <2>0
    <3>3. \A i \in 1..m : SubSeq(s, 1, m)[i] = s[i]
      BY <2>0
    <3> QED
      BY Zenon, <3>1, <3>2, <3>3
  <2>2. \A i \in 1..m : SubSeq(s, 1, m)[i] = u[i]
    BY <1>1, <1>5, <2>1
  <2> QED
    BY <1>4, <2>1, <2>2, SeqEqual DEF Bytes
<1> QED
  BY Zenon, <1>2, <1>4, <1>6, <1>7 DEF m

\* Nothing of what write took is lost when it takes more: nothing is in flight then.
LEMMA WritesWrite ==
  ASSUME Control, Writes, NEW size \in Sizes, write(size)
  PROVE  Writes'
<1>0. /\ "write" \in Kinds /\ size \in Nat /\ DwordMax \in Nat
      /\ written \in Nat /\ MaxWritten \in Nat
      /\ written + size <= MaxWritten /\ UNCHANGED <<dropped, received>>
  BY PipeAssumption DEF Kinds, Writes, write
<1>1. CASE StillPending("write") /\ UNCHANGED <<write_buffer_, outPipe, written, clipped>>
  BY <1>0, <1>1, WritesQuiet DEF StillPending, writeVars
<1>2. CASE /\ Failed("write") /\ write_buffer_' = <<>> /\ UNCHANGED <<outPipe, written, clipped>>
  <2>1. op["write"] # "flight" /\ op'["write"] # "flight"
    BY <1>0, <1>2 DEF Failed, Over, Control
  <2>2. Outgoing' = Outgoing
    BY <1>0, <1>2, <2>1 DEF Outgoing, InFlight
  <2> QED
    BY <1>0, <1>2, <2>2, NoBytes DEF Writes, WriteConserves, Range
<1>3. CASE /\ "write" \in pending => op["write"] = "done"
           /\ WriteFile(size) \/ NoMemory
  <2> DEFINE bytes == Numbers(written, written + size)
             taken == Take(bytes, DwordMax)
             rest == Drop(bytes, DwordMax)
  <2>1. bytes \in Bytes /\ Len(bytes) = size /\ Lists(bytes, (written + 1)..(written + size))
    BY Zenon, <1>0, NumbersList
  <2>2. /\ taken \in Bytes /\ rest \in Bytes /\ taken \o rest = bytes
        /\ Len(taken) = Smaller(DwordMax, size) /\ Len(rest) = size - Smaller(DwordMax, size)
    BY Zenon, <1>0, <2>1, TakeDrop
  <2>3. op["write"] # "flight"
    BY <1>0, <1>3 DEF Control
  <2>4. received \o outPipe \in Bytes /\ Lists(received \o outPipe, Kept)
    BY <2>3, NoBytes, Joined DEF Outgoing, InFlight, Writes, WriteConserves, Kept
  <2>5. op \in [Kinds -> Results]
    BY DEF Control
  <2>6. Lists(taken, (written + 1)..(written + Len(taken)))
    BY Zenon, <1>0, <2>2, TakeNumbers
  <2>7. /\ Lists(taken, ((written + 1)..(written + size)) \ Range(rest))
        /\ Range(rest) \subseteq (written + 1)..(written + size)
    <3>1. Lists(taken \o rest, (written + 1)..(written + size))
      BY Zenon, <2>1, <2>2
    <3>2. Range(taken \o rest) = Range(taken) \cup Range(rest)
      BY Zenon, <2>2, RangeJoined
    <3> HIDE DEF bytes, taken, rest
    <3>3. Lists(taken, ((written + 1)..(written + size)) \ Range(rest))
      BY Zenon, <2>2, <3>1, ListsPrefix
    <3> QED
      BY Zenon, <3>1, <3>2, <3>3 DEF Lists
  <2>8. Len(taken) \in Nat /\ Len(taken) <= size
    BY <1>0, <2>2 DEF Smaller
  <2> HIDE DEF bytes, taken, rest
  <2>9. CASE /\ outPipe' = outPipe \o taken /\ written' = written + Len(taken)
             /\ write_buffer_' = <<>> /\ Over("write") /\ UNCHANGED clipped
    <3>1. op'["write"] # "flight"
      BY <1>0, <2>5, <2>9 DEF Over
    <3>2. outPipe' \in Bytes /\ received \o outPipe' \in Bytes
          /\ received \o outPipe' = (received \o outPipe) \o taken
      <4>1. received \in Bytes /\ outPipe \in Bytes /\ taken \in Bytes
        BY <2>2 DEF Writes
      <4>2. outPipe \o taken \in Bytes
        BY ONLY <4>1, Joined
      <4>4. (received \o outPipe) \o taken = received \o (outPipe \o taken)
        BY ONLY <4>1, Regrouped
      <4>3. received \o (outPipe \o taken) \in Bytes
        BY ONLY <4>1, <4>2, Joined
      <4> QED
        BY <2>9, <4>2, <4>3, <4>4
    <3>3. Outgoing' = (received \o outPipe) \o taken
      BY <1>0, <3>1, <3>2, NoBytes DEF Outgoing, InFlight
    <3>4. \A a \in Kept, b \in (written + 1)..(written + Len(taken)) : a < b
      BY <1>0, <2>8 DEF Kept
    <3>5. Lists((received \o outPipe) \o taken, Kept \cup ((written + 1)..(written + Len(taken))))
      BY Zenon, <2>2, <2>4, <2>6, <3>4, ListsConcat
    <3>6. Kept \cup ((written + 1)..(written + Len(taken))) = (1..written') \ (dropped' \cup clipped')
      BY <1>0, <2>8, <2>9 DEF Kept, Writes
    <3>7. WriteConserves'
      BY Zenon, <2>9, <3>3, <3>5, <3>6 DEF WriteConserves, Writes
    <3>8. written' \in 0..MaxWritten /\ 1..written \subseteq 1..written'
      BY <1>0, <2>8, <2>9
    <3> QED
      BY SMTT(20), <1>0, <2>9, <3>2, <3>7, <3>8, NoBytes DEF Writes, Range
  <2>10. CASE /\ written' = written + size /\ write_buffer_' = bytes
              /\ clipped' = clipped \cup Range(rest)
              /\ Start("write") /\ UNCHANGED outPipe
    <3>1. op'["write"] = "flight"
      BY <1>0, <2>5, <2>10 DEF Start
    <3>2. Outgoing' = (received \o outPipe) \o taken
      BY <1>0, <2>10, <3>1 DEF Outgoing, InFlight, taken
    <3>3. \A a \in Kept, b \in ((written + 1)..(written + size)) \ Range(rest) : a < b
      BY <1>0 DEF Kept
    <3>4. Lists((received \o outPipe) \o taken, Kept \cup (((written + 1)..(written + size)) \ Range(rest)))
      BY Zenon, <2>2, <2>4, <2>7, <3>3, ListsConcat
    <3>5. Kept \cup (((written + 1)..(written + size)) \ Range(rest)) = (1..written') \ (dropped' \cup clipped')
      BY <1>0, <2>7, <2>10 DEF Kept, Writes
    <3>6. (\A n \in Sizes : n <= DwordMax) => clipped' = {}
      <4>1. size <= DwordMax => Len(rest) = 0
        BY <1>0, <2>2 DEF Smaller
      <4>2. Len(rest) = 0 => Range(rest) = {}
        BY <2>2, EmptySeq DEF Bytes, Range
      <4> QED
        BY <2>10, <4>1, <4>2 DEF Writes, WriteConserves
    <3>7. WriteConserves'
      BY Zenon, <3>2, <3>4, <3>5, <3>6 DEF WriteConserves
    <3>8. written' \in 0..MaxWritten /\ 1..written \subseteq 1..written'
      BY <1>0, <2>10
    <3>9. Range(bytes) \subseteq 1..written' /\ Range(rest) \subseteq 1..written'
      BY <1>0, <2>1, <2>7, <2>10 DEF Lists
    <3> QED
      BY <1>0, <2>1, <2>10, <3>7, <3>8, <3>9 DEF Writes
  <2>11. CASE /\ write_buffer_' = <<>> /\ Over("write") /\ UNCHANGED <<outPipe, written, clipped>>
    <3>1. op'["write"] # "flight"
      BY <1>0, <2>5, <2>11 DEF Over
    <3>2. Outgoing' = received \o outPipe
      BY <1>0, <2>4, <2>11, <3>1, NoBytes DEF Outgoing, InFlight
    <3> QED
      BY <1>0, <2>4, <2>11, <3>2, NoBytes DEF Writes, WriteConserves, Kept, Range
  <2> QED
    BY Zenon, <1>3, <2>9, <2>10, <2>11 DEF WriteFile, NoMemory, bytes, taken, rest
<1> QED
  BY <1>1, <1>2, <1>3 DEF write

LEMMA WritesStep ==
  ASSUME Control, Writes, [Next]_vars
  PROVE  Writes'
<1> USE DEF Kinds
<1>1. CASE ClientOpens
  BY <1>1, WritesQuiet DEF ClientOpens, Finish, objectVars, writeVars
<1>2. CASE PeerWrites
  BY <1>2, WritesQuiet DEF PeerWrites, Finish, objectVars, writeVars
<1>3. CASE PeerReads
  BY <1>3, WritesPeerReads
<1>4. CASE PeerCloses
  BY <1>4, WritesCutOff DEF PeerCloses, Finish
<1>5. CASE create \/ open_client \/ take_error \/ Move
  BY <1>5, WritesQuiet DEF create, open_client, take_error, Move
<1>6. CASE connect
  <2>1. op'["write"] = op["write"]
    BY Zenon, <1>6 DEF connect, connect_throws, StillPending, Failed, Refused, Over, Start, Control
  <2> QED
    BY <1>6, <2>1, WritesQuiet DEF connect
<1>7. CASE disconnect \/ ServerDisconnects
  BY <1>7, WritesCutOff DEF disconnect, ServerDisconnects, Finish
<1>8. CASE close
  <2>1. /\ received' = <<>> /\ outPipe' = <<>> /\ write_buffer_' = <<>>
        /\ written' = 0 /\ dropped' = {} /\ clipped' = {} /\ op' = [k \in Kinds |-> "idle"]
    BY <1>8 DEF close
  <2>2. Outgoing' = <<>>
    BY <2>1, NoBytes DEF Outgoing, InFlight
  <2>3. WriteConserves'
    BY <2>1, <2>2 DEF WriteConserves, Lists, Range
  <2> QED
    BY <2>1, <2>3, NoBytes, PipeAssumption DEF Writes, Range
<1>9. ASSUME NEW size \in Sizes, read(size) PROVE Writes'
  <2>1. op'["write"] = op["write"]
    BY Zenon, <1>9 DEF read, StillPending, Failed, Over, Start, Refused, Control
  <2> QED
    BY <1>9, <2>1, WritesQuiet DEF read
<1>10. ASSUME NEW size \in Sizes, write(size) PROVE Writes'
  BY <1>10, WritesWrite
<1>11. CASE RegisterHandle \/ DeregisterHandle \/ PollReport
  BY <1>11, WritesQuiet DEF RegisterHandle, DeregisterHandle, PollReport, objectVars, writeVars
<1>12. CASE UNCHANGED vars
  BY <1>12, WritesQuiet DEF vars, objectVars, writeVars
<1> QED
  BY <1>1, <1>2, <1>3, <1>4, <1>5, <1>6, <1>7, <1>8, <1>9, <1>10, <1>11, <1>12 DEF Next, Peer

LEMMA WritesInvariant == Spec => []Writes
<1>1. Init => Writes
  <2> SUFFICES ASSUME Init PROVE Writes
    OBVIOUS
  <2>1. /\ received = <<>> /\ outPipe = <<>> /\ write_buffer_ = <<>>
        /\ written = 0 /\ dropped = {} /\ clipped = {} /\ op = [k \in Kinds |-> "idle"]
    BY DEF Init
  <2>2. Outgoing = <<>>
    BY <2>1, NoBytes DEF Outgoing, InFlight, Kinds
  <2>3. WriteConserves
    BY <2>1, <2>2 DEF WriteConserves, Lists, Range
  <2> QED
    BY <2>1, <2>3, NoBytes, PipeAssumption DEF Writes, Range
<1>2. Control /\ Writes /\ [Next]_vars => Writes'
  BY WritesStep
<1> QED
  BY <1>1, <1>2, ControlInvariant, PTL DEF Spec

\* Every byte write said it took is received once and in order, unless the connection
\* broke or the byte was past the DWORD of a write that pended, for any sizes of
\* writes, pipe and DWORD: a write in flight keeps its buffer, and no other write
\* starts beside it.
THEOREM WritesConserve == Spec => []WriteConserves
BY WritesInvariant, PTL DEF Writes

------------------------------------------------------------------------------
\* The three invariants together give every variable its type: in particular no read,
\* in flight or at once, puts more into read_buffer_ than it holds.
THEOREM TypeCorrect == Spec => []TypeOK
<1>1. ASSUME Control, Reads, Writes PROVE TypeOK
  <2>1. {open, client, last_error_, registered, associated} \subseteq BOOLEAN
    BY <1>1 DEF Control
  <2>2. (UNION {Range(s) : s \in {read_buffer_, landed, inPipe, got}}) \cup lost \subseteq 1..sent
    <3>1. got \in Bytes /\ read_buffer_ \in Bytes /\ landed \in Bytes /\ inPipe \in Bytes
      BY <1>1 DEF Reads
    <3>2. got \o read_buffer_ \in Bytes /\ Range(got \o read_buffer_) = Range(got) \cup Range(read_buffer_)
      BY ONLY <3>1, Joined, RangeJoined
    <3>3. /\ got \o read_buffer_ \o landed \in Bytes
          /\ Range(got \o read_buffer_ \o landed) = Range(got \o read_buffer_) \cup Range(landed)
      BY ONLY Zenon, <3>1, <3>2, Joined, RangeJoined
    <3>4. Range(got \o read_buffer_ \o landed \o inPipe) = Range(got \o read_buffer_ \o landed) \cup Range(inPipe)
      BY ONLY <3>1, <3>3, RangeJoined
    <3>5. Range(got \o read_buffer_ \o landed \o inPipe) \subseteq 1..sent /\ lost \subseteq 1..sent
      BY <1>1 DEF Reads, ReadConserves, Lists, Incoming
    <3>6. /\ Range(got) \subseteq 1..sent /\ Range(read_buffer_) \subseteq 1..sent
          /\ Range(landed) \subseteq 1..sent /\ Range(inPipe) \subseteq 1..sent
      BY ONLY <3>2, <3>3, <3>4, <3>5
    <3>7. ASSUME NEW s \in {read_buffer_, landed, inPipe, got} PROVE Range(s) \subseteq 1..sent
      BY ONLY <3>6, s \in {read_buffer_, landed, inPipe, got}
    <3>8. ASSUME NEW b \in UNION {Range(s) : s \in {read_buffer_, landed, inPipe, got}} PROVE b \in 1..sent
      BY <3>7
    <3> QED
      BY ONLY Zenon, <3>5, <3>8
  <2>3. (UNION {Range(s) : s \in {write_buffer_, outPipe, received}}) \cup dropped \cup clipped \subseteq 1..written
    <3>1. /\ dropped \cup clipped \subseteq 1..written /\ Range(write_buffer_) \subseteq 1..written
          /\ Range(outPipe) \subseteq 1..written /\ Range(received) \subseteq 1..written
      BY <1>1, OutgoingParts DEF Writes, Kept
    <3>2. ASSUME NEW s \in {write_buffer_, outPipe, received} PROVE Range(s) \subseteq 1..written
      BY ONLY <3>1, s \in {write_buffer_, outPipe, received}
    <3>3. ASSUME NEW b \in UNION {Range(s) : s \in {write_buffer_, outPipe, received}} PROVE b \in 1..written
      BY <3>2
    <3> QED
      BY ONLY Zenon, <3>1, <3>3
  <2> QED
    BY <1>1, <2>1, <2>2, <2>3 DEF TypeOK, Control, Results, Reads, Writes
<1> QED
  BY <1>1, ControlInvariant, ReadsInvariant, WritesInvariant, PTL

=============================================================================
