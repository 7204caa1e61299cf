------------------------- MODULE AfdSelectorProofs -------------------------
(***************************************************************************)
(* Proofs about AfdSelector, for any number of sockets, threads and        *)
(* AfdSocketStates.  Three invariants rest on one another: the types, what *)
(* a Registry call in progress may rely on, and the one operation of an    *)
(* AfdSocketState.  AfdSourceProofs builds on them.                        *)
(***************************************************************************)
EXTENDS AfdSelector, TLAPS

------------------------------------------------------------------------------
\* The invariants

FlightSet(ids) == SUBSET [state : ids, request : SUBSET AfdPollFlags, file : Nat, cancel : BOOLEAN]

QueueSet(ids) == Seq([kind : {"afd"}, state : ids, file : Nat] \cup [kind : {"packet"}, token : Tokens])

\* The parts of TypeOK.
KernelTyped ==
  /\ afd \in Seq(AfdSocketState)
  /\ flight \in FlightSet(Ids) /\ queue \in QueueSet(Ids)

OthersTyped ==
  /\ careful \in BOOLEAN /\ failed \in BOOLEAN
  /\ waker \in Tokens \cup {NoToken}
  /\ ppc \in {"idle", "get", "reissue"} /\ current \in Nat
  /\ events \in Seq(PushedEvent)
  /\ open \in [Sockets -> BOOLEAN] /\ gen \in [Sockets -> Nat]
  /\ level \in [Sockets -> SUBSET AfdPollFlags]
  /\ faults \in 0..MaxFaults

CallsTyped ==
  /\ registrations_ \in [Sockets -> Entry \cup {NoReg}]
  /\ op \in [Threads -> Op \cup {NoOp}]

Reissued == ppc = "reissue" => current \in Ids

Typed == KernelTyped /\ OthersTyped /\ CallsTyped /\ Reissued

\* An AfdSocketState made for the socket.
StateOf(h, n) == n \in Ids /\ afd[n].socket = h

\* What a call in progress knows about the entry of its socket and its state.
CallOK(t) ==
  LET o == op[t]
      r == registrations_[o.socket]
  IN /\ open[o.socket]
     /\ r = NoReg <=> o.step = "remove_cancel"
     /\ o.step = "add_state" => r.state = 0
     /\ o.step \in {"add_issue", "update_set", "update_issue", "remove_cancel"} => StateOf(o.socket, o.state)
     /\ o.step \in {"add_issue", "update_set", "update_issue"} => r.state = o.state

\* An entry has its state, except while an add is making it or has failed to.
EntryOK(h) ==
  LET r == registrations_[h]
  IN \/ StateOf(h, r.state)
     \/ r.state = 0 /\ \E t \in Threads : op[t].step \in {"add_state", "add_undo"} /\ op[t].socket = h

Calls ==
  /\ \A t, u \in Threads : t # u /\ op[t] # NoOp /\ op[u] # NoOp => op[t].socket # op[u].socket
  /\ \A t \in Threads : op[t] # NoOp => CallOK(t)
  /\ \A h \in Sockets : registrations_[h] # NoReg => EntryOK(h)

Running(n) == \E f \in flight : f.state = n

Queued(i, n) == i \in DOMAIN queue /\ queue[i].kind = "afd" /\ queue[i].state = n

\* OneOperation, for the polls in flight and those on the port.
Single ==
  /\ \A f, g \in flight : f.state = g.state => f = g
  /\ \A n \in Ids : \A i, j \in DOMAIN queue : Queued(i, n) /\ Queued(j, n) => i = j
  /\ \A n \in Ids : ~(Running(n) /\ \E i \in DOMAIN queue : Queued(i, n))
  /\ \A n \in Ids : afd[n].status # "idle" <=> Running(n) \/ \E i \in DOMAIN queue : Queued(i, n)

------------------------------------------------------------------------------
\* Sequences

LEMMA SeqLen ==
  ASSUME NEW S, NEW s \in Seq(S)
  PROVE  Len(s) \in Nat /\ s \in [1..Len(s) -> S] /\ DOMAIN s = 1..Len(s)
OBVIOUS

LEMMA SeqElement ==
  ASSUME NEW S, NEW s \in Seq(S), NEW i \in 1..Len(s)
  PROVE  s[i] \in S
OBVIOUS

LEMMA SeqWider ==
  ASSUME NEW S, NEW T, S \subseteq T, NEW s \in Seq(S)
  PROVE  s \in Seq(T)
OBVIOUS

LEMMA SeqEmpty ==
  ASSUME NEW S
  PROVE  << >> \in Seq(S) /\ Len(<< >>) = 0 /\ \A s \in Seq(S) : s # << >> => Len(s) \in Nat \ {0}
OBVIOUS

LEMMA SeqReplace ==
  ASSUME NEW S, NEW s \in Seq(S), NEW i \in 1..Len(s), NEW e \in S
  PROVE  /\ [s EXCEPT ![i] = e] \in Seq(S) /\ Len([s EXCEPT ![i] = e]) = Len(s)
         /\ \A j \in 1..Len(s) : [s EXCEPT ![i] = e][j] = IF j = i THEN e ELSE s[j]
OBVIOUS

LEMMA SeqRest ==
  ASSUME NEW S, NEW s \in Seq(S), s # << >>
  PROVE  /\ Head(s) \in S /\ Tail(s) \in Seq(S) /\ Len(Tail(s)) = Len(s) - 1
         /\ \A i \in 1..Len(Tail(s)) : Tail(s)[i] = s[i + 1]
OBVIOUS

LEMMA SeqAppend ==
  ASSUME NEW S, NEW s \in Seq(S), NEW e \in S
  PROVE  /\ Append(s, e) \in Seq(S) /\ Len(Append(s, e)) = Len(s) + 1
         /\ \A i \in 1..Len(s) : Append(s, e)[i] = s[i]
         /\ Append(s, e)[Len(s) + 1] = e
OBVIOUS

------------------------------------------------------------------------------
\* AfdSocketStates

\* One state is replaced.
Update(n, s) == afd' = [afd EXCEPT ![n] = s]

LEMMA UpdateOne ==
  ASSUME afd \in Seq(AfdSocketState), NEW n \in Ids, NEW s \in AfdSocketState, Update(n, s)
  PROVE  /\ afd' \in Seq(AfdSocketState) /\ Len(afd') = Len(afd) /\ Ids' = Ids
         /\ \A m \in Ids : afd'[m] = IF m = n THEN s ELSE afd[m]
BY SeqReplace DEF Update, Ids

LEMMA StateType ==
  ASSUME afd \in Seq(AfdSocketState), NEW n \in Ids
  PROVE  afd[n] \in AfdSocketState
BY SeqElement DEF Ids

\* At most the state n has changed, it is for the same socket as before, and a state
\* that waits for its deletion goes on doing so.
Changed(n) ==
  /\ afd' \in Seq(AfdSocketState) /\ Len(afd') = Len(afd) /\ Ids' = Ids
  /\ \A m \in Ids \ {n} : afd'[m] = afd[m]
  /\ afd'[n].socket = afd[n].socket /\ afd'[n].file = afd[n].file
  /\ afd[n].delete_pending => afd'[n].delete_pending

LEMMA UpdateChanged ==
  ASSUME afd \in Seq(AfdSocketState), NEW n \in Ids, NEW s \in AfdSocketState, Update(n, s),
         s.socket = afd[n].socket, s.file = afd[n].file, afd[n].delete_pending => s.delete_pending
  PROVE  Changed(n) /\ afd'[n] = s
BY UpdateOne DEF Changed

Submitted(s) ==
  [s EXCEPT !.iosb = "pending", !.status = "pending", !.pending_events = s.user_events, !.dropped = FALSE]

Request(n) ==
  [state |-> n, request |-> afd[n].user_events, file |-> gen[afd[n].socket], cancel |-> FALSE]

\* issue_afd_poll starts a poll.
LEMMA SubmitEffect ==
  ASSUME afd \in Seq(AfdSocketState), NEW n \in Ids, Submit(n)
  PROVE  /\ open[afd[n].socket] /\ flight' = flight \cup {Request(n)}
         /\ Changed(n) /\ afd'[n].status = "pending"
         /\ afd'[n].user_events = afd[n].user_events /\ afd'[n].pending_events = afd[n].user_events
<1>1. afd[n] \in AfdSocketState
  BY StateType
<1>2. /\ Submitted(afd[n]) \in AfdSocketState
      /\ Submitted(afd[n]).socket = afd[n].socket /\ Submitted(afd[n]).file = afd[n].file
      /\ Submitted(afd[n]).delete_pending = afd[n].delete_pending
      /\ Submitted(afd[n]).status = "pending"
      /\ Submitted(afd[n]).user_events = afd[n].user_events
      /\ Submitted(afd[n]).pending_events = afd[n].user_events
  BY Zenon, <1>1 DEF Submitted, AfdSocketState
<1>3. Update(n, Submitted(afd[n]))
  BY DEF Submit, Update, Submitted
<1>4. Changed(n) /\ afd'[n] = Submitted(afd[n])
  BY <1>2, <1>3, UpdateChanged
<1> QED
  BY <1>2, <1>4 DEF Submit, Request

Widened(s) == [s EXCEPT !.status = "cancelled", !.pending_events = {}, !.dropped = FALSE]

\* issue_afd_poll starts none: it cancels the poll that asks for too little, or
\* leaves everything as it is.
LEMMA IssueElseEffect ==
  ASSUME afd \in Seq(AfdSocketState), NEW n \in Ids, IssueElse(n)
  PROVE  /\ ~WantsPoll(n)
         /\ \/ WantsMore(n) /\ Cancel(n) /\ Changed(n) /\ afd'[n].status = "cancelled"
            \/ ~WantsMore(n) /\ UNCHANGED <<flight, afd>>
<1>1. afd[n] \in AfdSocketState
  BY StateType
<1>2. /\ Widened(afd[n]) \in AfdSocketState
      /\ Widened(afd[n]).socket = afd[n].socket /\ Widened(afd[n]).file = afd[n].file
      /\ Widened(afd[n]).delete_pending = afd[n].delete_pending
      /\ Widened(afd[n]).status = "cancelled"
  BY Zenon, <1>1 DEF Widened, AfdSocketState
<1>3. Update(n, Widened(afd[n])) => Changed(n) /\ afd'[n] = Widened(afd[n])
  BY <1>2, UpdateChanged
<1>4. \/ WantsMore(n) /\ Cancel(n) /\ Update(n, Widened(afd[n]))
      \/ ~WantsMore(n) /\ UNCHANGED <<flight, afd>>
  BY DEF IssueElse, Update, Widened
<1> QED
  BY <1>2, <1>3, <1>4 DEF IssueElse

\* issue_afd_poll throws.
LEMMA IssueThrowsEffect ==
  ASSUME afd \in Seq(AfdSocketState), NEW n \in Ids, IssueThrows(n)
  PROVE  /\ Changed(n) /\ UNCHANGED flight
         /\ afd'[n].status = afd[n].status /\ afd'[n].dropped
         /\ ~afd[n].delete_pending /\ ~afd'[n].delete_pending
         /\ (~open[afd[n].socket] /\ UNCHANGED faults /\ WantsPoll(n)) \/ Fault
<1>1. afd[n] \in AfdSocketState
  BY StateType
<1>2. PICK s \in {[afd[n] EXCEPT !.iosb = "pending", !.dropped = TRUE], [afd[n] EXCEPT !.dropped = TRUE]} :
        Update(n, s)
  BY DEF IssueThrows, SubmitFails, Update
<1>3. /\ s \in AfdSocketState /\ s.socket = afd[n].socket /\ s.file = afd[n].file
      /\ s.delete_pending = afd[n].delete_pending
      /\ s.status = afd[n].status /\ s.dropped
  BY Zenon, <1>1 DEF AfdSocketState
<1>4. Changed(n) /\ afd'[n] = s
  BY <1>2, <1>3, UpdateChanged
<1>5. ~afd[n].delete_pending
  BY DEF IssueThrows, WantsPoll, WantsMore
<1> QED
  BY <1>3, <1>4, <1>5 DEF IssueThrows, SubmitFails

\* Retired keeps what anyone still reads.
LEMMA RetiredKeeps ==
  ASSUME NEW s \in AfdSocketState
  PROVE  /\ Retired(s) \in AfdSocketState
         /\ Retired(s).socket = s.socket /\ Retired(s).file = s.file
         /\ Retired(s).status = s.status /\ Retired(s).delete_pending = s.delete_pending
         /\ ~s.delete_pending => Retired(s) = s
BY Zenon DEF Retired, Consumed, AfdSocketState

\* The kernel ends a poll.
LEMMA FinishEffect ==
  ASSUME afd \in Seq(AfdSocketState), NEW f \in flight, f.state \in Ids,
         NEW iosb \in {"success", "cancelled", "failed"},
         NEW revents \in SUBSET (AfdPollFlags \cup {"local_close"}), Finish(f, iosb, revents)
  PROVE  /\ Changed(f.state)
         /\ afd'[f.state].status = afd[f.state].status
         /\ afd'[f.state].delete_pending = afd[f.state].delete_pending
         /\ ~afd[f.state].delete_pending =>
              /\ afd'[f.state].user_events = afd[f.state].user_events
              /\ afd'[f.state].pending_events = afd[f.state].pending_events
              /\ afd'[f.state].dropped = afd[f.state].dropped
<1> DEFINE n == f.state
           s == [afd[n] EXCEPT !.iosb = iosb, !.revents = revents]
<1>1. afd[n] \in AfdSocketState
  BY StateType
<1>2. /\ s \in AfdSocketState /\ s.socket = afd[n].socket /\ s.file = afd[n].file
      /\ s.status = afd[n].status /\ s.delete_pending = afd[n].delete_pending
      /\ s.user_events = afd[n].user_events /\ s.pending_events = afd[n].pending_events
      /\ s.dropped = afd[n].dropped
  BY Zenon, <1>1 DEF AfdSocketState
<1>3. Update(n, Retired(s))
  BY DEF Finish, Update
<1> HIDE DEF s, n
<1>4. Changed(n) /\ afd'[n] = Retired(s)
  BY <1>2, <1>3, RetiredKeeps, UpdateChanged DEF n
<1> QED
  BY <1>2, <1>4, RetiredKeeps DEF n

\* set_afd_interest changes the token and what is asked for.
LEMMA UpdateSetEffect ==
  ASSUME afd \in Seq(AfdSocketState), NEW t, op[t].state \in Ids, op[t].token \in Tokens,
         interests_to_afd_flags(op[t].interests) \in SUBSET AfdPollFlags, UpdateSet(t)
  PROVE  /\ Changed(op[t].state)
         /\ afd'[op[t].state].status = afd[op[t].state].status
         /\ afd'[op[t].state].delete_pending = afd[op[t].state].delete_pending
         /\ ~afd[op[t].state].delete_pending =>
              afd'[op[t].state].user_events = interests_to_afd_flags(op[t].interests)
<1> DEFINE n == op[t].state
           flags == interests_to_afd_flags(op[t].interests)
           s == [afd[n] EXCEPT !.token = op[t].token, !.user_events = flags]
<1>1. afd[n] \in AfdSocketState
  BY StateType
<1>3. Update(n, Retired(s))
  BY DEF UpdateSet, Update
<1> HIDE DEF flags
<1>2. /\ s \in AfdSocketState /\ s.socket = afd[n].socket /\ s.file = afd[n].file
      /\ s.status = afd[n].status /\ s.delete_pending = afd[n].delete_pending
      /\ s.user_events = flags
  BY Zenon, <1>1 DEF AfdSocketState, flags
<1> HIDE DEF s, n
<1>4. Changed(n) /\ afd'[n] = Retired(s)
  BY <1>2, <1>3, RetiredKeeps, UpdateChanged DEF n
<1> QED
  BY Zenon, <1>2, <1>4, RetiredKeeps DEF n, flags

\* remove marks the state, and cancels its poll when there is one it can cancel.
LEMMA RemoveCancelEffect ==
  ASSUME afd \in Seq(AfdSocketState), NEW t, op[t].state \in Ids, RemoveCancel(t)
  PROVE  /\ Changed(op[t].state) /\ afd'[op[t].state].delete_pending
         /\ afd'[op[t].state].status = "idle" <=> afd[op[t].state].status = "idle"
         /\ Cancel(op[t].state) \/ UNCHANGED flight
<1> DEFINE n == op[t].state
           s1 == [afd[n] EXCEPT !.delete_pending = TRUE, !.status = "cancelled"]
           s2 == [afd[n] EXCEPT !.delete_pending = TRUE]
<1>1. afd[n] \in AfdSocketState
  BY StateType
<1>2. /\ s1 \in AfdSocketState /\ s1.socket = afd[n].socket /\ s1.file = afd[n].file
      /\ s1.status = "cancelled" /\ s1.delete_pending
  BY Zenon, <1>1 DEF AfdSocketState
<1>3. /\ s2 \in AfdSocketState /\ s2.socket = afd[n].socket /\ s2.file = afd[n].file
      /\ s2.status = afd[n].status /\ s2.delete_pending
  BY Zenon, <1>1 DEF AfdSocketState
<1>4. \/ afd[n].status = "pending" /\ Update(n, Retired(s1)) /\ Cancel(n)
      \/ Update(n, Retired(s2)) /\ UNCHANGED flight
  BY DEF RemoveCancel, Update
<1> HIDE DEF s1, s2, n
<1>5. CASE afd[n].status = "pending" /\ Update(n, Retired(s1)) /\ Cancel(n)
  <2>1. Changed(n) /\ afd'[n] = Retired(s1)
    BY <1>2, <1>5, RetiredKeeps, UpdateChanged DEF n
  <2> QED
    BY <1>2, <1>5, <2>1, RetiredKeeps DEF n
<1>6. CASE Update(n, Retired(s2)) /\ UNCHANGED flight
  <2>1. Changed(n) /\ afd'[n] = Retired(s2)
    BY <1>3, <1>6, RetiredKeeps, UpdateChanged DEF n
  <2> QED
    BY <1>3, <1>6, <2>1, RetiredKeeps DEF n
<1> QED
  BY <1>4, <1>5, <1>6

Pushed(n, file, emitted) ==
  [state |-> n, token |-> afd[n].token, event |-> AfdEvent(emitted), file |-> file, owner |-> afd[n].file]

\* complete_afd_operation makes the state idle.  It goes on to issue_afd_poll unless
\* the state is to be deleted or has nothing left to ask for.
LEMMA CompleteEffect ==
  ASSUME afd \in Seq(AfdSocketState), Head(queue).state \in Ids, CompleteAfd
  PROVE  LET n == Head(queue).state
         IN /\ Changed(n) /\ afd'[n].status = "idle"
            /\ \/ /\ ppc' = "reissue" /\ current' = n
                  /\ ~afd[n].delete_pending /\ ~afd'[n].delete_pending
               \/ /\ UNCHANGED <<ppc, current>>
                  /\ afd'[n].delete_pending \/ afd'[n].user_events = {}
            /\ \/ UNCHANGED events
               \/ /\ ~afd[n].delete_pending
                  /\ \E emitted \in SUBSET AfdPollFlags :
                       events' = Append(events, Pushed(n, Head(queue).file, emitted))
            /\ afd'[n].delete_pending => UNCHANGED events
            /\ ~afd'[n].delete_pending =>
                 /\ afd'[n].dropped = afd[n].dropped
                 /\ \/ UNCHANGED events /\ afd'[n].user_events = afd[n].user_events
                    \/ \E emitted \in SUBSET AfdPollFlags :
                         /\ events' = Append(events, Pushed(n, Head(queue).file, emitted))
                         /\ afd'[n].user_events = afd[n].user_events \ emitted
<1> DEFINE q == Head(queue)
           n == q.state
           s == [afd[n] EXCEPT !.status = "idle", !.pending_events = {}]
           emitted == CompletedFlags(s) \cap s.user_events
           more == ~s.delete_pending /\ "local_close" \notin CompletedFlags(s)
           left == IF more THEN s.user_events \ emitted ELSE s.user_events
           r == [Consumed(s) EXCEPT !.delete_pending = ~more, !.user_events = left]
<1>0. afd[n] \in AfdSocketState
  BY StateType
<1>1. /\ s \in AfdSocketState /\ s.socket = afd[n].socket /\ s.file = afd[n].file
      /\ s.token = afd[n].token /\ s.delete_pending = afd[n].delete_pending
      /\ s.user_events \in SUBSET AfdPollFlags /\ s.status = "idle"
      /\ s.user_events = afd[n].user_events /\ s.dropped = afd[n].dropped
  BY Zenon, <1>0 DEF AfdSocketState
<1>2. /\ Update(n, Retired(r))
      /\ events' = IF more /\ emitted # {}
                   THEN Append(events, [state |-> n, token |-> s.token,
                                        event |-> AfdEvent(emitted), file |-> q.file, owner |-> s.file])
                   ELSE events
      /\ IF more /\ left # {} THEN ppc' = "reissue" /\ current' = n ELSE UNCHANGED <<ppc, current>>
  BY Zenon DEF CompleteAfd, Update
<1> HIDE DEF s
<1>3. emitted \in SUBSET AfdPollFlags /\ left \in SUBSET AfdPollFlags /\ more \in BOOLEAN
  BY Zenon, <1>1
<1>4. more => ~afd[n].delete_pending /\ left = afd[n].user_events \ emitted
  BY <1>1
<1> HIDE DEF emitted, more, left
<1>5. Consumed(s) \in AfdSocketState /\ Consumed(s).socket = s.socket /\ Consumed(s).file = s.file
      /\ Consumed(s).status = "idle" /\ Consumed(s).dropped = s.dropped
  BY Zenon, <1>1 DEF Consumed, AfdSocketState
<1>6. /\ r \in AfdSocketState /\ r.socket = s.socket /\ r.file = s.file
      /\ r.status = "idle" /\ (r.delete_pending <=> ~more) /\ r.user_events = left
      /\ r.dropped = s.dropped
  BY Zenon, <1>3, <1>5 DEF AfdSocketState
<1> HIDE DEF r, n
<1>11. /\ Retired(r) \in AfdSocketState /\ Retired(r).socket = r.socket /\ Retired(r).file = r.file
       /\ Retired(r).status = "idle"
  BY <1>6, RetiredKeeps
<1>12. Retired(r).delete_pending <=> ~more
  BY <1>6, RetiredKeeps
<1>13. more => Retired(r).user_events = left /\ Retired(r).dropped = r.dropped
  BY <1>6, RetiredKeeps
<1>7. Changed(n) /\ afd'[n] = Retired(r)
  BY SMTT(20), <1>1, <1>2, <1>4, <1>6, <1>11, <1>12, UpdateChanged DEF n
<1>8. /\ afd'[n].status = "idle" /\ (afd'[n].delete_pending <=> ~more)
      /\ more => afd'[n].user_events = left /\ afd'[n].dropped = r.dropped
  BY <1>7, <1>11, <1>12, <1>13
<1>9. \/ UNCHANGED events
      \/ /\ ~afd[n].delete_pending
         /\ \E e \in SUBSET AfdPollFlags : events' = Append(events, Pushed(n, q.file, e))
  BY <1>1, <1>2, <1>3, <1>4 DEF Pushed
<1>10. \/ /\ ppc' = "reissue" /\ current' = n
          /\ ~afd[n].delete_pending /\ ~afd'[n].delete_pending
       \/ /\ UNCHANGED <<ppc, current>>
          /\ afd'[n].delete_pending \/ afd'[n].user_events = {}
  BY <1>2, <1>3, <1>4, <1>8
<1>14. afd'[n].delete_pending => UNCHANGED events
  BY Zenon, <1>2, <1>8
<1>15. ~afd'[n].delete_pending =>
         /\ afd'[n].dropped = afd[n].dropped
         /\ \/ UNCHANGED events /\ afd'[n].user_events = afd[n].user_events
            \/ \E e \in SUBSET AfdPollFlags :
                 /\ events' = Append(events, Pushed(n, q.file, e))
                 /\ afd'[n].user_events = afd[n].user_events \ e
  <2>1. CASE emitted = {}
    BY Zenon, <1>1, <1>2, <1>4, <1>6, <1>8, <2>1
  <2>2. CASE emitted # {}
    BY Zenon, <1>1, <1>2, <1>3, <1>4, <1>6, <1>8, <2>2 DEF Pushed
  <2> QED
    BY <2>1, <2>2
<1> QED
  BY Zenon, <1>7, <1>8, <1>9, <1>10, <1>14, <1>15 DEF n

------------------------------------------------------------------------------
\* Types and calls

LEMMA OpFacts ==
  ASSUME CallsTyped, NEW t \in Threads
  PROVE  /\ op[t] # NoOp <=> op[t].step # "idle"
         /\ op[t].step # "idle" => op[t] \in Op
BY DEF CallsTyped, Op, NoOp, Steps

\* A step that leaves the calls, the map and the sockets of the states alone.
LEMMA CallsKept ==
  ASSUME Calls, UNCHANGED <<registrations_, op, open>>, Ids \subseteq Ids',
         \A n \in Ids : afd'[n].socket = afd[n].socket
  PROVE  Calls'
BY DEF Calls, CallOK, EntryOK, StateOf

LEMMA ChangedKeepsCalls ==
  ASSUME Calls, UNCHANGED <<registrations_, op, open>>, NEW n \in Ids, Changed(n)
  PROVE  Calls'
<1>1. Ids' = Ids /\ \A m \in Ids : afd'[m].socket = afd[m].socket
  BY DEF Changed
<1> QED
  BY <1>1, CallsKept

\* Requests name what AFD knows.
LEMMA FlagsType ==
  ASSUME NEW interests
  PROVE  interests_to_afd_flags(interests) \in SUBSET AfdPollFlags
BY DEF interests_to_afd_flags, When, AfdPollFlags, afd_readable_flags, afd_read_closed_flags, afd_error_flags,
       afd_writable_flags, afd_write_closed_flags

LEMMA AfdEventType ==
  ASSUME NEW flags
  PROVE  AfdEvent(flags) \in [readiness : SUBSET Kinds, error : BOOLEAN, read_closed : BOOLEAN, write_closed : BOOLEAN]
BY DEF AfdEvent, Event, afd_flags_to_interest, When, Meets, Kinds

\* Polls that the kernel runs.
LEMMA CancelType ==
  ASSUME flight \in FlightSet(Ids), NEW n, Cancel(n)
  PROVE  /\ flight' \in FlightSet(Ids)
         /\ \A m : (\E f \in flight' : f.state = m) <=> (\E f \in flight : f.state = m)
         /\ \A g \in flight' : \E f \in flight : g.state = f.state /\ g.file = f.file /\ g.request = f.request
<1> DEFINE C(f) == IF f.state = n THEN [f EXCEPT !.cancel = TRUE] ELSE f
<1>1. flight' = {C(f) : f \in flight}
  BY DEF Cancel
<1>2. ASSUME NEW f \in flight
      PROVE  /\ C(f) \in [state : Ids, request : SUBSET AfdPollFlags, file : Nat, cancel : BOOLEAN]
             /\ C(f).state = f.state /\ C(f).file = f.file /\ C(f).request = f.request
  BY Zenon DEF FlightSet
<1> HIDE DEF C
<1>3. flight' \in FlightSet(Ids)
  BY <1>1, <1>2 DEF FlightSet
<1>4. ASSUME NEW m PROVE (\E f \in flight' : f.state = m) <=> (\E f \in flight : f.state = m)
  BY <1>1, <1>2
<1>5. \A g \in flight' : \E f \in flight : g.state = f.state /\ g.file = f.file /\ g.request = f.request
  BY <1>1, <1>2
<1> QED
  BY <1>3, <1>4, <1>5

\* issue_afd_poll, in a call or after a completion.
LEMMA IssueTyped ==
  ASSUME KernelTyped, OthersTyped, NEW n \in Ids, IssueOk(n) \/ IssueThrows(n), UNCHANGED queue
  PROVE  /\ KernelTyped' /\ faults' \in 0..MaxFaults
         /\ Ids' = Ids /\ Len(afd') = Len(afd) /\ \A m \in Ids : afd'[m].socket = afd[m].socket
<1>0. afd \in Seq(AfdSocketState) /\ flight \in FlightSet(Ids) /\ afd[n] \in AfdSocketState
  BY StateType DEF KernelTyped
<1>1. CASE Submit(n)
  <2>1. Request(n) \in [state : Ids, request : SUBSET AfdPollFlags, file : Nat, cancel : BOOLEAN]
    BY <1>0 DEF Request, OthersTyped, AfdSocketState
  <2>2. Changed(n) /\ flight' = flight \cup {Request(n)}
    BY <1>0, <1>1, SubmitEffect
  <2>3. flight' \in FlightSet(Ids)
    BY <1>0, <2>1, <2>2 DEF FlightSet
  <2>4. faults' = faults
    BY <1>1 DEF Submit
  <2> QED
    BY <2>2, <2>3, <2>4 DEF KernelTyped, Changed, OthersTyped
<1>2. CASE IssueElse(n)
  <2>1. CASE Cancel(n) /\ Changed(n)
    <3>1. flight' \in FlightSet(Ids)
      BY <1>0, <2>1, CancelType
    <3> QED
      BY <1>2, <2>1, <3>1 DEF IssueElse, KernelTyped, Changed, OthersTyped
  <2>2. CASE UNCHANGED <<flight, afd>>
    BY <1>2, <2>2 DEF IssueElse, KernelTyped, Ids, OthersTyped
  <2> QED
    BY <1>0, <1>2, <2>1, <2>2, IssueElseEffect
<1>3. CASE IssueThrows(n)
  <2>1. Changed(n) /\ UNCHANGED flight /\ (faults' = faults \/ Fault)
    BY <1>0, <1>3, IssueThrowsEffect
  <2>2. faults' \in 0..MaxFaults
    BY <2>1, AfdBoundsAssumption DEF Fault, OthersTyped
  <2> QED
    BY <2>1, <2>2 DEF KernelTyped, Changed
<1> QED
  BY <1>1, <1>2, <1>3 DEF IssueOk

USE DEF callVars, pollVars, socketVars

LEMMA EnvironmentBase ==
  ASSUME Typed, Calls, UNCHANGED <<callVars, afd, pollVars, flight, faults>>,
         \/ \E h \in Sockets : OpenSocket(h) \/ CloseSocket(h)
         \/ \E h \in Sockets, flag \in Conditions : Arise(h, flag) \/ Cease(h, flag)
         \/ \E token \in WakerTokens : WakerNew(token)
         \/ WakerDrop \/ Wake
  PROVE  Typed' /\ Calls'
<1>0. KernelTyped /\ OthersTyped /\ CallsTyped /\ Reissued
  BY DEF Typed
<1>1. Ids' = Ids /\ CallsTyped' /\ Reissued'
  BY <1>0 DEF Ids, CallsTyped, Reissued
<1>2. CASE \E h \in Sockets : OpenSocket(h) \/ CloseSocket(h)
  <2>1. PICK h \in Sockets : OpenSocket(h) \/ CloseSocket(h)
    BY <1>2
  <2>2. /\ open' \in [Sockets -> BOOLEAN] /\ gen' \in [Sockets -> Nat]
        /\ level' \in [Sockets -> SUBSET AfdPollFlags] /\ UNCHANGED <<waker, queue>>
    <3>1. CASE OpenSocket(h)
      BY <1>0, <3>1 DEF OpenSocket, OthersTyped
    <3>2. CASE CloseSocket(h)
      BY Zenon, <1>0, <3>2 DEF CloseSocket, OthersTyped
    <3> QED
      BY <2>1, <3>1, <3>2
  <2>3. \A t \in Threads : op[t] # NoOp => open'[op[t].socket]
    <3> SUFFICES ASSUME NEW t \in Threads, op[t] # NoOp PROVE open'[op[t].socket]
      OBVIOUS
    <3>1. op[t].socket \in Sockets /\ open[op[t].socket]
      BY Zenon, <1>0, OpFacts DEF Calls, CallOK, Op
    <3> QED
      BY Zenon, <1>0, <2>1, <3>1 DEF OpenSocket, CloseSocket, OthersTyped
  <2>4. Calls'
    BY ZenonT(30), <1>1, <2>3 DEF Calls, CallOK, EntryOK, StateOf
  <2> QED
    BY <1>0, <1>1, <2>2, <2>4 DEF Typed, KernelTyped, OthersTyped
<1>3. CASE \E h \in Sockets, flag \in Conditions : Arise(h, flag) \/ Cease(h, flag)
  <2>1. level' \in [Sockets -> SUBSET AfdPollFlags] /\ UNCHANGED <<open, gen, waker, queue>>
    BY Zenon, <1>0, <1>3, AfdInterestAssumption DEF Arise, Cease, OthersTyped
  <2> QED
    BY Zenon, <1>0, <1>1, <2>1, CallsKept DEF Typed, KernelTyped, OthersTyped
<1>4. CASE (\E token \in WakerTokens : WakerNew(token)) \/ WakerDrop
  <2>1. waker' \in Tokens \cup {NoToken} /\ UNCHANGED <<socketVars, queue>>
    BY <1>0, <1>4, AfdInterestAssumption DEF WakerNew, WakerDrop
  <2> QED
    BY <1>0, <1>1, <2>1, CallsKept DEF Typed, KernelTyped, OthersTyped
<1>5. CASE Wake
  <2>1. waker \in Tokens /\ UNCHANGED <<socketVars, waker>>
    BY <1>0, <1>5 DEF Wake, OthersTyped
  <2>2. queue' = Append(queue, [kind |-> "packet", token |-> waker])
    BY <1>5 DEF Wake
  <2>3. queue' \in QueueSet(Ids)
    BY Zenon, <1>0, <2>1, <2>2, SeqAppend DEF QueueSet, KernelTyped
  <2> QED
    BY Zenon, <1>0, <1>1, <2>1, <2>3, CallsKept DEF Typed, KernelTyped, OthersTyped
<1> QED
  BY <1>2, <1>3, <1>4, <1>5

\* The kernel ends a poll.
LEMMA FinishBase ==
  ASSUME Typed, Calls, NEW f \in flight, KernelCompletes(f) \/ KernelCancels(f) \/ KernelFails(f)
  PROVE  Typed' /\ Calls'
<1>0. KernelTyped /\ OthersTyped /\ CallsTyped /\ Reissued
  BY DEF Typed
<1>1. /\ afd \in Seq(AfdSocketState) /\ f.state \in Ids /\ f.file \in Nat
      /\ f.request \in SUBSET AfdPollFlags /\ afd[f.state] \in AfdSocketState
  BY <1>0, StateType DEF KernelTyped, FlightSet
<1>2. Seen(f) \in SUBSET (AfdPollFlags \cup {"local_close"})
  BY <1>1 DEF Seen
<1>3. PICK iosb \in {"success", "cancelled", "failed"}, revents \in SUBSET (AfdPollFlags \cup {"local_close"}) :
        Finish(f, iosb, revents)
  BY <1>2 DEF KernelCompletes, KernelCancels, KernelFails
<1>4. faults' \in 0..MaxFaults
  BY <1>0, AfdBoundsAssumption DEF KernelCompletes, KernelCancels, KernelFails, Fault, OthersTyped
<1>5. Changed(f.state)
  BY <1>1, <1>3, FinishEffect
<1>6. /\ flight' = flight \ {f} /\ UNCHANGED <<callVars, waker, pollVars, socketVars>>
      /\ queue' = Append(queue, [kind |-> "afd", state |-> f.state, file |-> f.file])
  BY <1>3 DEF Finish
<1>7. flight' \in FlightSet(Ids)
  BY <1>0, <1>6 DEF FlightSet, KernelTyped
<1>8. queue' \in QueueSet(Ids)
  BY <1>0, <1>1, <1>6, SeqAppend DEF QueueSet, KernelTyped
<1>9. KernelTyped'
  BY <1>0, <1>5, <1>7, <1>8 DEF KernelTyped, Changed
<1>10. OthersTyped' /\ CallsTyped' /\ Reissued'
  BY <1>0, <1>4, <1>5, <1>6 DEF OthersTyped, CallsTyped, Reissued, Changed
<1>11. Calls'
  BY Zenon, <1>1, <1>5, <1>6, ChangedKeepsCalls
<1> QED
  BY <1>9, <1>10, <1>11 DEF Typed

\* A step of the call of thread t on socket h.
LEMMA CallStep ==
  ASSUME Typed, Calls, NEW t \in Threads, NEW h \in Sockets, NEW o \in Op \cup {NoOp},
         op' = [op EXCEPT ![t] = o],
         o # NoOp => o.socket = h, op[t] # NoOp => op[t].socket = h,
         \A u \in Threads \ {t} : op[u] # NoOp => op[u].socket # h,
         \A g \in Sockets \ {h} : registrations_'[g] = registrations_[g],
         UNCHANGED open, Ids \subseteq Ids', \A n \in Ids : afd'[n].socket = afd[n].socket,
         o # NoOp => CallOK(t)', registrations_'[h] # NoReg => EntryOK(h)'
  PROVE  Calls'
<1>0. CallsTyped /\ op'[t] = o /\ \A u \in Threads \ {t} : op'[u] = op[u]
  BY Zenon DEF Typed, CallsTyped
<1>1. \A n, g : StateOf(g, n) => StateOf(g, n)'
  BY Zenon DEF StateOf
<1>2. ASSUME NEW u \in Threads, NEW v \in Threads, u # v, op'[u] # NoOp, op'[v] # NoOp
      PROVE  op'[u].socket # op'[v].socket
  <2>1. CASE u = t
    BY <1>0, <1>2, <2>1
  <2>2. CASE v = t
    BY <1>0, <1>2, <2>2
  <2>3. CASE u # t /\ v # t
    BY <1>0, <1>2, <2>3 DEF Calls
  <2> QED
    BY <2>1, <2>2, <2>3
<1>3. ASSUME NEW u \in Threads, op'[u] # NoOp PROVE CallOK(u)'
  <2>1. CASE u = t
    BY <1>0, <1>3, <2>1
  <2>2. CASE u # t
    <3>1. op'[u] = op[u] /\ op[u] # NoOp /\ CallOK(u) /\ op[u].socket \in Sockets \ {h}
      BY Zenon, <1>0, <1>3, <2>2, OpFacts DEF Calls, Op
    <3>2. registrations_'[op[u].socket] = registrations_[op[u].socket]
      BY Zenon, <3>1
    <3>3. PICK g \in Sockets : g = op[u].socket
      BY Zenon, <3>1
    <3>4. PICK n : n = op[u].state
      OBVIOUS
    <3>5. StateOf(g, n) => StateOf(g, n)'
      BY Zenon, <1>1
    <3>6. open'[g] = open[g] /\ registrations_'[g] = registrations_[g]
      BY Zenon, <3>2, <3>3
    <3> QED
      BY ONLY <3>1, <3>3, <3>4, <3>5, <3>6 DEF CallOK
  <2> QED
    BY <2>1, <2>2
<1>4. ASSUME NEW g \in Sockets, registrations_'[g] # NoReg PROVE EntryOK(g)'
  <2>1. CASE g = h
    BY <1>4, <2>1
  <2>2. CASE g # h
    <3>1. registrations_'[g] = registrations_[g] /\ EntryOK(g)
      BY <1>4, <2>2 DEF Calls
    <3>2. ASSUME NEW u \in Threads, op[u].step \in {"add_state", "add_undo"}, op[u].socket = g
          PROVE  op'[u].step \in {"add_state", "add_undo"} /\ op'[u].socket = g
      <4>1. op[u] # NoOp
        BY <1>0, <3>2, OpFacts
      <4> QED
        BY <1>0, <2>2, <3>2, <4>1
    <3> QED
      BY Zenon, <1>1, <3>1, <3>2 DEF EntryOK
  <2> QED
    BY <2>1, <2>2
<1> QED
  BY Zenon, <1>2, <1>3, <1>4 DEF Calls

LEMMA IdleOp == NoOp.step = "idle"
BY DEF NoOp

LEMMA AddEmplaceBase ==
  ASSUME Typed, Calls, NEW t \in Threads, NEW h \in Sockets, NEW token \in Tokens,
         NEW interests \in InterestSets, AddEmplace(t, h, token, interests)
  PROVE  Typed' /\ Calls'
<1> DEFINE e == [token |-> token, interests |-> interests, state |-> 0]
           o == [step |-> "add_state", socket |-> h, token |-> token, interests |-> interests, state |-> 0]
<1>0. KernelTyped /\ OthersTyped /\ CallsTyped /\ Reissued
  BY DEF Typed
<1>1. /\ Idle(t, h)
      /\ registrations_' = [registrations_ EXCEPT ![h] = e] /\ op' = [op EXCEPT ![t] = o]
      /\ UNCHANGED <<careful, afd, waker, pollVars, socketVars, flight, queue, faults>>
  BY DEF AddEmplace, Call
<1>2. e \in Entry /\ o \in Op /\ e.state = 0 /\ o.step = "add_state" /\ o.socket = h /\ o # NoOp
  BY DEF Entry, Op, Steps, NoOp
<1> HIDE DEF e, o
<1>3. CallsTyped' /\ op'[t] = o /\ registrations_'[h] = e
  BY <1>0, <1>1, <1>2 DEF CallsTyped
<1>8. KernelTyped' /\ OthersTyped' /\ Reissued'
  BY <1>0, <1>1 DEF KernelTyped, OthersTyped, Reissued, Ids
<1>9. e # NoReg
  BY <1>2, AfdNothingAssumption
<1>10. CallOK(t)' /\ EntryOK(h)'
  BY Zenon, <1>1, <1>2, <1>3, <1>9 DEF CallOK, EntryOK, Idle
<1>11. /\ op[t] = NoOp /\ \A u \in Threads \ {t} : op[u] # NoOp => op[u].socket # h
       /\ \A g \in Sockets \ {h} : registrations_'[g] = registrations_[g]
       /\ Ids \subseteq Ids' /\ \A n \in Ids : afd'[n].socket = afd[n].socket
  BY Zenon, <1>0, <1>1 DEF Idle, CallsTyped, Ids
<1>12. Calls'
  BY Zenon, <1>1, <1>2, <1>10, <1>11, CallStep
<1> QED
  BY <1>3, <1>8, <1>12 DEF Typed

NewState(t) ==
  [socket |-> op[t].socket, token |-> op[t].token,
   user_events |-> interests_to_afd_flags(op[t].interests),
   pending_events |-> {}, status |-> "idle",
   delete_pending |-> FALSE, iosb |-> "success", revents |-> {},
   file |-> gen[op[t].socket], dropped |-> FALSE]

\* add makes a state.
LEMMA AddStateEffect ==
  ASSUME KernelTyped, OthersTyped, NEW t \in Threads, op[t] \in Op, AddState(t)
  PROVE  /\ afd' \in Seq(AfdSocketState) /\ Len(afd') = Len(afd) + 1 /\ Len(afd) \in Nat
         /\ Ids' = Ids \cup {Len(afd) + 1} /\ Len(afd) + 1 \notin Ids
         /\ \A n \in Ids : afd'[n] = afd[n]
         /\ afd'[Len(afd) + 1] = NewState(t) /\ NewState(t) \in AfdSocketState
<1>1. afd' = Append(afd, NewState(t))
  BY DEF AddState, NewState
<1>2. interests_to_afd_flags(op[t].interests) \in SUBSET AfdPollFlags
  BY FlagsType
<1>3. NewState(t) \in AfdSocketState
  BY Zenon, <1>2 DEF NewState, AfdSocketState, Op, OthersTyped
<1> QED
  BY <1>1, <1>3, SeqAppend, SeqLen DEF Ids, KernelTyped

LEMMA AddStateBase ==
  ASSUME Typed, Calls, NEW t \in Threads, AddState(t)
  PROVE  Typed' /\ Calls'
<1>0. KernelTyped /\ OthersTyped /\ CallsTyped /\ Reissued
  BY DEF Typed
<1>h. PICK h \in Sockets : h = op[t].socket
  BY <1>0, OpFacts DEF AddState, At, Op
<1> DEFINE n == Len(afd) + 1
           o == [op[t] EXCEPT !.step = "add_issue", !.state = n]
           e == [registrations_[h] EXCEPT !.state = n]
<1>1. /\ op[t].step = "add_state" /\ op[t] \in Op /\ op[t] # NoOp
      /\ registrations_[h] \in Entry
  <2>1. op[t].step = "add_state" /\ op[t] \in Op /\ op[t] # NoOp
    BY <1>0, OpFacts DEF AddState, At
  <2>2. CallOK(t)
    BY <2>1 DEF Calls
  <2> QED
    BY <1>0, <1>h, <2>1, <2>2 DEF CallOK, CallsTyped
<1>2. /\ afd' \in Seq(AfdSocketState) /\ Len(afd') = n /\ Len(afd) \in Nat /\ Ids' = Ids \cup {n}
      /\ \A m \in Ids : afd'[m] = afd[m]
      /\ afd'[n] = NewState(t)
  BY <1>0, <1>1, AddStateEffect
<1>3. /\ op' = [op EXCEPT ![t] = o]
      /\ registrations_' = [registrations_ EXCEPT ![h] = e]
      /\ UNCHANGED <<careful, waker, pollVars, socketVars, flight, queue, faults>>
  BY <1>h DEF AddState
<1>7. /\ o \in Op /\ o.step = "add_issue" /\ o.state = n /\ o.socket = h /\ o # NoOp
      /\ e \in Entry /\ e.state = n
  <2>1. n \in Nat
    BY <1>2
  <2> HIDE DEF n
  <2>2. o \in Op /\ o.step = "add_issue" /\ o.state = n /\ o.socket = h /\ o # NoOp
    BY Zenon, <1>1, <1>h, <2>1 DEF Op, Steps, NoOp
  <2>3. e \in Entry /\ e.state = n
    BY <1>1, <2>1 DEF Entry
  <2> QED
    BY <2>2, <2>3
<1>8. e # NoReg
  BY <1>7, AfdNothingAssumption
<1> HIDE DEF o, e
<1>9. CallsTyped' /\ op'[t] = o /\ registrations_'[h] = e
  BY <1>0, <1>1, <1>3, <1>7 DEF CallsTyped
<1>10. /\ flight' \in FlightSet(Ids') /\ queue' \in QueueSet(Ids')
  <2>1. flight' \in FlightSet(Ids')
    BY <1>0, <1>2, <1>3 DEF KernelTyped, FlightSet
  <2>2. [kind : {"afd"}, state : Ids, file : Nat] \cup [kind : {"packet"}, token : Tokens] \subseteq
          [kind : {"afd"}, state : Ids', file : Nat] \cup [kind : {"packet"}, token : Tokens]
    BY <1>2
  <2>3. queue \in QueueSet(Ids')
    BY <1>0, <2>2, SeqWider DEF KernelTyped, QueueSet
  <2> QED
    BY <1>3, <2>1, <2>3
<1>11. KernelTyped'
  BY <1>2, <1>10 DEF KernelTyped
<1>12. OthersTyped' /\ Reissued'
  BY Zenon, <1>0, <1>2, <1>3 DEF OthersTyped, Reissued
<1>13. PICK k : k = n
  OBVIOUS
<1>14. StateOf(h, k)' /\ open'[h]
  <2>1. CallOK(t)
    BY Zenon, <1>1 DEF Calls
  <2>2. open[h]
    BY Zenon, <1>h, <2>1 DEF CallOK
  <2>3. afd'[k].socket = h /\ k \in Ids'
    <3>1. NewState(t).socket = h
      BY Zenon, <1>h DEF NewState
    <3>2. n \in Ids \cup {n}
      BY Zenon
    <3>3. afd'[k] = NewState(t) /\ k \in Ids'
      BY Zenon, <1>2, <1>13, <3>2
    <3> QED
      BY Zenon, <3>1, <3>3
  <2> QED
    BY Zenon, <1>3, <2>2, <2>3 DEF StateOf
<1>18. CallOK(t)' /\ EntryOK(h)'
  <2>0. e.state = k /\ o.state = k
    BY <1>7, <1>13
  <2> HIDE DEF n
  <2>1. CallOK(t)'
    BY ONLY <1>7, <1>8, <1>9, <1>14, <2>0 DEF CallOK
  <2>2. EntryOK(h)'
    BY ONLY <1>9, <1>14, <2>0 DEF EntryOK
  <2> QED
    BY <2>1, <2>2
<1>15. /\ \A u \in Threads \ {t} : op[u] # NoOp => op[u].socket # h
       /\ \A g \in Sockets \ {h} : registrations_'[g] = registrations_[g]
       /\ Ids \subseteq Ids' /\ \A m \in Ids : afd'[m].socket = afd[m].socket
  BY Zenon, <1>0, <1>1, <1>2, <1>3, <1>h DEF Calls, CallsTyped
<1> HIDE DEF n
<1>16. UNCHANGED open /\ o \in Op \cup {NoOp} /\ op[t].socket = h
  BY Zenon, <1>3, <1>7, <1>h
<1>17. Calls'
  BY Zenon, <1>1, <1>3, <1>7, <1>18, <1>15, <1>16, CallStep
<1> QED
  BY <1>9, <1>11, <1>12, <1>17 DEF Typed

\* A call that goes on, or ends, without touching the kernel's side.
LEMMA QuietTyped ==
  ASSUME Typed, UNCHANGED <<careful, afd, waker, pollVars, socketVars, flight, queue>>, faults' \in 0..MaxFaults
  PROVE  KernelTyped' /\ OthersTyped' /\ Reissued' /\ Ids' = Ids /\ Len(afd') = Len(afd) /\ Len(afd) \in Nat
BY SeqLen DEF Typed, KernelTyped, OthersTyped, Reissued, Ids

LEMMA AddFailsBase ==
  ASSUME Typed, Calls, NEW t \in Threads, AddStateFails(t) \/ AddUndo(t)
  PROVE  Typed' /\ Calls'
<1>0. KernelTyped /\ OthersTyped /\ CallsTyped /\ Reissued
  BY DEF Typed
<1>h. PICK h \in Sockets : h = op[t].socket
  BY Zenon, <1>0, OpFacts DEF AddStateFails, AddUndo, At, Op
<1>1. /\ op[t].step \in {"add_state", "add_undo"} /\ op[t] \in Op /\ op[t] # NoOp
      /\ CallOK(t) /\ EntryOK(h)
  <2>1. op[t].step \in {"add_state", "add_undo"} /\ op[t] \in Op /\ op[t] # NoOp
    BY Zenon, <1>0, OpFacts DEF AddStateFails, AddUndo, At
  <2>2. CallOK(t)
    BY Zenon, <2>1 DEF Calls
  <2> QED
    BY Zenon, <1>h, <2>1, <2>2 DEF CallOK, Calls
<1>2. faults' \in 0..MaxFaults
  BY <1>0, AfdBoundsAssumption DEF AddStateFails, AddUndo, Fault, OthersTyped
<1>3. KernelTyped' /\ OthersTyped' /\ Reissued' /\ Ids' = Ids /\ Len(afd') = Len(afd) /\ Len(afd) \in Nat
  BY <1>2, QuietTyped DEF AddStateFails, AddUndo
<1>4. /\ \A u \in Threads \ {t} : op[u] # NoOp => op[u].socket # h
      /\ UNCHANGED <<open, afd>>
  BY Zenon, <1>1, <1>h DEF AddStateFails, AddUndo, Calls
<1>5. CASE AddStateFails(t)
  <2> DEFINE o == [op[t] EXCEPT !.step = "add_undo"]
  <2>1. op' = [op EXCEPT ![t] = o] /\ UNCHANGED registrations_ /\ op[t].step = "add_state"
    BY <1>5 DEF AddStateFails, Goto, At
  <2>2. o \in Op /\ o.step = "add_undo" /\ o.socket = h /\ o # NoOp
    BY <1>1, <1>h DEF Op, Steps, NoOp
  <2> HIDE DEF o
  <2>3. CallsTyped' /\ op'[t] = o
    BY <1>0, <2>1, <2>2 DEF CallsTyped
  <2>5. CallOK(t)' /\ (registrations_'[h] # NoReg => EntryOK(h)')
    BY Zenon, <1>1, <1>4, <1>h, <2>1, <2>2, <2>3 DEF CallOK, EntryOK, StateOf, Ids
  <2>6. Calls'
    <3>1. op[t].socket = h /\ o \in Op \cup {NoOp} /\ Ids \subseteq Ids'
      BY <1>3, <1>h, <2>2
    <3> QED
      BY Zenon, <1>1, <1>4, <2>1, <2>2, <2>5, <3>1, CallStep
  <2> QED
    BY <1>3, <2>3, <2>6 DEF Typed
<1>6. CASE AddUndo(t)
  <2>1. op' = [op EXCEPT ![t] = NoOp] /\ registrations_' = [registrations_ EXCEPT ![h] = NoReg]
    BY <1>6, <1>h DEF AddUndo, Return
  <2>3. CallsTyped' /\ registrations_'[h] = NoReg
    BY <1>0, <1>1, <2>1 DEF CallsTyped
  <2>5. \A g \in Sockets \ {h} : registrations_'[g] = registrations_[g]
    BY <1>0, <2>1 DEF CallsTyped
  <2>6. Calls'
    <3>1. /\ op[t].socket = h /\ NoOp \in Op \cup {NoOp} /\ Ids \subseteq Ids' /\ UNCHANGED open
          /\ \A n \in Ids : afd'[n].socket = afd[n].socket
      BY Zenon, <1>3, <1>4, <1>h
    <3>2. \A u \in Threads \ {t} : op[u] # NoOp => op[u].socket # h
      BY Zenon, <1>1, <1>4
    <3> QED
      BY ZenonT(30), <2>1, <2>3, <2>5, <3>1, <3>2, CallStep
  <2> QED
    BY <1>3, <2>3, <2>6 DEF Typed
<1> QED
  BY <1>5, <1>6

\* A call that begins on a registered socket finds its state.
LEMMA EntryFound ==
  ASSUME Typed, Calls, NEW t, NEW h \in Sockets, Idle(t, h), registrations_[h] # NoReg
  PROVE  /\ registrations_[h] \in Entry /\ StateOf(h, registrations_[h].state)
<1>1. registrations_[h] \in Entry
  BY DEF Typed, CallsTyped
<1>2. EntryOK(h)
  BY DEF Calls
<1>3. \A u \in Threads : op[u].step \in {"add_state", "add_undo"} => op[u].socket # h
  BY OpFacts DEF Idle, Typed
<1> QED
  BY <1>1, <1>2, <1>3 DEF EntryOK

LEMMA UpdateMapBase ==
  ASSUME Typed, Calls, NEW t \in Threads, NEW h \in Sockets, NEW token \in Tokens,
         NEW interests \in InterestSets, UpdateMap(t, h, token, interests)
  PROVE  Typed' /\ Calls'
<1> DEFINE n == registrations_[h].state
           e == [registrations_[h] EXCEPT !.token = token, !.interests = interests]
           o == [step |-> "update_set", socket |-> h, token |-> token, interests |-> interests, state |-> n]
<1>0. KernelTyped /\ OthersTyped /\ CallsTyped /\ Reissued
  BY DEF Typed
<1>1. /\ Idle(t, h) /\ registrations_[h] # NoReg
      /\ registrations_' = [registrations_ EXCEPT ![h] = e] /\ op' = [op EXCEPT ![t] = o]
      /\ UNCHANGED <<careful, afd, waker, pollVars, socketVars, flight, queue, faults>>
  BY DEF UpdateMap, Call
<1>2. registrations_[h] \in Entry /\ StateOf(h, n) /\ n \in Nat
  BY <1>1, EntryFound DEF Entry
<1>3. e \in Entry /\ e.state = n
  BY Zenon, <1>2 DEF Entry
<1>4. o \in Op /\ o.step = "update_set" /\ o.socket = h /\ o.state = n /\ o # NoOp
  BY Zenon, <1>2 DEF Op, Steps, NoOp
<1>5. e # NoReg
  BY <1>3, AfdNothingAssumption
<1> HIDE DEF e, o, n
<1>6. CallsTyped' /\ op'[t] = o /\ registrations_'[h] = e
  BY Zenon, <1>0, <1>1, <1>3, <1>4 DEF CallsTyped
<1>7. KernelTyped' /\ OthersTyped' /\ Reissued' /\ Ids' = Ids /\ Len(afd') = Len(afd) /\ Len(afd) \in Nat
  BY Zenon, <1>0, <1>1, QuietTyped DEF OthersTyped
<1>9. CallOK(t)' /\ EntryOK(h)'
  <2>0. PICK k : k = n /\ e.state = k /\ o.state = k
    BY Zenon, <1>3, <1>4
  <2>1. StateOf(h, k)' /\ open'[h]
    BY Zenon, <1>1, <1>2, <2>0 DEF Idle, StateOf, Ids
  <2>2. CallOK(t)'
    BY ONLY <1>4, <1>5, <1>6, <2>0, <2>1 DEF CallOK
  <2>3. EntryOK(h)'
    BY ONLY <1>6, <2>0, <2>1 DEF EntryOK
  <2> QED
    BY <2>2, <2>3
<1>10. /\ op[t] = NoOp /\ \A u \in Threads \ {t} : op[u] # NoOp => op[u].socket # h
       /\ \A g \in Sockets \ {h} : registrations_'[g] = registrations_[g]
  BY Zenon, <1>0, <1>1 DEF Idle, CallsTyped
<1>11. Calls'
  BY Zenon, <1>1, <1>4, <1>7, <1>9, <1>10, CallStep
<1> QED
  BY <1>6, <1>7, <1>11 DEF Typed

LEMMA RemoveEraseBase ==
  ASSUME Typed, Calls, NEW t \in Threads, NEW h \in Sockets, RemoveErase(t, h)
  PROVE  Typed' /\ Calls'
<1> DEFINE r == registrations_[h]
           o == [step |-> "remove_cancel", socket |-> h, token |-> r.token, interests |-> r.interests, state |-> r.state]
<1>0. KernelTyped /\ OthersTyped /\ CallsTyped /\ Reissued
  BY DEF Typed
<1>1. /\ Idle(t, h) /\ r # NoReg
      /\ registrations_' = [registrations_ EXCEPT ![h] = NoReg] /\ op' = [op EXCEPT ![t] = o]
      /\ UNCHANGED <<careful, afd, waker, pollVars, socketVars, flight, queue, faults>>
  BY DEF RemoveErase, Call
<1>2. r \in Entry /\ StateOf(h, r.state)
  BY <1>1, EntryFound
<1>4. o \in Op /\ o.step = "remove_cancel" /\ o.socket = h /\ o.state = r.state /\ o # NoOp
  BY Zenon, <1>2 DEF Op, Steps, NoOp, Entry
<1> HIDE DEF o, r
<1>6. CallsTyped' /\ op'[t] = o /\ registrations_'[h] = NoReg
  BY Zenon, <1>0, <1>1, <1>4 DEF CallsTyped
<1>7. KernelTyped' /\ OthersTyped' /\ Reissued' /\ Ids' = Ids /\ Len(afd') = Len(afd) /\ Len(afd) \in Nat
  BY Zenon, <1>0, <1>1, QuietTyped DEF OthersTyped
<1>9. CallOK(t)'
  <2>0. PICK k : k = r.state /\ o.state = k
    BY Zenon, <1>4
  <2>1. StateOf(h, k)' /\ open'[h]
    BY Zenon, <1>1, <1>2, <2>0 DEF Idle, StateOf, Ids
  <2> QED
    BY ONLY <1>4, <1>6, <2>0, <2>1 DEF CallOK
<1>10. /\ op[t] = NoOp /\ \A u \in Threads \ {t} : op[u] # NoOp => op[u].socket # h
       /\ \A g \in Sockets \ {h} : registrations_'[g] = registrations_[g]
  BY Zenon, <1>0, <1>1 DEF Idle, CallsTyped
<1>11. Calls'
  BY Zenon, <1>1, <1>4, <1>6, <1>7, <1>9, <1>10, CallStep
<1> QED
  BY <1>6, <1>7, <1>11 DEF Typed

\* A call in progress after its first step.
LEMMA CallFacts ==
  ASSUME Typed, Calls, NEW t \in Threads,
         op[t].step \in {"add_issue", "update_set", "update_issue", "remove_cancel"}
  PROVE  /\ op[t] \in Op /\ op[t] # NoOp /\ op[t].socket \in Sockets
         /\ CallOK(t) /\ op[t].state \in Ids /\ afd[op[t].state].socket = op[t].socket
         /\ \A u \in Threads \ {t} : op[u] # NoOp => op[u].socket # op[t].socket
<1>1. op[t] \in Op /\ op[t] # NoOp
  BY OpFacts DEF Typed
<1> QED
  BY Zenon, <1>1 DEF Calls, CallOK, StateOf, Op

\* The steps of a call that change its state and what the kernel runs for it.
LEMMA CallChanges ==
  ASSUME Typed, Calls, NEW t \in Threads,
         op[t].step \in {"add_issue", "update_set", "update_issue", "remove_cancel"},
         KernelTyped', Ids' = Ids, Len(afd') = Len(afd), \A n \in Ids : afd'[n].socket = afd[n].socket,
         faults' \in 0..MaxFaults,
         UNCHANGED <<careful, registrations_, waker, pollVars, socketVars>>,
         NEW step \in {"idle", "update_issue", "add_undo"},
         step = "idle" => Return(t), step # "idle" => Goto(t, step),
         step = "update_issue" => op[t].step = "update_set", step = "add_undo" => op[t].step = "add_issue"
  PROVE  Typed' /\ Calls'
<1>0. KernelTyped /\ OthersTyped /\ CallsTyped /\ Reissued
  BY Zenon DEF Typed
<1>1. /\ op[t] \in Op /\ op[t] # NoOp /\ op[t].socket \in Sockets
      /\ CallOK(t) /\ op[t].state \in Ids
      /\ \A u \in Threads \ {t} : op[u] # NoOp => op[u].socket # op[t].socket
  BY Zenon, CallFacts
<1>2. PICK h \in Sockets : h = op[t].socket
  BY Zenon, <1>1
<1> DEFINE o == IF step = "idle" THEN NoOp ELSE [op[t] EXCEPT !.step = step]
<1>3. op' = [op EXCEPT ![t] = o]
  BY DEF Return, Goto
<1>4. /\ o \in Op \cup {NoOp} /\ o.step # "add_state"
      /\ o # NoOp => o.socket = h /\ o.state = op[t].state /\ o.step = step /\ step # "idle"
  BY <1>1, <1>2 DEF Op, Steps, NoOp
<1> HIDE DEF o
<1>5. CallsTyped' /\ op'[t] = o
  BY Zenon, <1>0, <1>3, <1>4 DEF CallsTyped
<1>6. OthersTyped' /\ Reissued'
  BY Zenon, <1>0 DEF OthersTyped, Reissued
<1>8. o # NoOp => CallOK(t)'
  BY Zenon, <1>1, <1>2, <1>4, <1>5 DEF CallOK, StateOf
<1>9. registrations_'[h] # NoReg => EntryOK(h)'
  <2>1. registrations_[h] # NoReg => StateOf(h, registrations_[h].state)
    BY Zenon, <1>1, <1>2 DEF CallOK
  <2> QED
    BY Zenon, <2>1 DEF EntryOK, StateOf
<1>10. Calls'
  BY Zenon, <1>1, <1>2, <1>3, <1>4, <1>8, <1>9, CallStep
<1> QED
  BY Zenon, <1>5, <1>6, <1>10 DEF Typed

LEMMA CallOnBase ==
  ASSUME Typed, Calls, NEW t \in Threads, UpdateSet(t) \/ CallIssues(t) \/ RemoveCancel(t)
  PROVE  Typed' /\ Calls'
<1> DEFINE n == op[t].state
<1>0. KernelTyped /\ OthersTyped /\ afd \in Seq(AfdSocketState)
  BY DEF Typed, KernelTyped
<1>1. op[t].step \in {"add_issue", "update_set", "update_issue", "remove_cancel"}
  BY DEF UpdateSet, CallIssues, RemoveCancel, At
<1>2. op[t] \in Op /\ op[t] # NoOp /\ n \in Ids
  BY Zenon, <1>1, CallFacts
<1>3. CASE UpdateSet(t)
  <2>1. Changed(n)
    BY Zenon, <1>0, <1>2, <1>3, FlagsType, UpdateSetEffect DEF Op
  <2>2. KernelTyped' /\ Ids' = Ids /\ Len(afd') = Len(afd) /\ \A m \in Ids : afd'[m].socket = afd[m].socket
    BY Zenon, <1>0, <1>3, <2>1 DEF Changed, KernelTyped, UpdateSet
  <2> QED
    BY <1>0, <1>1, <1>3, <2>2, CallChanges DEF UpdateSet, OthersTyped, At
<1>4. CASE CallIssues(t)
  <2>1. IssueOk(n) \/ IssueThrows(n)
    BY Zenon, <1>4 DEF CallIssues
  <2>2. /\ KernelTyped' /\ faults' \in 0..MaxFaults
        /\ Ids' = Ids /\ Len(afd') = Len(afd) /\ \A m \in Ids : afd'[m].socket = afd[m].socket
    BY Zenon, <1>0, <1>2, <1>4, <2>1, IssueTyped DEF CallIssues
  <2>3. Return(t) \/ (Goto(t, "add_undo") /\ op[t].step = "add_issue")
    BY Zenon, <1>4 DEF CallIssues, At
  <2> QED
    BY Zenon, <1>1, <1>4, <2>2, <2>3, CallChanges DEF CallIssues
<1>5. CASE RemoveCancel(t)
  <2>1. Changed(n) /\ (Cancel(n) \/ UNCHANGED flight)
    BY Zenon, <1>0, <1>2, <1>5, RemoveCancelEffect
  <2>2. flight' \in FlightSet(Ids)
    BY <1>0, <2>1, CancelType DEF KernelTyped
  <2>3. KernelTyped' /\ Ids' = Ids /\ Len(afd') = Len(afd) /\ \A m \in Ids : afd'[m].socket = afd[m].socket
    BY Zenon, <1>0, <1>5, <2>1, <2>2 DEF Changed, KernelTyped, RemoveCancel
  <2>4. faults' \in 0..MaxFaults
    BY <1>0, <1>5, AfdBoundsAssumption DEF RemoveCancel, Fault, OthersTyped
  <2> QED
    BY Zenon, <1>1, <1>5, <2>3, <2>4, CallChanges DEF RemoveCancel
<1> QED
  BY <1>3, <1>4, <1>5

\* select_iocp takes one entry from the port.
LEMMA Taken ==
  ASSUME NEW ids, queue \in QueueSet(ids), queue # <<>>, queue' = Tail(queue)
  PROVE  /\ queue' \in QueueSet(ids) /\ Head(queue) = queue[1] /\ 1 \in DOMAIN queue
         /\ Head(queue).kind = "afd" => Head(queue).state \in ids /\ Head(queue).file \in Nat
         /\ Head(queue).kind = "packet" => Head(queue).token \in Tokens
         /\ Len(queue) \in Nat \ {0} /\ DOMAIN queue = 1..Len(queue) /\ DOMAIN queue' = 1..(Len(queue) - 1)
         /\ \A i \in DOMAIN queue' : i + 1 \in DOMAIN queue /\ queue'[i] = queue[i + 1]
<1>1. /\ Head(queue) \in [kind : {"afd"}, state : ids, file : Nat] \cup [kind : {"packet"}, token : Tokens]
      /\ queue' \in QueueSet(ids) /\ Len(queue') = Len(queue) - 1
      /\ \A i \in 1..Len(queue') : queue'[i] = queue[i + 1]
  BY SeqRest DEF QueueSet
<1>2. Len(queue) \in Nat \ {0} /\ DOMAIN queue = 1..Len(queue) /\ DOMAIN queue' = 1..Len(queue')
  BY Zenon, <1>1, SeqEmpty, SeqLen DEF QueueSet
<1>3. Head(queue) = queue[1]
  OBVIOUS
<1>4. /\ Head(queue).kind = "afd" => Head(queue).state \in ids /\ Head(queue).file \in Nat
      /\ Head(queue).kind = "packet" => Head(queue).token \in Tokens
  <2>1. PICK x \in [kind : {"afd"}, state : ids, file : Nat] \cup [kind : {"packet"}, token : Tokens] : x = Head(queue)
    BY Zenon, <1>1
  <2>2. /\ x.kind = "afd" => x.state \in ids /\ x.file \in Nat
        /\ x.kind = "packet" => x.token \in Tokens
    BY ONLY x \in [kind : {"afd"}, state : ids, file : Nat] \cup [kind : {"packet"}, token : Tokens]
  <2> QED
    BY Zenon, <2>1, <2>2
<1>5. PICK k \in Nat \ {0} : k = Len(queue)
  BY Zenon, <1>2
<1>6. 1 \in 1..k /\ \A i \in 1..(k - 1) : i + 1 \in 1..k
  OBVIOUS
<1> QED
  BY Zenon, <1>1, <1>2, <1>3, <1>4, <1>5, <1>6

LEMMA SelectBase ==
  ASSUME Typed, Calls, Select
  PROVE  Typed' /\ Calls'
<1>0. KernelTyped /\ OthersTyped /\ CallsTyped /\ Reissued
  BY DEF Typed
<1>1. CASE SelectBegin \/ SelectReturn
  <2>1. /\ UNCHANGED <<callVars, afd, waker, socketVars, flight, queue, faults, current>>
        /\ ppc' \in {"idle", "get"} /\ failed' \in BOOLEAN /\ (events' = events \/ events' = <<>>)
    BY Zenon, <1>0, <1>1 DEF SelectBegin, SelectReturn, OthersTyped
  <2>2. events' \in Seq(PushedEvent)
    BY Zenon, <1>0, <2>1, SeqEmpty DEF OthersTyped
  <2>3. KernelTyped' /\ OthersTyped' /\ CallsTyped' /\ Reissued' /\ Ids' = Ids
    BY Zenon, <1>0, <2>1, <2>2 DEF KernelTyped, OthersTyped, CallsTyped, Reissued, Ids
  <2> QED
    BY <2>1, <2>3, CallsKept DEF Typed
<1>2. CASE GetPacket
  <2>1. queue # <<>> /\ Head(queue).kind = "packet" /\ queue' = Tail(queue)
    BY <1>2 DEF GetPacket, Getting
  <2>2. queue' \in QueueSet(Ids) /\ Head(queue).token \in Tokens
    BY Zenon, <1>0, <2>1, Taken DEF KernelTyped
  <2> DEFINE e == [state |-> 0, token |-> Head(queue).token, file |-> 0, owner |-> 0,
                   event |-> Event({"READABLE"}, FALSE, FALSE, FALSE)]
  <2>3. e \in PushedEvent
    BY Zenon, <2>2 DEF PushedEvent, Event, Kinds
  <2>4. events' = Append(events, e)
    BY <1>2 DEF GetPacket
  <2> HIDE DEF e
  <2>5. events' \in Seq(PushedEvent)
    BY <1>0, <2>3, <2>4, SeqAppend DEF OthersTyped
  <2>6. UNCHANGED <<callVars, afd, waker, ppc, current, failed, socketVars, flight, faults>>
    BY <1>2 DEF GetPacket
  <2>7. KernelTyped' /\ OthersTyped' /\ CallsTyped' /\ Reissued' /\ Ids' = Ids
    BY Zenon, <1>0, <2>2, <2>5, <2>6 DEF KernelTyped, OthersTyped, CallsTyped, Reissued, Ids
  <2> QED
    BY <2>6, <2>7, CallsKept DEF Typed
<1>3. CASE CompleteAfd
  <2>1. /\ queue # <<>> /\ Head(queue).kind = "afd" /\ queue' = Tail(queue)
        /\ UNCHANGED <<callVars, waker, failed, socketVars, flight, faults>>
    BY Zenon, <1>3 DEF CompleteAfd, Getting
  <2>2. queue' \in QueueSet(Ids) /\ Head(queue).state \in Ids /\ Head(queue).file \in Nat
    BY Zenon, <1>0, <2>1, Taken DEF KernelTyped
  <2>3. PICK n \in Ids : n = Head(queue).state
    BY <2>2
  <2>4. /\ Changed(n) /\ ((ppc' = "reissue" /\ current' = n) \/ UNCHANGED <<ppc, current>>)
        /\ UNCHANGED events \/ \E emitted \in SUBSET AfdPollFlags :
                                 events' = Append(events, Pushed(n, Head(queue).file, emitted))
    BY Zenon, <1>0, <1>3, <2>3, CompleteEffect DEF KernelTyped
  <2>5. afd[n] \in AfdSocketState /\ n \in Nat
    BY <1>0, StateType, SeqLen DEF KernelTyped, Ids
  <2>6. \A emitted : Pushed(n, Head(queue).file, emitted) \in PushedEvent
    BY Zenon, <2>2, <2>5, AfdEventType DEF Pushed, PushedEvent, AfdSocketState
  <2>7. events' \in Seq(PushedEvent)
    <3>1. CASE UNCHANGED events
      BY <1>0, <3>1 DEF OthersTyped
    <3>2. ASSUME NEW e \in PushedEvent, events' = Append(events, e) PROVE events' \in Seq(PushedEvent)
      BY <1>0, <3>2, SeqAppend DEF OthersTyped
    <3> QED
      BY <2>4, <2>6, <3>1, <3>2
  <2>8. KernelTyped'
    BY Zenon, <1>0, <2>1, <2>2, <2>4 DEF KernelTyped, Changed
  <2>9. OthersTyped'
    BY <1>0, <2>1, <2>4, <2>5, <2>7 DEF OthersTyped
  <2>10. CallsTyped' /\ Reissued'
    BY Zenon, <1>0, <2>1, <2>3, <2>4 DEF CallsTyped, Reissued, Changed
  <2> QED
    BY <2>1, <2>4, <2>8, <2>9, <2>10, ChangedKeepsCalls DEF Typed
<1>4. CASE Reissue
  <2>1. PICK n \in Ids : n = current
    BY <1>0, <1>4 DEF Reissue, Reissued
  <2>2. /\ IssueOk(n) \/ IssueThrows(n)
        /\ ppc' \in {"idle", "get"} /\ (events' = events \/ events' = <<>>) /\ failed' \in BOOLEAN
        /\ current' = 0 /\ UNCHANGED <<callVars, waker, socketVars, queue>>
    BY Zenon, <1>0, <1>4, <2>1 DEF Reissue, OthersTyped
  <2>3. /\ KernelTyped' /\ faults' \in 0..MaxFaults
        /\ Ids' = Ids /\ Len(afd') = Len(afd) /\ \A m \in Ids : afd'[m].socket = afd[m].socket
    BY Zenon, <1>0, <2>2, IssueTyped
  <2>4. events' \in Seq(PushedEvent) /\ current' \in Nat
    <3>1. events \in Seq(PushedEvent) /\ << >> \in Seq(PushedEvent)
      BY <1>0 DEF OthersTyped
    <3>2. events' \in Seq(PushedEvent)
      BY Zenon, <2>2, <3>1
    <3> QED
      BY <2>2, <3>2
  <2>5. OthersTyped' /\ CallsTyped' /\ Reissued'
    BY Zenon, <1>0, <2>2, <2>3, <2>4 DEF OthersTyped, CallsTyped, Reissued
  <2> QED
    BY Zenon, <2>2, <2>3, <2>5, CallsKept DEF Typed
<1> QED
  BY <1>1, <1>2, <1>3, <1>4 DEF Select

LEMMA BaseStep ==
  ASSUME Typed, Calls, [Next]_vars
  PROVE  Typed' /\ Calls'
<1>1. ASSUME NEW t \in Threads, CallBegins(t) PROVE Typed' /\ Calls'
  BY <1>1, AddEmplaceBase, UpdateMapBase, RemoveEraseBase DEF CallBegins
<1>2. ASSUME NEW t \in Threads, CallGoesOn(t) PROVE Typed' /\ Calls'
  BY <1>2, AddStateBase, AddFailsBase, CallOnBase DEF CallGoesOn
<1>3. ASSUME NEW n \in 1..MaxStates, Kernel(n) PROVE Typed' /\ Calls'
  BY <1>3, FinishBase DEF Kernel
<1>4. CASE Environment
  <2>1. CASE \E f \in flight : KernelFails(f)
    BY <2>1, FinishBase
  <2>2. CASE \/ \E h \in Sockets : OpenSocket(h) \/ CloseSocket(h)
             \/ \E h \in Sockets, flag \in Conditions : Arise(h, flag) \/ Cease(h, flag)
             \/ \E token \in WakerTokens : WakerNew(token)
             \/ WakerDrop \/ Wake
    <3>1. UNCHANGED <<callVars, afd, pollVars, flight, faults>>
      BY Zenon, <2>2 DEF OpenSocket, CloseSocket, Arise, Cease, WakerNew, WakerDrop, Wake
    <3> QED
      BY <2>2, <3>1, EnvironmentBase
  <2> QED
    BY <1>4, <2>1, <2>2 DEF Environment
<1>5. CASE UNCHANGED vars
  BY Zenon, <1>5, CallsKept DEF vars, Typed, KernelTyped, OthersTyped, CallsTyped, Reissued, Ids
<1> QED
  BY <1>1, <1>2, <1>3, <1>4, <1>5, SelectBase DEF Next

LEMMA BaseInvariant == Spec => [](Typed /\ Calls)
<1>1. Init => Typed /\ Calls
  <2> SUFFICES ASSUME Init PROVE Typed /\ Calls
    OBVIOUS
  <2>2. Len(afd) = 0 /\ afd \in Seq(AfdSocketState) /\ events \in Seq(PushedEvent) /\ queue \in QueueSet(Ids)
    BY SeqEmpty DEF Init, QueueSet
  <2>3. KernelTyped
    BY <2>2 DEF Init, KernelTyped, FlightSet
  <2>4. OthersTyped
    <3>1. open \in [Sockets -> BOOLEAN] /\ gen \in [Sockets -> Nat] /\ level \in [Sockets -> SUBSET AfdPollFlags]
      BY DEF Init
    <3>2. current \in Nat /\ faults \in 0..MaxFaults
      BY AfdBoundsAssumption DEF Init
    <3>3. careful \in BOOLEAN /\ failed \in BOOLEAN /\ waker \in Tokens \cup {NoToken} /\ ppc = "idle"
      BY Zenon DEF Init
    <3> QED
      BY <2>2, <3>1, <3>2, <3>3 DEF OthersTyped
  <2>5. CallsTyped /\ Reissued /\ Calls
    BY DEF Init, CallsTyped, Reissued, Calls
  <2> QED
    BY <2>3, <2>4, <2>5 DEF Typed
<1> QED
  BY <1>1, BaseStep, PTL DEF Spec

\* Every variable has its type: requests are for flags that AFD knows, and every
\* poll, completion, call and reissue is for a state that was made.
THEOREM TypeCorrect == Spec => []TypeOK
<1>1. Typed => TypeOK
  BY DEF Typed, KernelTyped, OthersTyped, CallsTyped, TypeOK, FlightSet, QueueSet
<1> QED
  BY <1>1, BaseInvariant, PTL

------------------------------------------------------------------------------
\* One operation at a time

Waiting(n) == \E i \in DOMAIN queue : Queued(i, n)

LEMMA CancelUnique ==
  ASSUME NEW n, Cancel(n), flight \in FlightSet(Ids), \A f, g \in flight : f.state = g.state => f = g
  PROVE  \A f, g \in flight' : f.state = g.state => f = g
<1> DEFINE C(f) == IF f.state = n THEN [f EXCEPT !.cancel = TRUE] ELSE f
<1>1. flight' = {C(f) : f \in flight}
  BY DEF Cancel
<1>2. \A f \in flight : C(f).state = f.state
  BY DEF FlightSet
<1> HIDE DEF C
<1> QED
  BY <1>1, <1>2

\* Polls are started and ended by nobody, a poll may be cancelled.
LEMMA QuietSingle ==
  ASSUME Typed, Single, Ids' = Ids, UNCHANGED queue, flight' = flight \/ \E n : Cancel(n),
         \A m \in Ids : afd'[m].status = "idle" <=> afd[m].status = "idle"
  PROVE  Single'
<1>1. flight \in FlightSet(Ids)
  BY DEF Typed, KernelTyped
<1>2. \A m : Running(m)' <=> Running(m)
  BY Zenon, <1>1, CancelType DEF Running
<1>3. \A f, g \in flight' : f.state = g.state => f = g
  BY Zenon, <1>1, CancelUnique DEF Single
<1>4. \A i, m : Queued(i, m)' <=> Queued(i, m)
  BY DEF Queued
<1> QED
  BY Zenon, <1>2, <1>3, <1>4 DEF Single

LEMMA SubmitSingle ==
  ASSUME Typed, Single, NEW n \in Ids, Submit(n), WantsPoll(n), UNCHANGED queue
  PROVE  Single'
<1>1. /\ flight' = flight \cup {Request(n)} /\ Ids' = Ids
      /\ \A m \in Ids \ {n} : afd'[m] = afd[m]
      /\ afd'[n].status = "pending"
  BY Zenon, SubmitEffect DEF Typed, KernelTyped, Changed
<1>2. Request(n).state = n
  BY DEF Request
<1>3. ~Running(n) /\ \A i \in DOMAIN queue : ~Queued(i, n)
  BY Zenon DEF WantsPoll, Single
<1>4. \A f, g \in flight' : f.state = g.state => f = g
  BY Zenon, <1>1, <1>2, <1>3 DEF Single, Running
<1>5. Running(n)' /\ \A m : m # n => (Running(m)' <=> Running(m))
  BY <1>1, <1>2 DEF Running
<1>6. \A i, m : Queued(i, m)' <=> Queued(i, m)
  BY DEF Queued
<1> QED
  BY Zenon, <1>1, <1>3, <1>4, <1>5, <1>6 DEF Single

LEMMA AddStateSingle ==
  ASSUME Typed, Single, NEW t \in Threads, AddState(t)
  PROVE  Single'
<1>1. op[t] \in Op
  BY OpFacts DEF Typed, AddState, At
<1>2. /\ Ids' = Ids \cup {Len(afd) + 1} /\ Len(afd) + 1 \notin Ids
      /\ \A n \in Ids : afd'[n] = afd[n]
      /\ afd'[Len(afd) + 1].status = "idle" /\ UNCHANGED <<flight, queue>>
  <2>1. NewState(t).status = "idle"
    BY Zenon DEF NewState
  <2>2. UNCHANGED <<flight, queue>>
    BY DEF AddState
  <2>3. KernelTyped /\ OthersTyped
    BY DEF Typed
  <2>4. /\ Ids' = Ids \cup {Len(afd) + 1} /\ Len(afd) + 1 \notin Ids
        /\ \A n \in Ids : afd'[n] = afd[n]
        /\ afd'[Len(afd) + 1] = NewState(t)
    BY Zenon, <1>1, <2>3, AddStateEffect
  <2> QED
    BY Zenon, <2>1, <2>2, <2>4
<1>3. \A m : (Running(m)' <=> Running(m)) /\ \A i : Queued(i, m)' <=> Queued(i, m)
  BY Zenon, <1>2 DEF Running, Queued
<1>4. ~Running(Len(afd) + 1)
  BY Zenon, <1>2 DEF Running, Typed, KernelTyped, FlightSet
<1>5. \A i \in DOMAIN queue : queue[i] \in [kind : {"afd"}, state : Ids, file : Nat] \cup [kind : {"packet"}, token : Tokens]
  BY SMTT(20), SeqElement, SeqLen DEF Typed, KernelTyped, QueueSet
<1>6. \A i : ~Queued(i, Len(afd) + 1)
  BY Zenon, <1>2, <1>5 DEF Queued
<1>7. PICK k : k = Len(afd) + 1 /\ ~Running(k) /\ (\A i : ~Queued(i, k)) /\ afd'[k].status = "idle"
  BY Zenon, <1>2, <1>4, <1>6
<1>8. \A m \in Ids' : m \in Ids \/ m = k
  BY Zenon, <1>2, <1>7
<1>9. \A m \in Ids' : afd'[m].status # "idle" <=> Running(m) \/ \E i \in DOMAIN queue : Queued(i, m)
  BY Zenon, <1>2, <1>7, <1>8 DEF Single
<1>10. \A m \in Ids' : \A i, j \in DOMAIN queue : Queued(i, m) /\ Queued(j, m) => i = j
  <2>1. \A m \in Ids : \A i, j \in DOMAIN queue : Queued(i, m) /\ Queued(j, m) => i = j
    BY Zenon DEF Single
  <2> QED
    BY Zenon, <1>7, <1>8, <2>1
<1>13. \A m \in Ids' : ~(Running(m) /\ \E i \in DOMAIN queue : Queued(i, m))
  BY Zenon, <1>7, <1>8 DEF Single
<1>11. queue' = queue /\ flight' = flight
  BY Zenon, <1>2
<1>12. \A f, g \in flight' : f.state = g.state => f = g
  BY Zenon, <1>11 DEF Single
<1> QED
  BY Zenon, <1>3, <1>9, <1>10, <1>11, <1>12, <1>13 DEF Single

\* The port gets an entry.
LEMMA Added ==
  ASSUME NEW ids, queue \in QueueSet(ids), NEW e, queue' = Append(queue, e)
  PROVE  /\ Len(queue) \in Nat /\ DOMAIN queue = 1..Len(queue) /\ DOMAIN queue' = 1..(Len(queue) + 1)
         /\ \A i \in DOMAIN queue : queue'[i] = queue[i]
         /\ queue'[Len(queue) + 1] = e
BY SeqLen DEF QueueSet

\* The end of a poll changes nothing that the state's owner set.
LEMMA FinishKeeps ==
  ASSUME KernelTyped, OthersTyped, NEW f \in flight, KernelCompletes(f) \/ KernelCancels(f) \/ KernelFails(f)
  PROVE  /\ f.state \in Ids /\ Changed(f.state) /\ Ids' = Ids
         /\ \A m \in Ids : afd'[m].status = afd[m].status /\ afd'[m].delete_pending = afd[m].delete_pending
         /\ ~afd[f.state].delete_pending =>
              /\ afd'[f.state].user_events = afd[f.state].user_events
              /\ afd'[f.state].pending_events = afd[f.state].pending_events
              /\ afd'[f.state].dropped = afd[f.state].dropped
<1>1. /\ afd \in Seq(AfdSocketState) /\ f.state \in Ids
      /\ f.request \in SUBSET AfdPollFlags /\ afd[f.state] \in AfdSocketState
  BY StateType DEF KernelTyped, FlightSet
<1>2. Seen(f) \in SUBSET (AfdPollFlags \cup {"local_close"})
  BY Zenon, <1>1 DEF Seen, OthersTyped, AfdSocketState
<1>3. PICK iosb \in {"success", "cancelled", "failed"}, revents \in SUBSET (AfdPollFlags \cup {"local_close"}) :
        Finish(f, iosb, revents)
  BY <1>2 DEF KernelCompletes, KernelCancels, KernelFails
<1>4. /\ Changed(f.state) /\ afd'[f.state].status = afd[f.state].status
      /\ afd'[f.state].delete_pending = afd[f.state].delete_pending
      /\ ~afd[f.state].delete_pending =>
              /\ afd'[f.state].user_events = afd[f.state].user_events
              /\ afd'[f.state].pending_events = afd[f.state].pending_events
              /\ afd'[f.state].dropped = afd[f.state].dropped
  BY Zenon, <1>1, <1>3, FinishEffect
<1> QED
  BY Zenon, <1>1, <1>4 DEF Changed

LEMMA FinishSingle ==
  ASSUME Typed, Single, NEW f \in flight, KernelCompletes(f) \/ KernelCancels(f) \/ KernelFails(f)
  PROVE  Single'
<1>1. PICK n \in Ids : n = f.state
  BY DEF Typed, KernelTyped, FlightSet
<1> DEFINE e == [kind |-> "afd", state |-> f.state, file |-> f.file]
<1>2. flight' = flight \ {f} /\ queue' = Append(queue, e)
  BY DEF KernelCompletes, KernelCancels, KernelFails, Finish
<1>3. Ids' = Ids /\ \A m \in Ids : afd'[m].status = afd[m].status
  BY Zenon, FinishKeeps DEF Typed
<1>4. e.kind = "afd" /\ e.state = n
  BY <1>1
<1> HIDE DEF e
<1>5. /\ Len(queue) \in Nat /\ DOMAIN queue = 1..Len(queue) /\ DOMAIN queue' = 1..(Len(queue) + 1)
      /\ \A i \in DOMAIN queue : queue'[i] = queue[i]
      /\ queue'[Len(queue) + 1] = e
  BY Zenon, <1>2, Added DEF Typed, KernelTyped
<1>6. /\ ~Running(n)' /\ Running(n) /\ \A m : m # n => (Running(m)' <=> Running(m))
      /\ \A g, k \in flight' : g.state = k.state => g = k
  BY Zenon, <1>1, <1>2 DEF Running, Single
<1>7. \A i : ~Queued(i, n)
  BY Zenon, <1>6 DEF Single, Queued
<1>8. \A i : Queued(i, n)' <=> i = Len(queue) + 1
  <2>1. \A i : i \in DOMAIN queue' <=> i \in DOMAIN queue \/ i = Len(queue) + 1
    BY ONLY <1>5
  <2> QED
    BY Zenon, <1>4, <1>5, <1>7, <2>1 DEF Queued
<1>9. ASSUME NEW i, NEW m, m # n PROVE Queued(i, m)' <=> Queued(i, m)
  <2>1. i \in DOMAIN queue' <=> i \in DOMAIN queue \/ i = Len(queue) + 1
    BY ONLY <1>5
  <2>2. CASE i \in DOMAIN queue
    BY Zenon, <1>5, <2>1, <2>2 DEF Queued
  <2>3. CASE i \notin DOMAIN queue
    <3>1. i \in DOMAIN queue' => queue'[i].state = n
      BY Zenon, <1>4, <1>5, <2>1, <2>3
    <3> QED
      BY Zenon, <1>9, <2>3, <3>1 DEF Queued
  <2> QED
    BY Zenon, <2>2, <2>3
<1>10. \A m : Waiting(m)' <=> (m = n \/ Waiting(m))
  BY SMTT(20), <1>5, <1>8, <1>9 DEF Waiting, Queued
<1>11. \A m \in Ids : Waiting(m) <=> \E i \in DOMAIN queue : Queued(i, m)
  BY DEF Waiting
<1>12. \A m \in Ids : Waiting(m)' <=> \E i \in DOMAIN queue' : Queued(i, m)'
  BY DEF Waiting
<1>13. \A m \in Ids : \A i, j \in DOMAIN queue' : Queued(i, m)' /\ Queued(j, m)' => i = j
  <2>1. ASSUME NEW m \in Ids, NEW i, NEW j, Queued(i, m)', Queued(j, m)', m # n PROVE i = j
    <3>1. Queued(i, m) /\ Queued(j, m)
      BY <1>9, <2>1
    <3>2. i \in DOMAIN queue /\ j \in DOMAIN queue
      BY <3>1 DEF Queued
    <3> QED
      BY Zenon, <3>1, <3>2 DEF Single
  <2> QED
    BY <1>8, <2>1
<1> QED
  BY Zenon, <1>3, <1>6, <1>10, <1>11, <1>12, <1>13 DEF Single

\* A packet joins or leaves the port.
LEMMA WakeSingle ==
  ASSUME Typed, Single, Wake
  PROVE  Single'
<1>1. queue' = Append(queue, [kind |-> "packet", token |-> waker]) /\ UNCHANGED <<afd, flight>>
  BY DEF Wake
<1>2. /\ Len(queue) \in Nat /\ DOMAIN queue = 1..Len(queue) /\ DOMAIN queue' = 1..(Len(queue) + 1)
      /\ \A i \in DOMAIN queue : queue'[i] = queue[i]
      /\ queue'[Len(queue) + 1].kind = "packet"
  BY SMTT(20), <1>1, Added DEF Typed, KernelTyped
<1>3. \A i, m : Queued(i, m)' <=> Queued(i, m)
  BY <1>2 DEF Queued
<1>4. \A m : Running(m)' <=> Running(m)
  BY <1>1 DEF Running
<1>5. \A m : (\E i \in DOMAIN queue' : Queued(i, m)') <=> (\E i \in DOMAIN queue : Queued(i, m))
  BY Zenon, <1>3 DEF Queued
<1>6. Ids' = Ids
  BY <1>1 DEF Ids
<1>7. \A m \in Ids : \A i, j \in DOMAIN queue' : Queued(i, m)' /\ Queued(j, m)' => i = j
  <2>1. ASSUME NEW m \in Ids, NEW i, NEW j, Queued(i, m), Queued(j, m) PROVE i = j
    <3>1. i \in DOMAIN queue /\ j \in DOMAIN queue
      BY <2>1 DEF Queued
    <3> QED
      BY Zenon, <2>1, <3>1 DEF Single
  <2> QED
    BY <1>3, <2>1
<1> QED
  BY Zenon, <1>1, <1>4, <1>5, <1>6, <1>7 DEF Single

LEMMA TakenSingle ==
  ASSUME Typed, Single, queue # <<>>, queue' = Tail(queue), UNCHANGED flight, Ids' = Ids,
         \A m \in Ids : afd'[m].status = IF Queued(1, m) THEN "idle" ELSE afd[m].status
  PROVE  Single'
<1>1. /\ Len(queue) \in Nat \ {0} /\ DOMAIN queue = 1..Len(queue) /\ DOMAIN queue' = 1..(Len(queue) - 1)
      /\ \A i \in DOMAIN queue' : i + 1 \in DOMAIN queue /\ queue'[i] = queue[i + 1]
  BY Zenon, Taken DEF Typed, KernelTyped
<1>2. \A i \in DOMAIN queue' : \A m : Queued(i, m)' <=> Queued(i + 1, m)
  BY <1>1 DEF Queued
<1>3. \A m : Running(m)' <=> Running(m)
  BY DEF Running
<1>0. 1 \in DOMAIN queue /\ \A i, j \in DOMAIN queue' : i + 1 # 1 /\ (i + 1 = j + 1 => i = j)
  BY ONLY <1>1
<1>4. \A m \in Ids : \A i, j \in DOMAIN queue' : Queued(i, m)' /\ Queued(j, m)' => i = j
  <2>1. ASSUME NEW m \in Ids, NEW i \in DOMAIN queue', NEW j \in DOMAIN queue', Queued(i, m)', Queued(j, m)'
        PROVE  i = j
    <3>1. i + 1 \in DOMAIN queue /\ j + 1 \in DOMAIN queue /\ Queued(i + 1, m) /\ Queued(j + 1, m)
      BY Zenon, <1>1, <1>2, <2>1
    <3>2. i + 1 = j + 1
      BY Zenon, <3>1 DEF Single
    <3> QED
      BY Zenon, <1>0, <3>2
  <2> QED
    BY Zenon, <2>1
<1>5. ASSUME NEW m \in Ids, Queued(1, m)
      PROVE  /\ afd'[m].status = "idle" /\ ~Running(m)'
             /\ ~\E i \in DOMAIN queue' : Queued(i, m)'
  <2>1. ~Running(m) /\ \A i \in DOMAIN queue : Queued(i, m) => i = 1
    BY Zenon, <1>0, <1>5 DEF Single
  <2> QED
    BY Zenon, <1>0, <1>1, <1>2, <1>3, <1>5, <2>1
<1>6. ASSUME NEW m \in Ids, ~Queued(1, m)
      PROVE  /\ afd'[m].status = afd[m].status
             /\ (\E i \in DOMAIN queue' : Queued(i, m)') <=> (\E i \in DOMAIN queue : Queued(i, m))
  <2>1. ASSUME NEW i \in DOMAIN queue, Queued(i, m) PROVE i - 1 \in DOMAIN queue' /\ Queued(i - 1, m)'
    <3>0. i # 1 /\ i \in DOMAIN queue
      BY Zenon, <1>6, <2>1
    <3>1. i - 1 \in DOMAIN queue' /\ (i - 1) + 1 = i
      BY ONLY <1>1, <3>0
    <3> QED
      BY Zenon, <1>2, <2>1, <3>1
  <2> QED
    BY Zenon, <1>1, <1>2, <1>6, <2>1
<1> QED
  BY Zenon, <1>3, <1>4, <1>5, <1>6 DEF Single

LEMMA IssueSingle ==
  ASSUME Typed, Single, NEW n \in Ids, IssueOk(n) \/ IssueThrows(n), UNCHANGED queue
  PROVE  Single'
<1>0. afd \in Seq(AfdSocketState)
  BY DEF Typed, KernelTyped
<1>1. CASE WantsPoll(n) /\ Submit(n)
  BY <1>1, SubmitSingle
<1>2. CASE IssueElse(n)
  <2>1. CASE UNCHANGED <<flight, afd>>
    BY <2>1, QuietSingle DEF Ids
  <2>2. CASE WantsMore(n) /\ Cancel(n) /\ Changed(n) /\ afd'[n].status = "cancelled"
    <3>1. afd[n].status # "idle" /\ afd'[n].status # "idle" /\ Ids' = Ids
          /\ \A m \in Ids \ {n} : afd'[m] = afd[m]
      BY Zenon, <2>2 DEF WantsMore, Changed
    <3> QED
      BY Zenon, <2>2, <3>1, QuietSingle
  <2> QED
    BY Zenon, <1>0, <1>2, <2>1, <2>2, IssueElseEffect
<1>3. CASE IssueThrows(n)
  <2>1. UNCHANGED flight /\ afd'[n].status = afd[n].status /\ Ids' = Ids /\ \A m \in Ids \ {n} : afd'[m] = afd[m]
    BY Zenon, <1>0, <1>3, IssueThrowsEffect DEF Changed
  <2> QED
    BY Zenon, <2>1, QuietSingle
<1> QED
  BY <1>1, <1>2, <1>3 DEF IssueOk

LEMMA CallSingle ==
  ASSUME Typed, Calls, Single, NEW t \in Threads, CallBegins(t) \/ CallGoesOn(t)
  PROVE  Single'
<1>0. afd \in Seq(AfdSocketState)
  BY DEF Typed, KernelTyped
<1>1. CASE CallBegins(t) \/ AddStateFails(t) \/ AddUndo(t)
  <2>1. UNCHANGED <<afd, flight, queue>>
    BY Zenon, <1>1 DEF CallBegins, RemoveErase, AddEmplace, UpdateMap, AddStateFails, AddUndo
  <2> QED
    BY Zenon, <2>1, QuietSingle DEF Ids
<1>2. CASE UpdateSet(t) \/ CallIssues(t) \/ RemoveCancel(t)
  <2>1. op[t].step \in {"add_issue", "update_set", "update_issue", "remove_cancel"}
    BY <1>2 DEF UpdateSet, CallIssues, RemoveCancel, At
  <2>2. PICK n \in Ids : n = op[t].state
    BY Zenon, <2>1, CallFacts
  <2>3. CASE UpdateSet(t)
    <3>1. op[t].token \in Tokens /\ interests_to_afd_flags(op[t].interests) \in SUBSET AfdPollFlags
      BY Zenon, <2>1, CallFacts, FlagsType DEF Op
    <3>2. Changed(n) /\ afd'[n].status = afd[n].status
      BY Zenon, <1>0, <2>2, <2>3, <3>1, UpdateSetEffect
    <3>3. UNCHANGED <<flight, queue>>
      BY <2>3 DEF UpdateSet
    <3> QED
      BY Zenon, <3>2, <3>3, QuietSingle DEF Changed
  <2>4. CASE CallIssues(t)
    <3>1. IssueOk(n) \/ IssueThrows(n)
      BY Zenon, <2>2, <2>4 DEF CallIssues
    <3>2. UNCHANGED queue
      BY Zenon, <2>4 DEF CallIssues
    <3> QED
      BY <3>1, <3>2, IssueSingle
  <2>5. CASE RemoveCancel(t)
    <3>1. Changed(n) /\ (afd'[n].status = "idle" <=> afd[n].status = "idle") /\ (Cancel(n) \/ UNCHANGED flight)
      BY Zenon, <1>0, <2>2, <2>5, RemoveCancelEffect
    <3>2. UNCHANGED queue
      BY <2>5 DEF RemoveCancel
    <3> QED
      BY Zenon, <3>1, <3>2, QuietSingle DEF Changed
  <2> QED
    BY <1>2, <2>3, <2>4, <2>5
<1> QED
  BY <1>1, <1>2, AddStateSingle DEF CallGoesOn

LEMMA SelectSingle ==
  ASSUME Typed, Single, Select
  PROVE  Single'
<1>0. afd \in Seq(AfdSocketState) /\ queue \in QueueSet(Ids)
  BY DEF Typed, KernelTyped
<1>1. CASE SelectBegin \/ SelectReturn
  <2>1. UNCHANGED <<afd, flight, queue>>
    BY <1>1 DEF SelectBegin, SelectReturn
  <2> QED
    BY <2>1, QuietSingle DEF Ids
<1>2. CASE GetPacket
  <2>1. queue # <<>> /\ Head(queue).kind = "packet" /\ queue' = Tail(queue) /\ UNCHANGED <<afd, flight>>
    BY <1>2 DEF GetPacket, Getting
  <2>2. \A m : ~Queued(1, m)
    BY <1>0, <2>1, Taken DEF Queued
  <2> QED
    BY Zenon, <2>1, <2>2, TakenSingle DEF Ids
<1>3. CASE CompleteAfd
  <2>1. queue # <<>> /\ Head(queue).kind = "afd" /\ queue' = Tail(queue) /\ UNCHANGED flight
    BY Zenon, <1>3 DEF CompleteAfd, Getting
  <2>2. Head(queue).state \in Ids /\ Head(queue) = queue[1] /\ 1 \in DOMAIN queue
    BY Zenon, <1>0, <2>1, Taken
  <2>3. PICK n \in Ids : n = Head(queue).state
    BY <2>2
  <2>4. Changed(n) /\ afd'[n].status = "idle"
    BY Zenon, <1>0, <1>3, <2>3, CompleteEffect
  <2>5. \A m : Queued(1, m) <=> m = n
    BY <2>1, <2>2, <2>3 DEF Queued
  <2> QED
    BY Zenon, <2>1, <2>4, <2>5, TakenSingle DEF Changed
<1>4. CASE Reissue
  <2>1. current \in Ids /\ (IssueOk(current) \/ IssueThrows(current)) /\ UNCHANGED queue
    BY <1>4 DEF Reissue, Typed, Reissued
  <2> QED
    BY <2>1, IssueSingle
<1> QED
  BY <1>1, <1>2, <1>3, <1>4 DEF Select

LEMMA SingleStep ==
  ASSUME Typed, Calls, Single, [Next]_vars
  PROVE  Single'
<1>1. ASSUME UNCHANGED <<afd, flight, queue>> PROVE Single'
  BY <1>1, QuietSingle DEF Ids
<1>2. CASE Environment
  <2>1. CASE \/ \E h \in Sockets : OpenSocket(h) \/ CloseSocket(h)
             \/ \E h \in Sockets, flag \in Conditions : Arise(h, flag) \/ Cease(h, flag)
             \/ \E token \in WakerTokens : WakerNew(token)
             \/ WakerDrop
    <3>1. UNCHANGED <<afd, flight, queue>>
      BY Zenon, <2>1 DEF OpenSocket, CloseSocket, Arise, Cease, WakerNew, WakerDrop
    <3> QED
      BY <1>1, <3>1
  <2> QED
    BY <1>2, <2>1, FinishSingle, WakeSingle DEF Environment
<1>3. ASSUME NEW n \in 1..MaxStates, Kernel(n) PROVE Single'
  BY <1>3, FinishSingle DEF Kernel
<1>4. CASE UNCHANGED vars
  BY <1>1, <1>4 DEF vars
<1> QED
  BY <1>2, <1>3, <1>4, CallSingle, SelectSingle DEF Next

LEMMA SingleInvariant == Spec => []Single
<1>1. Init => Single
  BY DEF Init, Single, Running, Queued, Ids
<1>2. Typed /\ Calls /\ Single /\ [Next]_vars => Single'
  BY SingleStep
<1> QED
  BY <1>1, <1>2, BaseInvariant, PTL DEF Spec

\* One iosb and one poll_info serve all polls of an AfdSocketState, and it has one
\* poll at a time, in flight or waiting on the port, exactly when its status says so.
THEOREM OneOperationEach == Spec => []OneOperation
<1>1. ASSUME Typed, Single, NEW n \in Ids
      PROVE  IF afd[n].status = "idle"
             THEN Operations(n) = {}
             ELSE \E operation \in Operations(n) : Operations(n) = {operation}
  <2>1. afd[n].status = "idle" => Operations(n) = {}
    <3>1. afd[n].status = "idle" => /\ \A f \in flight : f.state # n
                                    /\ \A i \in DOMAIN queue : ~Queued(i, n)
      BY Zenon, <1>1 DEF Single, Running
    <3> QED
      BY <3>1 DEF Operations, Queued
  <2>2. ASSUME NEW f \in flight, f.state = n PROVE Operations(n) = {f}
    <3>1. \A g \in flight : g.state = n <=> g = f
      BY Zenon, <1>1, <2>2 DEF Single
    <3>2. \A i \in DOMAIN queue : ~(queue[i].kind = "afd" /\ queue[i].state = n)
      BY Zenon, <1>1, <2>2 DEF Single, Running, Queued
    <3> QED
      BY Zenon, <3>1, <3>2 DEF Operations
  <2>3. ASSUME NEW i \in DOMAIN queue, Queued(i, n) PROVE Operations(n) = {i}
    BY SMTT(20), <1>1, <2>3 DEF Single, Operations, Running, Queued
  <2>4. afd[n].status # "idle" =>
          (\E f \in flight : f.state = n) \/ (\E i \in DOMAIN queue : Queued(i, n))
    BY Zenon, <1>1 DEF Single, Running
  <2>5. afd[n].status # "idle" => \E operation : Operations(n) = {operation}
    BY Zenon, <2>2, <2>3, <2>4
  <2> QED
    BY Zenon, <2>1, <2>5
<1>2. Typed /\ Single => OneOperation
  BY <1>1 DEF OneOperation
<1> QED
  BY <1>2, BaseInvariant, SingleInvariant, PTL

=============================================================================
