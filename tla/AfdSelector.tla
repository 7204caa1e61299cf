----------------------------- MODULE AfdSelector -----------------------------
(***************************************************************************)
(* The Windows Selector for sockets: an AfdSocketState per registration,   *)
(* the AFD poll operations in flight, the completion port, the Registry    *)
(* calls of several threads, the thread that polls, and the Waker.         *)
(*                                                                         *)
(* AFD polls are one-shot.  issue_afd_poll starts one, cancel asks for its *)
(* early end, its completion is queued on the port, and select_iocp hands  *)
(* it to complete_afd_operation, which starts the next one.  A step is a   *)
(* critical section of the state's mutex.  At most one Registry call per   *)
(* socket is in progress, made by the owner of the open socket.            *)
(***************************************************************************)
EXTENDS Readiness, Naturals, Sequences, FiniteSets

CONSTANTS
  Sockets,     \* socket handle values
  Threads,     \* threads that call the Registry
  Tokens,
  WakerTokens, \* tokens for Wakers, {} for a program without one
  InterestSets,\* the Interests callers use
  Conditions,  \* AFD flags that may arise on a socket
  Capacity,    \* Events::capacity()
  MaxOpens,    \* bound: how often one handle value is opened
  MaxStates,   \* bound: AfdSocketStates made in all
  MaxFaults,   \* bound: system calls that fail for want of resources
  MaxPackets,  \* bound: Waker packets queued at a time
  NoReg,       \* no registration
  NoToken      \* no Waker

ASSUME AfdBoundsAssumption ==
  /\ Capacity \in Nat
  /\ MaxOpens \in Nat
  /\ MaxStates \in Nat
  /\ MaxFaults \in Nat
  /\ MaxPackets \in Nat

AfdPollFlags == {"receive", "receive_expedited", "send", "disconnect", "abort",
                 "accept", "connect_fail"}

ASSUME AfdInterestAssumption ==
  /\ WakerTokens \subseteq Tokens
  /\ InterestSets \subseteq ValidInterests
  /\ Conditions \subseteq AfdPollFlags

VARIABLES
  careful,       \* the program never closes a socket that is registered
  registrations_,\* socket -> its entry in the map, or NoReg
  afd,           \* AfdSocketStates made so far
  op,            \* thread -> the Registry call in progress
  waker,         \* token of the active Waker, or NoToken
  \* select_iocp
  ppc,           \* where the polling thread is
  current,       \* the AfdSocketState complete_afd_operation is about to reissue
  events,        \* Events of the poll in progress; the program has them after it
  failed,        \* the last poll returned an error
  \* kernel
  open,          \* socket -> is it open
  gen,           \* socket -> how often it was opened: names the open socket
  level,         \* socket -> flags that hold of it
  flight,        \* AFD polls in progress
  queue,         \* the completion port
  faults

callVars == <<careful, registrations_, op>>
pollVars == <<ppc, current, events, failed>>
socketVars == <<open, gen, level>>
vars == <<callVars, afd, waker, pollVars, socketVars, flight, queue, faults>>

Entry == [token : Tokens, interests : InterestSets, state : Nat]

ASSUME AfdNothingAssumption ==
  /\ NoReg \notin Entry /\ NoReg \notin [token : Tokens, interests : InterestSets]
  /\ NoToken \notin Tokens

\* AfdSocketState, with iosb.status and poll_info.handles[0].events as the
\* kernel left them.  History: file is the open socket it was made for, dropped
\* says that poll has failed while starting the next operation.
AfdSocketState ==
  [socket : Sockets, token : Tokens,
   user_events : SUBSET AfdPollFlags, pending_events : SUBSET AfdPollFlags,
   status : {"idle", "pending", "cancelled"}, delete_pending : BOOLEAN,
   iosb : {"pending", "success", "cancelled", "failed"},
   revents : SUBSET (AfdPollFlags \cup {"local_close"}),
   file : Nat, dropped : BOOLEAN]

Steps == {"add_state", "add_issue", "add_undo", "update_set", "update_issue", "remove_cancel"}

Op == [step : Steps, socket : Sockets, token : Tokens, interests : InterestSets, state : Nat]

NoOp == [step |-> "idle"]

Ids == 1..Len(afd)

\* Fields nothing reads any more get a fixed value: what the kernel wrote, once
\* its completion has been looked at, and the rest once delete_pending is set.
Consumed(s) == [s EXCEPT !.iosb = "success", !.revents = {}]

Retired(s) ==
  IF s.delete_pending
  THEN [Consumed(s) EXCEPT !.user_events = {}, !.pending_events = {}, !.dropped = FALSE]
  ELSE s

------------------------------------------------------------------------------
\* Kernel (external).

\* A system call that fails for want of resources.
Fault == faults < MaxFaults /\ faults' = faults + 1

OpenSocket(h) ==
  /\ ~open[h]
  /\ gen[h] < MaxOpens
  /\ open' = [open EXCEPT ![h] = TRUE]
  /\ gen' = [gen EXCEPT ![h] = @ + 1]
  /\ level' = [level EXCEPT ![h] = {}]
  /\ UNCHANGED <<callVars, afd, waker, pollVars, flight, queue, faults>>

CloseSocket(h) ==
  /\ open[h]
  /\ \A t \in Threads : op[t] # NoOp => op[t].socket # h
  /\ careful => registrations_[h] = NoReg
  /\ open' = [open EXCEPT ![h] = FALSE]
  /\ level' = [level EXCEPT ![h] = {}]
  /\ UNCHANGED <<callVars, afd, waker, pollVars, gen, flight, queue, faults>>

Arise(h, flag) ==
  /\ open[h]
  /\ level' = [level EXCEPT ![h] = @ \cup {flag}]
  /\ UNCHANGED <<callVars, afd, waker, pollVars, open, gen, flight, queue, faults>>

Cease(h, flag) ==
  /\ level' = [level EXCEPT ![h] = @ \ {flag}]
  /\ UNCHANGED <<callVars, afd, waker, pollVars, open, gen, flight, queue, faults>>

\* What a poll in flight sees: closing the socket ends it with local_close.
Seen(f) ==
  LET h == afd[f.state].socket
  IN IF open[h] /\ gen[h] = f.file THEN level[h] \cap f.request ELSE {"local_close"}

Finish(f, iosb, revents) ==
  /\ flight' = flight \ {f}
  /\ afd' = [afd EXCEPT ![f.state] = Retired([@ EXCEPT !.iosb = iosb, !.revents = revents])]
  /\ queue' = Append(queue, [kind |-> "afd", state |-> f.state, file |-> f.file])
  /\ UNCHANGED <<callVars, waker, pollVars, socketVars>>

\* A poll ends: with what it sees, because it was cancelled before it saw
\* anything, or with an error.
KernelCompletes(f) ==
  Seen(f) # {} /\ Finish(f, "success", Seen(f)) /\ UNCHANGED faults

KernelCancels(f) ==
  f.cancel /\ Seen(f) = {} /\ Finish(f, "cancelled", {}) /\ UNCHANGED faults

KernelFails(f) ==
  Fault /\ Finish(f, "failed", {})

------------------------------------------------------------------------------
\* AfdHelper and issue_afd_poll

\* AfdHelper::cancel: nothing to do when the poll has ended.
Cancel(n) ==
  flight' = {IF f.state = n THEN [f EXCEPT !.cancel = TRUE] ELSE f : f \in flight}

\* A variant that takes local_close, part of every request, for an interest.
Submit_local_close(n) ==
  LET s == afd[n]
  IN /\ open[s.socket]
     /\ flight' = flight \cup {[state |-> n, request |-> s.user_events,
                                file |-> gen[s.socket], cancel |-> FALSE]}
     /\ afd' = [afd EXCEPT ![n] = [@ EXCEPT !.iosb = "pending", !.status = "pending",
                                            !.pending_events = s.user_events \cup {"local_close"}]]
     /\ UNCHANGED faults

\* AfdHelper::poll succeeds.
Submit(n) ==
  LET s == afd[n]
  IN /\ open[s.socket]
     /\ flight' = flight \cup {[state |-> n, request |-> s.user_events,
                                file |-> gen[s.socket], cancel |-> FALSE]}
     /\ afd' = [afd EXCEPT ![n] = [@ EXCEPT !.iosb = "pending", !.status = "pending",
                                            !.pending_events = s.user_events,
                                            !.dropped = FALSE]]
     /\ UNCHANGED faults

\* AfdHelper::poll throws: the socket is closed, or resources are short.
SubmitFails(n) ==
  /\ (~open[afd[n].socket] /\ UNCHANGED faults) \/ Fault
  /\ afd' = [afd EXCEPT ![n] = [@ EXCEPT !.iosb = "pending", !.dropped = TRUE]]
  /\ UNCHANGED flight

WantsPoll(n) == ~afd[n].delete_pending /\ afd[n].user_events # {} /\ afd[n].status = "idle"

\* The poll in flight asks for too little.
WantsMore(n) ==
  /\ ~afd[n].delete_pending /\ afd[n].status = "pending"
  /\ ~(afd[n].user_events \subseteq afd[n].pending_events)

\* issue_afd_poll when it starts no poll: there is nothing to ask for, the poll
\* in flight asks for it, or that poll is cancelled and its completion will
\* start another one.
IssueElse(n) ==
  /\ ~WantsPoll(n)
  /\ \/ /\ WantsMore(n)
        /\ Cancel(n)
        /\ afd' = [afd EXCEPT ![n] = [@ EXCEPT !.status = "cancelled", !.pending_events = {},
                                               !.dropped = FALSE]]
     \/ ~WantsMore(n) /\ UNCHANGED <<flight, afd>>
  /\ UNCHANGED faults

\* A variant that does not wait for the cancelled poll to come back.
IssueOk_eager(n) ==
  IF afd[n].status = "cancelled" /\ ~afd[n].delete_pending THEN Submit(n)
  ELSE (WantsPoll(n) /\ Submit(n)) \/ IssueElse(n)

\* A variant that leaves the narrower poll running.
IssueOk_no_widen(n) ==
  \/ WantsPoll(n) /\ Submit(n)
  \/ ~WantsPoll(n) /\ UNCHANGED <<flight, afd, faults>>

IssueOk(n) == (WantsPoll(n) /\ Submit(n)) \/ IssueElse(n)

IssueThrows(n) ==
  \/ WantsPoll(n) /\ SubmitFails(n)
  \/ /\ WantsMore(n) /\ Fault
     /\ afd' = [afd EXCEPT ![n] = [@ EXCEPT !.dropped = TRUE]]
     /\ UNCHANGED flight

------------------------------------------------------------------------------
\* Selector::add, update and remove

At(t, step) == op[t].step = step

Idle(t, h) ==
  /\ op[t] = NoOp
  /\ \A u \in Threads : op[u] # NoOp => op[u].socket # h
  /\ open[h]

Call(t, step, h, token, interests, n) ==
  op' = [op EXCEPT ![t] = [step |-> step, socket |-> h, token |-> token,
                           interests |-> interests, state |-> n]]

Goto(t, step) == op' = [op EXCEPT ![t] = [@ EXCEPT !.step = step]]

Return(t) == op' = [op EXCEPT ![t] = NoOp]

AddEmplace(t, h, token, interests) ==
  /\ Idle(t, h)
  /\ Len(afd) + Cardinality({u \in Threads : At(u, "add_state")}) < MaxStates
  /\ registrations_[h] = NoReg
  /\ registrations_' = [registrations_ EXCEPT
                          ![h] = [token |-> token, interests |-> interests, state |-> 0]]
  /\ Call(t, "add_state", h, token, interests, 0)
  /\ UNCHANGED <<careful, afd, waker, pollVars, socketVars, flight, queue, faults>>

\* A new AfdSocketState goes into the map and gets its interests.
AddState(t) ==
  LET o == op[t]
      n == Len(afd) + 1
  IN /\ At(t, "add_state")
     /\ afd' = Append(afd, [socket |-> o.socket, token |-> o.token,
                            user_events |-> interests_to_afd_flags(o.interests),
                            pending_events |-> {}, status |-> "idle",
                            delete_pending |-> FALSE, iosb |-> "success", revents |-> {},
                            file |-> gen[o.socket], dropped |-> FALSE])
     /\ registrations_' = [registrations_ EXCEPT ![o.socket] = [@ EXCEPT !.state = n]]
     /\ op' = [op EXCEPT ![t] = [@ EXCEPT !.step = "add_issue", !.state = n]]
     /\ UNCHANGED <<careful, waker, pollVars, socketVars, flight, queue, faults>>

\* get_base_socket throws.
AddStateFails(t) ==
  /\ At(t, "add_state")
  /\ Fault
  /\ Goto(t, "add_undo")
  /\ UNCHANGED <<careful, registrations_, afd, waker, pollVars, socketVars, flight, queue>>

AddUndo(t) ==
  /\ At(t, "add_undo")
  /\ registrations_' = [registrations_ EXCEPT ![op[t].socket] = NoReg]
  /\ Return(t)
  /\ UNCHANGED <<careful, afd, waker, pollVars, socketVars, flight, queue, faults>>

UpdateMap(t, h, token, interests) ==
  /\ Idle(t, h)
  /\ registrations_[h] # NoReg
  /\ registrations_' = [registrations_ EXCEPT
                          ![h] = [@ EXCEPT !.token = token, !.interests = interests]]
  /\ Call(t, "update_set", h, token, interests, registrations_[h].state)
  /\ UNCHANGED <<careful, afd, waker, pollVars, socketVars, flight, queue, faults>>

\* set_afd_interest, the critical section before issue_afd_poll.
UpdateSet(t) ==
  /\ At(t, "update_set")
  /\ afd' = [afd EXCEPT ![op[t].state] =
               Retired([@ EXCEPT !.token = op[t].token,
                                 !.user_events = interests_to_afd_flags(op[t].interests)])]
  /\ Goto(t, "update_issue")
  /\ UNCHANGED <<careful, registrations_, waker, pollVars, socketVars, flight, queue, faults>>

CallIssues(t) ==
  /\ op[t].step \in {"add_issue", "update_issue"}
  /\ \/ IssueOk(op[t].state) /\ Return(t)
     \/ /\ IssueThrows(op[t].state)
        /\ IF At(t, "add_issue") THEN Goto(t, "add_undo") ELSE Return(t)
  /\ UNCHANGED <<careful, registrations_, waker, pollVars, socketVars, queue>>

RemoveErase(t, h) ==
  /\ Idle(t, h)
  /\ registrations_[h] # NoReg
  /\ registrations_' = [registrations_ EXCEPT ![h] = NoReg]
  /\ Call(t, "remove_cancel", h, registrations_[h].token, registrations_[h].interests,
          registrations_[h].state)
  /\ UNCHANGED <<careful, afd, waker, pollVars, socketVars, flight, queue, faults>>

\* A variant that only cancels the poll.
RemoveCancel_keeps(t) ==
  /\ At(t, "remove_cancel")
  /\ Cancel(op[t].state)
  /\ Return(t)
  /\ UNCHANGED <<careful, registrations_, afd, waker, pollVars, socketVars, queue, faults>>

\* The status is left alone when there is nothing to cancel or cancel throws.
RemoveCancel(t) ==
  LET n == op[t].state
  IN /\ At(t, "remove_cancel")
     /\ \/ /\ afd[n].status = "pending"
           /\ Cancel(n)
           /\ afd' = [afd EXCEPT ![n] = Retired([@ EXCEPT !.delete_pending = TRUE,
                                                          !.status = "cancelled"])]
           /\ UNCHANGED faults
        \/ /\ (afd[n].status # "pending" /\ UNCHANGED faults) \/ Fault
           /\ afd' = [afd EXCEPT ![n] = Retired([@ EXCEPT !.delete_pending = TRUE])]
           /\ UNCHANGED flight
     /\ Return(t)
     /\ UNCHANGED <<careful, registrations_, waker, pollVars, socketVars, queue>>

------------------------------------------------------------------------------
\* The Waker: one at a time, its wakes are packets on the port.

WakerNew(token) ==
  /\ waker = NoToken
  /\ waker' = token
  /\ UNCHANGED <<callVars, afd, pollVars, socketVars, flight, queue, faults>>

WakerDrop ==
  /\ waker # NoToken
  /\ waker' = NoToken
  /\ UNCHANGED <<callVars, afd, pollVars, socketVars, flight, queue, faults>>

Packets == SelectSeq(queue, LAMBDA q : q.kind = "packet")

Wake ==
  /\ waker # NoToken
  /\ Len(Packets) < MaxPackets
  /\ queue' = Append(queue, [kind |-> "packet", token |-> waker])
  /\ UNCHANGED <<callVars, afd, waker, pollVars, socketVars, flight, faults>>

------------------------------------------------------------------------------
\* Selector::select and select_iocp

SelectBegin ==
  /\ ppc = "idle"
  /\ ppc' = IF Capacity = 0 THEN "idle" ELSE "get"
  /\ failed' = FALSE
  /\ UNCHANGED <<callVars, afd, waker, current, events, socketVars, flight, queue, faults>>

Getting == ppc = "get" /\ queue # <<>> /\ Len(events) < Capacity

GetPacket ==
  /\ Getting
  /\ Head(queue).kind = "packet"
  /\ queue' = Tail(queue)
  /\ events' = Append(events, [state |-> 0, token |-> Head(queue).token,
                               file |-> 0, owner |-> 0,
                               event |-> Event({"READABLE"}, FALSE, FALSE, FALSE)])
  /\ UNCHANGED <<callVars, afd, waker, ppc, current, failed, socketVars, flight, faults>>

\* The flags of a completed poll; a poll that failed counts as connect_fail.
CompletedFlags(s) ==
  CASE s.iosb = "failed"  -> {"connect_fail"}
    [] s.iosb = "success" -> s.revents
    [] OTHER              -> {}

\* A variant that keeps asking for what it has just reported.
CompleteAfd_level ==
  LET q == Head(queue)
      s == [afd[q.state] EXCEPT !.status = "idle", !.pending_events = {}]
      emitted == CompletedFlags(s) \cap s.user_events
      more == ~s.delete_pending /\ "local_close" \notin CompletedFlags(s)
  IN /\ Getting /\ q.kind = "afd"
     /\ queue' = Tail(queue)
     /\ afd' = [afd EXCEPT ![q.state] =
                  Retired([Consumed(s) EXCEPT !.delete_pending = ~more])]
     /\ events' = IF more /\ emitted # {}
                  THEN Append(events, [state |-> q.state, token |-> s.token,
                                       event |-> AfdEvent(emitted), file |-> q.file, owner |-> s.file])
                  ELSE events
     /\ IF more THEN ppc' = "reissue" /\ current' = q.state
                ELSE UNCHANGED <<ppc, current>>
     /\ UNCHANGED <<callVars, waker, failed, socketVars, flight, faults>>

\* complete_afd_operation up to the end of its critical section, and the push.
CompleteAfd ==
  LET q == Head(queue)
      s == [afd[q.state] EXCEPT !.status = "idle", !.pending_events = {}]
      emitted == CompletedFlags(s) \cap s.user_events
      more == ~s.delete_pending /\ "local_close" \notin CompletedFlags(s)
      left == IF more THEN s.user_events \ emitted ELSE s.user_events
  IN /\ Getting /\ q.kind = "afd"
     /\ queue' = Tail(queue)
     /\ afd' = [afd EXCEPT ![q.state] =
                  Retired([Consumed(s) EXCEPT !.delete_pending = ~more, !.user_events = left])]
     /\ events' = IF more /\ emitted # {}
                  THEN Append(events, [state |-> q.state, token |-> s.token,
                                       event |-> AfdEvent(emitted), file |-> q.file, owner |-> s.file])
                  ELSE events
     /\ IF more /\ left # {} THEN ppc' = "reissue" /\ current' = q.state
                             ELSE UNCHANGED <<ppc, current>>
     /\ UNCHANGED <<callVars, waker, failed, socketVars, flight, faults>>

\* Its end: issue_afd_poll, whose exception leaves select_iocp.
Reissue ==
  /\ ppc = "reissue"
  /\ \/ IssueOk(current) /\ ppc' = "get" /\ UNCHANGED <<events, failed>>
     \/ IssueThrows(current) /\ ppc' = "idle" /\ events' = <<>> /\ failed' = TRUE
  /\ current' = 0
  /\ UNCHANGED <<callVars, waker, socketVars, queue>>

\* Events is full, or nothing came for the time that was left.
SelectReturn ==
  /\ ppc = "get"
  /\ queue = <<>> \/ Len(events) = Capacity
  /\ ppc' = "idle"
  /\ events' = <<>>
  /\ UNCHANGED <<callVars, afd, waker, current, failed, socketVars, flight, queue, faults>>

------------------------------------------------------------------------------
Init ==
  /\ careful \in BOOLEAN
  /\ registrations_ = [h \in Sockets |-> NoReg]
  /\ afd = <<>>
  /\ op = [t \in Threads |-> NoOp]
  /\ waker = NoToken
  /\ ppc = "idle" /\ current = 0 /\ events = <<>> /\ failed = FALSE
  /\ open = [h \in Sockets |-> FALSE]
  /\ gen = [h \in Sockets |-> 0]
  /\ level = [h \in Sockets |-> {}]
  /\ flight = {} /\ queue = <<>> /\ faults = 0

CallBegins(t) ==
  \E h \in Sockets :
    \/ RemoveErase(t, h)
    \/ \E token \in Tokens, interests \in InterestSets :
         AddEmplace(t, h, token, interests) \/ UpdateMap(t, h, token, interests)

CallGoesOn(t) ==
  \/ AddState(t) \/ AddStateFails(t) \/ AddUndo(t)
  \/ UpdateSet(t) \/ CallIssues(t) \/ RemoveCancel(t)

Select == SelectBegin \/ GetPacket \/ CompleteAfd \/ Reissue \/ SelectReturn

Kernel(n) ==
  \E f \in flight : f.state = n /\ (KernelCompletes(f) \/ KernelCancels(f))

Environment ==
  \/ \E h \in Sockets : OpenSocket(h) \/ CloseSocket(h)
  \/ \E h \in Sockets, flag \in Conditions : Arise(h, flag) \/ Cease(h, flag)
  \/ \E f \in flight : KernelFails(f)
  \/ \E token \in WakerTokens : WakerNew(token)
  \/ WakerDrop \/ Wake

Next ==
  \/ \E t \in Threads : CallBegins(t) \/ CallGoesOn(t)
  \/ Select
  \/ \E n \in 1..MaxStates : Kernel(n)
  \/ Environment

Spec == Init /\ [][Next]_vars

\* The program keeps polling, calls run to their end, and the kernel completes
\* a poll that has something to report or is cancelled.
Fairness ==
  /\ WF_vars(Select)
  /\ \A t \in Threads : WF_vars(CallGoesOn(t))
  /\ \A n \in 1..MaxStates : WF_vars(Kernel(n))

FairSpec == Spec /\ Fairness

------------------------------------------------------------------------------
PushedEvent ==
  [state : Nat, token : Tokens, file : Nat, owner : Nat,
   event : [readiness : SUBSET Kinds, error : BOOLEAN,
            read_closed : BOOLEAN, write_closed : BOOLEAN]]

\* Every variable has its type: no request that AFD does not know, no operation
\* on a socket state that was never made.
TypeOK ==
  /\ careful \in BOOLEAN
  /\ registrations_ \in [Sockets -> Entry \cup {NoReg}]
  /\ afd \in Seq(AfdSocketState)
  /\ op \in [Threads -> Op \cup {NoOp}]
  /\ waker \in Tokens \cup {NoToken}
  /\ ppc \in {"idle", "get", "reissue"}
  /\ current \in Nat
  /\ events \in Seq(PushedEvent)
  /\ failed \in BOOLEAN
  /\ open \in [Sockets -> BOOLEAN]
  /\ gen \in [Sockets -> Nat]
  /\ level \in [Sockets -> SUBSET AfdPollFlags]
  /\ flight \in SUBSET [state : Ids, request : SUBSET AfdPollFlags, file : Nat, cancel : BOOLEAN]
  /\ queue \in Seq([kind : {"afd"}, state : Ids, file : Nat] \cup [kind : {"packet"}, token : Tokens])
  /\ faults \in 0..MaxFaults

\* The AFD polls of one AfdSocketState, running or waiting on the port.
Operations(n) ==
  {f \in flight : f.state = n} \cup
    {i \in DOMAIN queue : queue[i].kind = "afd" /\ queue[i].state = n}

\* One iosb and one poll_info serve all polls of an AfdSocketState, so it has one
\* poll at a time, and exactly when its status says so.  A cancelled poll counts
\* until its completion is taken from the port.
OneOperation ==
  \A n \in Ids :
    IF afd[n].status = "idle"
    THEN Operations(n) = {}
    ELSE \E operation \in Operations(n) : Operations(n) = {operation}

\* Until poll has failed on it, a registered socket never falls silent: between
\* two calls on it, every flag the program is still waiting for is part of the
\* poll in flight, or that poll is on its way back and will be followed by one
\* that asks for all of them.
StaysArmed ==
  \A h \in Sockets :
    /\ registrations_[h] # NoReg
    /\ \A t \in Threads : op[t] # NoOp => op[t].socket # h
    => LET n == registrations_[h].state
           s == afd[n]
       IN \/ s.delete_pending
          \/ s.dropped
          \/ s.user_events = {}
          \/ s.status = "pending" /\ s.user_events \subseteq s.pending_events
          \/ s.status = "cancelled"
          \/ ppc = "reissue" /\ current = n

\* If the program deregisters a socket before it closes it, every Event carries
\* readiness of the socket its token was given for, also when the handle value
\* is reused by another thread during the poll: the token is kept with the
\* operation and not looked up by handle.
EventFromItsSource ==
  careful => \A i \in DOMAIN events : events[i].file = events[i].owner

\* poll() fails only when the system is out of resources or the program has
\* closed a socket that was still registered.
PollSucceeds == careful /\ failed => faults > 0

------------------------------------------------------------------------------
\* The promise of SelectorContract.

ContractRegistered ==
  [h \in Sockets |->
     IF \/ registrations_[h] = NoReg
        \/ \E t \in Threads : /\ op[t] # NoOp /\ op[t].socket = h
                              /\ op[t].step \in {"add_state", "add_issue", "add_undo"}
     THEN NoReg
     ELSE [token |-> registrations_[h].token, interests |-> registrations_[h].interests]]

\* What holds of the socket that was registered and is asked for, unless poll has
\* failed on it.
ContractReady ==
  {d \in Sockets \X Conditions :
     /\ ContractRegistered[d[1]] # NoReg
     /\ LET s == afd[registrations_[d[1]].state]
        IN /\ ~s.delete_pending /\ ~s.dropped
           /\ open[d[1]] /\ gen[d[1]] = s.file
           /\ d[2] \in level[d[1]] \cap interests_to_afd_flags(registrations_[d[1]].interests)}

\* A flag is due until it is taken out of user_events.
ContractDue ==
  {d \in ContractReady : d[2] \in afd[registrations_[d[1]].state].user_events}

ContractReported ==
  {afd[n].socket : n \in Ids \cap {events[i].state : i \in DOMAIN events}}

Contract == INSTANCE SelectorContract
              WITH Handles <- Sockets, What <- Conditions,
                   registered <- ContractRegistered, ready <- ContractReady,
                   due <- ContractDue, reported <- ContractReported

\* As with epoll, the AFD selector behaves as the atomic registry of
\* SelectorContract, here with one report for each flag, and makes every report
\* that is due as long as starting a poll on the socket does not fail.
ImplementsContract == Contract!Spec

==============================================================================
