------------------------- MODULE AfdSourceProofs -------------------------
(***************************************************************************)
(* What AfdSelector promises the program about its sockets: they stay      *)
(* armed, and Events and errors are about the sockets they name.           *)
(***************************************************************************)
EXTENDS AfdSelectorProofs

USE DEF callVars, pollVars, socketVars

------------------------------------------------------------------------------
\* Sockets stay armed

Reissuing(n) == ppc = "reissue" /\ current = n

Armed(n) ==
  \/ afd[n].delete_pending
  \/ afd[n].dropped
  \/ afd[n].user_events = {}
  \/ afd[n].status = "pending" /\ afd[n].user_events \subseteq afd[n].pending_events
  \/ afd[n].status = "cancelled"
  \/ Reissuing(n)

\* The socket is registered and no call on it is in progress.
Settled(h) == registrations_[h] # NoReg /\ \A t \in Threads : op[t] # NoOp => op[t].socket # h

LEMMA SettledState ==
  ASSUME Typed, Calls, NEW h \in Sockets, Settled(h)
  PROVE  StateOf(h, registrations_[h].state)
<1>1. EntryOK(h)
  BY DEF Calls, Settled
<1>2. \A t \in Threads : op[t].step \in {"add_state", "add_undo"} => op[t].socket # h
  BY OpFacts DEF Settled, Typed
<1> QED
  BY <1>1, <1>2 DEF EntryOK

LEMMA ArmedBefore ==
  ASSUME StaysArmed, NEW h \in Sockets, Settled(h)
  PROVE  Armed(registrations_[h].state)
BY DEF StaysArmed, Settled, Armed, Reissuing

LEMMA ArmedAfter ==
  ASSUME \A h \in Sockets : Settled(h)' => Armed(registrations_[h].state)'
  PROVE  StaysArmed'
BY DEF StaysArmed, Settled, Armed, Reissuing

LEMMA IssueArms ==
  ASSUME Typed, NEW n \in Ids, IssueOk(n) \/ IssueThrows(n)
  PROVE  Armed(n)' /\ Changed(n)
<1>0. afd \in Seq(AfdSocketState) /\ afd[n] \in AfdSocketState
  BY StateType DEF Typed, KernelTyped
<1>1. CASE WantsPoll(n) /\ Submit(n)
  BY <1>0, <1>1, SubmitEffect DEF Armed
<1>2. CASE IssueElse(n)
  <2>1. ~WantsPoll(n)
    BY <1>2 DEF IssueElse
  <2>2. CASE ~WantsMore(n) /\ UNCHANGED <<flight, afd>>
    <3>1. afd'[n] = afd[n] /\ Changed(n)
      BY <1>0, <2>2 DEF Changed, Ids
    <3>2. afd[n].status \in {"idle", "pending", "cancelled"}
      BY <1>0 DEF AfdSocketState
    <3> QED
      BY <2>1, <2>2, <3>1, <3>2 DEF WantsPoll, WantsMore, Armed
  <2> QED
    BY <1>0, <1>2, <2>2, IssueElseEffect DEF Armed
<1>3. CASE IssueThrows(n)
  BY <1>0, <1>3, IssueThrowsEffect DEF Armed
<1> QED
  BY <1>1, <1>2, <1>3 DEF IssueOk

\* A call changes the entry and the state of its own socket only.
LEMMA CallArmed ==
  ASSUME Typed, Calls, StaysArmed, NEW t \in Threads, NEW h \in Sockets,
         \A g \in Sockets \ {h} : registrations_'[g] = registrations_[g],
         \A u \in Threads \ {t} : op'[u] = op[u],
         op[t] # NoOp => op[t].socket = h,
         \A n \in Ids : afd[n].socket # h => afd'[n] = afd[n],
         UNCHANGED <<ppc, current>>,
         \/ registrations_'[h] = NoReg
         \/ op'[t] # NoOp /\ op'[t].socket = h
         \/ Armed(registrations_[h].state)'
  PROVE  StaysArmed'
<1> SUFFICES ASSUME NEW g \in Sockets, Settled(g)' PROVE Armed(registrations_[g].state)'
  BY ArmedAfter
<1>1. CASE g = h
  BY <1>1 DEF Settled
<1>2. CASE g # h
  <2>1. registrations_'[g] = registrations_[g] /\ Settled(g)
    BY <1>2 DEF Settled
  <2>2. PICK n \in Ids : n = registrations_[g].state /\ afd[n].socket = g
    BY <2>1, SettledState DEF StateOf
  <2>3. Armed(n) /\ afd'[n] = afd[n]
    BY <1>2, <2>1, <2>2, ArmedBefore
  <2>4. Armed(n)'
    BY Zenon, <2>3 DEF Armed, Reissuing
  <2> QED
    BY <2>1, <2>2, <2>4
<1> QED
  BY <1>1, <1>2

LEMMA CallBeginsArmed ==
  ASSUME Typed, Calls, StaysArmed, NEW t \in Threads, CallBegins(t)
  PROVE  StaysArmed'
<1>0. registrations_ \in [Sockets -> Entry \cup {NoReg}] /\ op \in [Threads -> Op \cup {NoOp}]
  BY DEF Typed, CallsTyped
<1>1. PICK h \in Sockets :
        \/ RemoveErase(t, h)
        \/ \E token \in Tokens, interests \in InterestSets :
             AddEmplace(t, h, token, interests) \/ UpdateMap(t, h, token, interests)
  BY DEF CallBegins
<1>2. /\ op[t] = NoOp /\ UNCHANGED <<afd, ppc, current>>
      /\ \E e : registrations_' = [registrations_ EXCEPT ![h] = e]
      /\ \E step \in Steps : \E token, interests, n : Call(t, step, h, token, interests, n)
  BY Zenon, <1>1 DEF RemoveErase, AddEmplace, UpdateMap, Idle, Steps
<1>3. \A g \in Sockets \ {h} : registrations_'[g] = registrations_[g]
  BY <1>0, <1>2
<1>4. PICK step \in Steps : \E token, interests, n : Call(t, step, h, token, interests, n)
  BY <1>2
<1>5. (\A u \in Threads \ {t} : op'[u] = op[u]) /\ op'[t].step # "idle" /\ op'[t].socket = h
  BY <1>0, <1>4 DEF Call, Steps
<1>6. op'[t] # NoOp
  BY <1>5, IdleOp
<1> QED
  BY <1>2, <1>3, <1>5, <1>6, CallArmed

LEMMA CallGoesOnArmed ==
  ASSUME Typed, Calls, StaysArmed, NEW t \in Threads, CallGoesOn(t)
  PROVE  StaysArmed'
<1>0. /\ registrations_ \in [Sockets -> Entry \cup {NoReg}] /\ op \in [Threads -> Op \cup {NoOp}]
      /\ afd \in Seq(AfdSocketState)
  BY DEF Typed, CallsTyped, KernelTyped
<1>1. op[t] \in Op /\ op[t] # NoOp /\ CallOK(t)
  <2>1. op[t].step # "idle"
    BY Zenon DEF CallGoesOn, AddState, AddStateFails, AddUndo, UpdateSet, CallIssues, RemoveCancel, At
  <2> QED
    BY <2>1, OpFacts DEF Typed, Calls
<1>2. PICK h \in Sockets : h = op[t].socket
  BY <1>1 DEF Op
<1>3. UNCHANGED <<ppc, current>>
  BY Zenon DEF CallGoesOn, AddState, AddStateFails, AddUndo, UpdateSet, CallIssues, RemoveCancel
<1>4. ASSUME NEW step \in Steps, op' = [op EXCEPT ![t] = [@ EXCEPT !.step = step]]
      PROVE  op'[t] # NoOp /\ op'[t].socket = h /\ \A u \in Threads \ {t} : op'[u] = op[u]
  <2>1. op'[t].step = step /\ op'[t].socket = h /\ \A u \in Threads \ {t} : op'[u] = op[u]
    BY <1>0, <1>1, <1>2, <1>4 DEF Op
  <2> QED
    BY <2>1, IdleOp DEF Steps
<1>5. CASE AddState(t)
  <2>1. /\ registrations_' = [registrations_ EXCEPT ![h] = [@ EXCEPT !.state = Len(afd) + 1]]
        /\ op' = [op EXCEPT ![t] = [@ EXCEPT !.step = "add_issue", !.state = Len(afd) + 1]]
    BY <1>2, <1>5 DEF AddState
  <2>2. \A g \in Sockets \ {h} : registrations_'[g] = registrations_[g]
    BY <1>0, <2>1
  <2>3. op'[t].step = "add_issue" /\ op'[t].socket = h /\ \A u \in Threads \ {t} : op'[u] = op[u]
    BY <1>0, <1>1, <1>2, <2>1 DEF Op
  <2>4. \A n \in Ids : afd'[n] = afd[n]
    BY <1>1, <1>5, AddStateEffect DEF Typed
  <2>5. op'[t] # NoOp
    BY <2>3, IdleOp
  <2> QED
    BY <1>1, <1>2, <1>3, <2>2, <2>3, <2>4, <2>5, CallArmed
<1>6. CASE AddStateFails(t)
  <2>1. UNCHANGED <<registrations_, afd>> /\ op' = [op EXCEPT ![t] = [@ EXCEPT !.step = "add_undo"]]
    BY <1>6 DEF AddStateFails, Goto
  <2> QED
    BY Zenon, <1>1, <1>2, <1>3, <1>4, <2>1, CallArmed DEF Steps
<1>7. CASE AddUndo(t)
  <2>1. /\ UNCHANGED afd /\ op' = [op EXCEPT ![t] = NoOp]
        /\ registrations_' = [registrations_ EXCEPT ![h] = NoReg]
    BY <1>2, <1>7 DEF AddUndo, Return
  <2>2. /\ registrations_'[h] = NoReg /\ \A g \in Sockets \ {h} : registrations_'[g] = registrations_[g]
        /\ \A u \in Threads \ {t} : op'[u] = op[u]
    BY <1>0, <2>1
  <2> QED
    BY <1>1, <1>2, <1>3, <2>1, <2>2, CallArmed
<1>8. CASE UpdateSet(t) \/ CallIssues(t) \/ RemoveCancel(t)
  <2>1. op[t].step \in {"add_issue", "update_set", "update_issue", "remove_cancel"} /\ UNCHANGED registrations_
    BY <1>8 DEF UpdateSet, CallIssues, RemoveCancel, At
  <2>2. PICK n \in Ids : n = op[t].state /\ afd[n].socket = h
    BY <1>2, <2>1, CallFacts
  <2>3. ASSUME Changed(n) PROVE \A m \in Ids : afd[m].socket # h => afd'[m] = afd[m]
    BY Zenon, <2>2, <2>3 DEF Changed
  <2>4. CASE UpdateSet(t)
    <3>1. op[t].token \in Tokens /\ interests_to_afd_flags(op[t].interests) \in SUBSET AfdPollFlags
      BY <1>1, FlagsType DEF Op
    <3>2. Changed(n) /\ op' = [op EXCEPT ![t] = [@ EXCEPT !.step = "update_issue"]]
      BY Zenon, <1>0, <2>2, <2>4, <3>1, UpdateSetEffect DEF UpdateSet, Goto
    <3> QED
      BY <1>1, <1>2, <1>3, <1>4, <2>1, <2>3, <3>2, CallArmed DEF Steps
  <2>5. CASE CallIssues(t)
    <3>1. IssueOk(n) \/ IssueThrows(n)
      BY <2>2, <2>5 DEF CallIssues
    <3>2. Armed(n)' /\ Changed(n)
      BY <3>1, IssueArms
    <3>3. registrations_'[h].state = n
      BY <1>1, <1>2, <2>1, <2>2, <2>5 DEF CallOK, CallIssues
    <3>4. \A u \in Threads \ {t} : op'[u] = op[u]
      BY <1>0, <2>5 DEF CallIssues, Return, Goto
    <3>5. Armed(registrations_[h].state)'
      BY <3>2, <3>3
    <3> QED
      BY <1>1, <1>2, <1>3, <2>1, <2>3, <3>2, <3>4, <3>5, CallArmed
  <2>6. CASE RemoveCancel(t)
    <3>1. Changed(n)
      BY <1>0, <2>2, <2>6, RemoveCancelEffect
    <3>2. \A u \in Threads \ {t} : op'[u] = op[u]
      BY <1>0, <2>6 DEF RemoveCancel, Return
    <3>3. registrations_'[h] = NoReg
      BY <1>1, <1>2, <2>1, <2>6 DEF CallOK, RemoveCancel, At
    <3> QED
      BY <1>1, <1>2, <1>3, <2>1, <2>3, <3>1, <3>2, <3>3, CallArmed
  <2> QED
    BY <1>8, <2>4, <2>5, <2>6
<1> QED
  BY <1>5, <1>6, <1>7, <1>8 DEF CallGoesOn

\* A step that is no call changes one state at most.
LEMMA OtherArmed ==
  ASSUME Typed, Calls, StaysArmed, UNCHANGED <<registrations_, op>>,
         \A n \in Ids : Armed(n) => Armed(n)'
  PROVE  StaysArmed'
<1> SUFFICES ASSUME NEW h \in Sockets, Settled(h)' PROVE Armed(registrations_[h].state)'
  BY ArmedAfter
<1>1. Settled(h) /\ registrations_'[h] = registrations_[h]
  BY DEF Settled
<1>2. PICK n \in Ids : n = registrations_[h].state
  BY <1>1, SettledState DEF StateOf
<1>3. Armed(n)'
  BY <1>1, <1>2, ArmedBefore
<1> QED
  BY <1>1, <1>2, <1>3

LEMMA SelectArmed ==
  ASSUME Typed, Calls, StaysArmed, Select
  PROVE  StaysArmed'
<1>0. afd \in Seq(AfdSocketState) /\ queue \in QueueSet(Ids) /\ UNCHANGED <<registrations_, op>>
  BY Zenon DEF Typed, KernelTyped, Select, SelectBegin, GetPacket, CompleteAfd, Reissue, SelectReturn
<1>1. CASE SelectBegin \/ SelectReturn \/ GetPacket
  <2>1. UNCHANGED afd /\ ppc # "reissue"
    BY <1>1 DEF SelectBegin, SelectReturn, GetPacket, Getting
  <2> QED
    BY <1>0, <2>1, OtherArmed DEF Armed, Reissuing
<1>2. CASE CompleteAfd
  <2>1. queue # <<>> /\ Head(queue).kind = "afd" /\ queue' = Tail(queue) /\ ppc # "reissue"
    BY Zenon, <1>2 DEF CompleteAfd, Getting
  <2>2. PICK n \in Ids : n = Head(queue).state
    BY <1>0, <2>1, Taken
  <2>3. Changed(n) /\ Armed(n)'
    BY Zenon, <1>0, <1>2, <2>2, CompleteEffect DEF Armed, Reissuing
  <2>4. \A m \in Ids \ {n} : Armed(m) => Armed(m)'
    BY <2>1, <2>3 DEF Changed, Armed, Reissuing
  <2> QED
    BY <1>0, <2>3, <2>4, OtherArmed
<1>3. CASE Reissue
  <2>1. PICK n \in Ids : n = current
    BY <1>3 DEF Reissue, Typed, Reissued
  <2>2. Armed(n)' /\ Changed(n)
    BY <1>3, <2>1, IssueArms DEF Reissue
  <2>3. \A m \in Ids \ {n} : Armed(m) => Armed(m)'
    BY <2>1, <2>2 DEF Changed, Armed, Reissuing
  <2> QED
    BY <1>0, <2>2, <2>3, OtherArmed
<1> QED
  BY <1>1, <1>2, <1>3 DEF Select

LEMMA KernelArmed ==
  ASSUME Typed, Calls, StaysArmed, NEW f \in flight, KernelCompletes(f) \/ KernelCancels(f) \/ KernelFails(f)
  PROVE  StaysArmed'
<1>1. PICK n \in Ids : n = f.state
  BY DEF Typed, KernelTyped, FlightSet
<1>2. /\ Changed(n) /\ afd'[n].status = afd[n].status /\ afd'[n].delete_pending = afd[n].delete_pending
      /\ ~afd[n].delete_pending =>
           /\ afd'[n].user_events = afd[n].user_events
           /\ afd'[n].pending_events = afd[n].pending_events
           /\ afd'[n].dropped = afd[n].dropped
  BY <1>1, FinishKeeps DEF Typed
<1>3. UNCHANGED <<registrations_, op, ppc, current>>
  BY DEF KernelCompletes, KernelCancels, KernelFails, Finish
<1>4. Armed(n) => Armed(n)'
  BY <1>2, <1>3 DEF Armed, Reissuing
<1>5. \A m \in Ids \ {n} : Armed(m) => Armed(m)'
  BY <1>2, <1>3 DEF Changed, Armed, Reissuing
<1> QED
  BY <1>3, <1>4, <1>5, OtherArmed

LEMMA ArmedStep ==
  ASSUME Typed, Calls, StaysArmed, [Next]_vars
  PROVE  StaysArmed'
<1>1. ASSUME UNCHANGED <<registrations_, op, afd, ppc, current>> PROVE StaysArmed'
  BY <1>1, OtherArmed DEF Armed, Reissuing
<1>2. CASE Environment
  <2>1. CASE \/ \E h \in Sockets : OpenSocket(h) \/ CloseSocket(h)
             \/ \E h \in Sockets, flag \in Conditions : Arise(h, flag) \/ Cease(h, flag)
             \/ \E token \in WakerTokens : WakerNew(token)
             \/ WakerDrop \/ Wake
    <3>1. UNCHANGED <<registrations_, op, afd, ppc, current>>
      BY Zenon, <2>1 DEF OpenSocket, CloseSocket, Arise, Cease, WakerNew, WakerDrop, Wake
    <3> QED
      BY <1>1, <3>1
  <2> QED
    BY <1>2, <2>1, KernelArmed DEF Environment
<1>3. ASSUME NEW n \in 1..MaxStates, Kernel(n) PROVE StaysArmed'
  BY <1>3, KernelArmed DEF Kernel
<1>4. CASE UNCHANGED vars
  BY <1>1, <1>4 DEF vars
<1> QED
  BY <1>2, <1>3, <1>4, CallBeginsArmed, CallGoesOnArmed, SelectArmed DEF Next

\* Until poll has failed on it, a registered socket never falls silent: between two
\* calls on it, every flag the program waits for is part of the poll in flight, or
\* of the one that complete_afd_operation starts when that poll comes back.
THEOREM SocketsStayArmed == Spec => []StaysArmed
<1>1. Init => StaysArmed
  BY DEF Init, StaysArmed
<1>2. Typed /\ Calls /\ StaysArmed /\ [Next]_vars => StaysArmed'
  BY ArmedStep
<1> QED
  BY <1>1, <1>2, BaseInvariant, PTL DEF Spec

------------------------------------------------------------------------------
\* States that are held

\* The map holds the state, or a remove in progress is about to mark it.
Held(n) ==
  LET h == afd[n].socket
  IN \/ registrations_[h] # NoReg /\ registrations_[h].state = n
     \/ \E t \in Threads : op[t].step = "remove_cancel" /\ op[t].state = n

\* A poll is in progress, or complete_afd_operation is about to start one.
Active(n) == afd[n].status # "idle" \/ Reissuing(n)

\* Only a state that is held is polled again, and a call that adds a socket finds
\* its state untouched.
HeldActive ==
  /\ \A n \in Ids : ~afd[n].delete_pending /\ Active(n) => Held(n)
  /\ \A t \in Threads, n \in Ids :
       op[t].step \in {"add_issue", "add_undo"} /\ registrations_[op[t].socket].state = n => ~Active(n)

\* While a careful program holds a state, its socket is open and still the one the
\* state was made for, and so is the one that its poll is about.
HeldOpen ==
  careful =>
    /\ \A h \in Sockets : registrations_[h] # NoReg => open[h]
    /\ \A n \in Ids : Held(n) => gen[afd[n].socket] = afd[n].file

SameFile ==
  careful =>
    /\ \A f \in flight : f.file = afd[f.state].file
    /\ \A i \in DOMAIN queue : queue[i].kind = "afd" => queue[i].file = afd[queue[i].state].file

Holding == HeldActive /\ HeldOpen /\ SameFile

\* Steps that are no calls: no socket is opened or closed, and no state becomes active.
LEMMA OtherHolding ==
  ASSUME Typed, Holding, UNCHANGED <<careful, registrations_, op, open, gen>>, Ids' = Ids,
         NEW n \in Ids, Changed(n), Active(n)' => Active(n), \A m \in Ids \ {n} : Active(m)' => Active(m),
         SameFile'
  PROVE  Holding'
<1>1. \A m \in Ids : /\ afd'[m].socket = afd[m].socket /\ afd'[m].file = afd[m].file
                     /\ afd[m].delete_pending => afd'[m].delete_pending
                     /\ Active(m)' => Active(m)
  BY DEF Changed
<1>2. \A m \in Ids : Held(m)' <=> Held(m)
  BY <1>1 DEF Held
<1>3. HeldActive'
  BY <1>1, <1>2 DEF Holding, HeldActive
<1>4. HeldOpen'
  BY <1>1, <1>2 DEF Holding, HeldOpen
<1> QED
  BY <1>3, <1>4 DEF Holding

LEMMA EnvironmentHolding ==
  ASSUME Typed, Holding, UNCHANGED <<careful, registrations_, op, open, gen, afd, ppc, current>>, SameFile'
  PROVE  Holding'
<1>1. Ids' = Ids /\ \A m : (Held(m)' <=> Held(m)) /\ (Active(m)' <=> Active(m))
  BY DEF Ids, Held, Active, Reissuing
<1> QED
  BY Zenon, <1>1 DEF Holding, HeldActive, HeldOpen

\* The files of the polls are right after a step that starts none.
LEMMA SameFileKept ==
  ASSUME SameFile, UNCHANGED careful, KernelTyped, Ids' = Ids, \A m \in Ids : afd'[m].file = afd[m].file,
         \/ flight' \subseteq flight
         \/ \E n : Cancel(n),
         \A i \in DOMAIN queue' : queue'[i].kind = "afd" =>
           queue'[i].state \in Ids /\
           \/ \E j \in DOMAIN queue : queue'[i] = queue[j]
           \/ \E f \in flight : queue'[i].state = f.state /\ queue'[i].file = f.file
  PROVE  SameFile'
<1>1. \A f \in flight : f.state \in Ids
  BY DEF KernelTyped, FlightSet
<1>2. \A g \in flight' : \E f \in flight : g.state = f.state /\ g.file = f.file
  BY CancelType DEF KernelTyped
<1>3. careful => \A g \in flight' : g.file = afd'[g.state].file
  BY <1>1, <1>2 DEF SameFile
<1>4. careful => \A i \in DOMAIN queue' : queue'[i].kind = "afd" => queue'[i].file = afd'[queue'[i].state].file
  BY DEF SameFile
<1> QED
  BY <1>3, <1>4 DEF SameFile

LEMMA QueueStates ==
  ASSUME KernelTyped
  PROVE  \A i \in DOMAIN queue : queue[i].kind = "afd" => queue[i].state \in Ids
<1>1. \A i \in DOMAIN queue : queue[i] \in [kind : {"afd"}, state : Ids, file : Nat] \cup [kind : {"packet"}, token : Tokens]
  BY SeqElement, SeqLen DEF KernelTyped, QueueSet
<1> QED
  BY <1>1

\* The socket of a state that is held is open, if the program is careful.
LEMMA HeldIsOpen ==
  ASSUME Typed, Calls, HeldOpen, careful, NEW n \in Ids, Held(n)
  PROVE  open[afd[n].socket] /\ afd[n].socket \in Sockets
<1>1. afd[n].socket \in Sockets
  BY StateType DEF Typed, KernelTyped, AfdSocketState
<1>2. ASSUME NEW t \in Threads, op[t].step = "remove_cancel", op[t].state = n
      PROVE  open[afd[n].socket]
  BY <1>2, CallFacts DEF CallOK
<1> QED
  BY <1>1, <1>2 DEF Held, HeldOpen

LEMMA OpenHolding ==
  ASSUME Typed, Calls, Holding, NEW h \in Sockets, OpenSocket(h) \/ CloseSocket(h)
  PROVE  Holding'
<1>1. UNCHANGED <<callVars, afd, pollVars, flight, queue>>
  BY Zenon DEF OpenSocket, CloseSocket
<1>2. Ids' = Ids /\ \A m : (Held(m)' <=> Held(m)) /\ (Active(m)' <=> Active(m))
  BY <1>1 DEF Ids, Held, Active, Reissuing
<1>3. HeldActive'
  BY <1>1, <1>2 DEF Holding, HeldActive
<1>4. SameFile'
  BY <1>1 DEF Holding, SameFile
<1>5. ASSUME careful PROVE \A g \in Sockets : registrations_[g] # NoReg => open'[g]
  BY Zenon, <1>5 DEF Holding, HeldOpen, OpenSocket, CloseSocket, Typed, OthersTyped
<1>6. ASSUME careful, NEW n \in Ids, Held(n) PROVE gen'[afd[n].socket] = afd[n].file
  <2>1. open[afd[n].socket] /\ afd[n].socket \in Sockets /\ gen[afd[n].socket] = afd[n].file
    BY Zenon, <1>6, HeldIsOpen DEF Holding, HeldOpen
  <2> QED
    BY <2>1 DEF OpenSocket, CloseSocket, Typed, OthersTyped
<1>7. HeldOpen'
  BY Zenon, <1>1, <1>2, <1>5, <1>6 DEF HeldOpen
<1> QED
  BY <1>3, <1>4, <1>7 DEF Holding

LEMMA WakeHolding ==
  ASSUME Typed, Holding, Wake
  PROVE  Holding'
<1>0. KernelTyped /\ UNCHANGED <<callVars, afd, pollVars, socketVars, flight>> /\ Ids' = Ids
  BY DEF Typed, Wake, Ids
<1>1. /\ Len(queue) \in Nat /\ DOMAIN queue = 1..Len(queue) /\ DOMAIN queue' = 1..(Len(queue) + 1)
      /\ \A i \in DOMAIN queue : queue'[i] = queue[i]
      /\ queue'[Len(queue) + 1] = [kind |-> "packet", token |-> waker]
  BY Zenon, <1>0, Added DEF KernelTyped, Wake
<1>2. \A i \in DOMAIN queue' : queue'[i].kind = "afd" => i \in DOMAIN queue /\ queue'[i] = queue[i]
  <2>1. \A i \in DOMAIN queue' : i \in DOMAIN queue \/ i = Len(queue) + 1
    BY ONLY <1>1
  <2>2. PICK e : e = [kind |-> "packet", token |-> waker]
    BY Zenon
  <2>3. e.kind = "packet" /\ queue'[Len(queue) + 1] = e
    BY Zenon, <1>1, <2>2
  <2> QED
    BY <1>1, <2>1, <2>3
<1>3. SameFile'
  BY <1>0, <1>2, QueueStates, SameFileKept DEF Holding
<1> QED
  BY <1>0, <1>3, EnvironmentHolding

LEMMA KernelHolding ==
  ASSUME Typed, Holding, NEW f \in flight, KernelCompletes(f) \/ KernelCancels(f) \/ KernelFails(f)
  PROVE  Holding'
<1>0. KernelTyped /\ OthersTyped
  BY DEF Typed
<1>1. PICK n \in Ids : n = f.state
  BY <1>0 DEF KernelTyped, FlightSet
<1>2. Changed(n) /\ Ids' = Ids /\ \A m \in Ids : afd'[m].status = afd[m].status
  BY <1>0, <1>1, FinishKeeps
<1>3. /\ flight' = flight \ {f} /\ UNCHANGED <<callVars, pollVars, socketVars>>
      /\ queue' = Append(queue, [kind |-> "afd", state |-> f.state, file |-> f.file])
  BY DEF KernelCompletes, KernelCancels, KernelFails, Finish
<1>4. /\ Len(queue) \in Nat /\ DOMAIN queue = 1..Len(queue) /\ DOMAIN queue' = 1..(Len(queue) + 1)
      /\ \A i \in DOMAIN queue : queue'[i] = queue[i]
      /\ queue'[Len(queue) + 1] = [kind |-> "afd", state |-> f.state, file |-> f.file]
  BY Zenon, <1>0, <1>3, Added DEF KernelTyped
<1>5. \A i \in DOMAIN queue' :
        \/ i \in DOMAIN queue /\ queue'[i] = queue[i]
        \/ queue'[i].state = f.state /\ queue'[i].file = f.file
  BY <1>4
<1>6. \A m \in Ids : afd'[m].file = afd[m].file
  BY <1>2 DEF Changed
<1>7. SameFile'
  BY Zenon, <1>0, <1>1, <1>2, <1>3, <1>5, <1>6, QueueStates, SameFileKept DEF Holding
<1>8. \A m \in Ids : Active(m)' => Active(m)
  BY <1>2, <1>3 DEF Active, Reissuing
<1> QED
  BY <1>2, <1>3, <1>7, <1>8, OtherHolding

\* issue_afd_poll on a state that is held, if the program is careful: a poll it
\* starts is about the socket the state was made for.
LEMMA IssueSameFile ==
  ASSUME Typed, Holding, NEW n \in Ids, IssueOk(n) \/ IssueThrows(n), UNCHANGED <<careful, queue>>,
         WantsPoll(n) => Held(n)
  PROVE  SameFile' /\ Changed(n)
<1>0. KernelTyped /\ afd \in Seq(AfdSocketState)
  BY DEF Typed, KernelTyped
<1>1. Changed(n)
  BY IssueArms
<1>2. Ids' = Ids /\ \A m \in Ids : afd'[m].file = afd[m].file
  BY <1>1 DEF Changed
<1>3. CASE flight' \subseteq flight \/ \E m : Cancel(m)
  BY <1>0, <1>1, <1>2, <1>3, QueueStates, SameFileKept DEF Holding
<1>4. CASE WantsPoll(n) /\ Submit(n)
  <2>1. flight' = flight \cup {Request(n)} /\ Request(n).state = n /\ Request(n).file = gen[afd[n].socket]
    BY Zenon, <1>0, <1>4, SubmitEffect DEF Request
  <2>2. careful => gen[afd[n].socket] = afd[n].file
    BY <1>4 DEF Holding, HeldOpen
  <2>3. \A f \in flight : f.state \in Ids
    BY <1>0 DEF KernelTyped, FlightSet
  <2>4. careful => \A f \in flight' : f.file = afd'[f.state].file
    BY Zenon, <1>2, <2>1, <2>2, <2>3 DEF Holding, SameFile
  <2>5. careful => \A i \in DOMAIN queue' : queue'[i].kind = "afd" => queue'[i].file = afd'[queue'[i].state].file
    BY <1>0, <1>2, QueueStates DEF Holding, SameFile
  <2> QED
    BY <1>1, <2>4, <2>5 DEF SameFile
<1>5. CASE IssueThrows(n)
  BY <1>0, <1>3, <1>5, IssueThrowsEffect
<1>6. CASE IssueElse(n)
  BY <1>0, <1>3, <1>6, IssueElseEffect
<1> QED
  BY <1>4, <1>5, <1>6 DEF IssueOk

LEMMA SelectHolding ==
  ASSUME Typed, Calls, Single, Holding, Select
  PROVE  Holding'
<1>0. /\ KernelTyped /\ afd \in Seq(AfdSocketState) /\ queue \in QueueSet(Ids)
      /\ UNCHANGED <<careful, registrations_, op, open, gen>>
  BY Zenon DEF Typed, KernelTyped, Select, SelectBegin, GetPacket, CompleteAfd, Reissue, SelectReturn
<1>1. ASSUME queue # <<>>, queue' = Tail(queue)
      PROVE  \A i \in DOMAIN queue' : /\ \E j \in DOMAIN queue : queue'[i] = queue[j]
                                      /\ queue'[i].kind = "afd" => queue'[i].state \in Ids
  BY <1>0, <1>1, Taken, QueueStates
<1>2. CASE SelectBegin \/ SelectReturn
  <2>1. UNCHANGED <<afd, flight, queue>> /\ ppc # "reissue" /\ ppc' # "reissue" /\ Ids' = Ids
    BY <1>2 DEF SelectBegin, SelectReturn, Ids
  <2>2. \A m : (Held(m)' <=> Held(m)) /\ (Active(m)' <=> Active(m))
    BY Zenon, <1>0, <2>1 DEF Held, Active, Reissuing
  <2> QED
    BY Zenon, <1>0, <2>1, <2>2 DEF Holding, HeldActive, HeldOpen, SameFile
<1>3. CASE GetPacket
  <2>1. queue # <<>> /\ queue' = Tail(queue) /\ UNCHANGED <<afd, flight, ppc, current>> /\ Ids' = Ids
    BY <1>3 DEF GetPacket, Getting, Ids
  <2>2. SameFile'
    BY Zenon, <1>0, <1>1, <2>1, SameFileKept DEF Holding
  <2> QED
    BY <1>0, <2>1, <2>2, EnvironmentHolding
<1>4. CASE CompleteAfd
  <2>1. /\ queue # <<>> /\ Head(queue).kind = "afd" /\ queue' = Tail(queue) /\ ppc # "reissue"
        /\ UNCHANGED flight
    BY Zenon, <1>4 DEF CompleteAfd, Getting
  <2>2. PICK n \in Ids : n = Head(queue).state
    BY Zenon, <1>0, <2>1, Taken
  <2>3. Changed(n) /\ ((ppc' = "reissue" /\ current' = n) \/ UNCHANGED <<ppc, current>>)
    BY Zenon, <1>0, <1>4, <2>2, CompleteEffect
  <2>4. Queued(1, n) /\ 1 \in DOMAIN queue
    BY <1>0, <2>1, <2>2, Taken DEF Queued
  <2>5. Active(n)
    BY <2>4 DEF Single, Active
  <2>6. Ids' = Ids /\ \A m \in Ids : afd'[m].file = afd[m].file
    BY <2>3 DEF Changed
  <2>7. \A m \in Ids \ {n} : Active(m)' => Active(m)
    BY <2>1, <2>3 DEF Changed, Active, Reissuing
  <2>8. SameFile'
    BY <1>0, <1>1, <2>1, <2>6, SameFileKept DEF Holding
  <2> QED
    BY <1>0, <2>3, <2>5, <2>6, <2>7, <2>8, OtherHolding
<1>5. CASE Reissue
  <2>1. PICK n \in Ids : n = current
    BY <1>5 DEF Reissue, Typed, Reissued
  <2>2. IssueOk(n) \/ IssueThrows(n)
    BY <1>5, <2>1 DEF Reissue
  <2>3. ppc' # "reissue" /\ UNCHANGED queue /\ Reissuing(n)
    BY <1>5, <2>1 DEF Reissue, Reissuing
  <2>4. Active(n) /\ (WantsPoll(n) => Held(n))
    BY <2>3 DEF Active, Holding, HeldActive, WantsPoll
  <2>5. SameFile' /\ Changed(n)
    BY <1>0, <2>2, <2>3, <2>4, IssueSameFile
  <2>6. Ids' = Ids /\ \A m \in Ids \ {n} : Active(m)' => Active(m)
    BY <2>3, <2>5 DEF Changed, Active, Reissuing
  <2> QED
    BY <1>0, <2>4, <2>5, <2>6, OtherHolding
<1> QED
  BY <1>2, <1>3, <1>4, <1>5 DEF Select

\* How the socket h can hold the state n while no thread but t makes a call on h.
HeldBy(t, h, n) ==
  \/ registrations_[h] # NoReg /\ registrations_[h].state = n
  \/ op[t].step = "remove_cancel" /\ op[t].state = n

OnlyCall(t, h) == \A u \in Threads \ {t} : op[u] # NoOp => op[u].socket # h

LEMMA HeldIs ==
  ASSUME Typed, Calls, NEW t \in Threads, NEW h \in Sockets, OnlyCall(t, h), NEW n \in Ids, afd[n].socket = h
  PROVE  Held(n) <=> HeldBy(t, h, n)
<1>1. ASSUME NEW u \in Threads, u # t, op[u].step = "remove_cancel", op[u].state = n
      PROVE  FALSE
  BY Zenon, <1>1, CallFacts DEF OnlyCall
<1> QED
  BY <1>1 DEF Held, HeldBy

\* A step of the call of thread t on socket h.
LEMMA CallHolding ==
  ASSUME Typed, Calls, Holding, NEW t \in Threads, NEW h \in Sockets, OnlyCall(t, h), open[h],
         \A g \in Sockets \ {h} : registrations_'[g] = registrations_[g],
         \A u \in Threads \ {t} : op'[u] = op[u],
         op[t] # NoOp => op[t].socket = h,
         op'[t].step # "idle" => op'[t].socket = h,
         op'[t].step = "remove_cancel" => op'[t].state \in Ids /\ afd[op'[t].state].socket = h,
         UNCHANGED <<careful, open, gen, ppc, current>>, Ids \subseteq Ids',
         \A n \in Ids : afd'[n].socket = afd[n].socket /\ afd'[n].file = afd[n].file,
         \A n \in Ids : afd[n].socket # h => afd'[n] = afd[n],
         \A n \in Ids' \ Ids : afd'[n].socket = h,
         Ids' \subseteq Nat \ {0},
         \A n \in Ids' : afd'[n].socket = h /\ ~afd'[n].delete_pending /\ Active(n)' => HeldBy(t, h, n)',
         op'[t].step \in {"add_issue", "add_undo"} => \A n \in Ids' : registrations_'[h].state = n => ~Active(n)',
         careful => \A n \in Ids' : afd'[n].socket = h /\ HeldBy(t, h, n)' => gen[h] = afd'[n].file,
         SameFile'
  PROVE  Holding'
<1>1. \A n \in Ids' : afd'[n].socket # h => n \in Ids /\ afd'[n] = afd[n]
  BY Zenon
<1>2. ASSUME NEW u \in Threads, op[u].step = "remove_cancel"
      PROVE  op[u].state \in Ids /\ afd[op[u].state].socket = op[u].socket /\ op[u].socket \in Sockets
             /\ (u # t => op[u].socket # h) /\ (u = t => op[u].socket = h)
  BY Zenon, <1>2, CallFacts DEF OnlyCall
<1>3. ASSUME NEW n \in Ids', afd'[n].socket # h
      PROVE  (Held(n)' <=> Held(n)) /\ afd'[n].socket \in Sockets
  <2>1. n \in Ids /\ afd'[n] = afd[n] /\ afd[n].socket \in Sockets
    BY Zenon, <1>1, <1>3, StateType DEF Typed, KernelTyped, AfdSocketState
  <2>2. registrations_'[afd[n].socket] = registrations_[afd[n].socket]
    <3>1. afd[n].socket \in Sockets \ {h}
      BY Zenon, <1>3, <2>1
    <3> QED
      BY Zenon, <3>1
  <2>3. ~(op[t].step = "remove_cancel" /\ op[t].state = n)
    <3>1. op[t].step = "remove_cancel" => afd[op[t].state].socket = h
      BY Zenon, <1>2
    <3> QED
      BY Zenon, <1>3, <2>1, <3>1
  <2>4. ~(op'[t].step = "remove_cancel" /\ op'[t].state = n)
    BY Zenon, <1>3, <2>1
  <2>5. ASSUME NEW u \in Threads
        PROVE  (op'[u].step = "remove_cancel" /\ op'[u].state = n) <=> (op[u].step = "remove_cancel" /\ op[u].state = n)
    <3>1. CASE u = t
      BY Zenon, <2>3, <2>4, <3>1
    <3>2. CASE u # t
      BY Zenon, <3>2
    <3> QED
      BY Zenon, <3>1, <3>2
  <2>6. (\E u \in Threads : op'[u].step = "remove_cancel" /\ op'[u].state = n) <=>
          (\E u \in Threads : op[u].step = "remove_cancel" /\ op[u].state = n)
    BY Zenon, <2>5
  <2>7. afd'[n].socket = afd[n].socket /\ afd'[n].socket \in Sockets
    BY Zenon, <2>1
  <2> QED
    BY Zenon, <2>2, <2>6, <2>7 DEF Held
<1>4. ASSUME NEW n \in Ids', afd'[n].socket = h
      PROVE  Held(n)' <=> HeldBy(t, h, n)'
  <2>1. ASSUME NEW u \in Threads, u # t, op'[u].step = "remove_cancel", op'[u].state = n
        PROVE  FALSE
    <3>1. op'[u] = op[u]
      BY Zenon, <2>1
    <3>2. n \in Ids /\ afd[n].socket = op[u].socket /\ op[u].socket # h
      BY ZenonT(30), <1>2, <2>1, <3>1
    <3> QED
      BY Zenon, <1>4, <3>2
  <2> QED
    BY Zenon, <1>4, <2>1 DEF Held, HeldBy
<1>5. \A n \in Ids' : ~afd'[n].delete_pending /\ Active(n)' => Held(n)'
  <2>1. ASSUME NEW n \in Ids', ~afd'[n].delete_pending, Active(n)', afd'[n].socket # h
        PROVE  Held(n)'
    BY Zenon, <1>1, <1>3, <2>1 DEF Active, Reissuing, Holding, HeldActive
  <2> QED
    BY Zenon, <1>4, <2>1
<1>6. ASSUME NEW u \in Threads, NEW n \in Ids', op'[u].step \in {"add_issue", "add_undo"},
             registrations_'[op'[u].socket].state = n
      PROVE  ~Active(n)'
  <2>1. CASE u = t
    BY Zenon, <1>6, <2>1
  <2>2. CASE u # t
    <3>1. op'[u] = op[u] /\ op[u] # NoOp /\ op[u] \in Op /\ CallOK(u)
      BY Zenon, <1>6, <2>2, OpFacts DEF Calls, Typed
    <3>2. PICK g \in Sockets : g = op[u].socket /\ g # h
      BY Zenon, <2>2, <3>1 DEF Op, OnlyCall
    <3>3. registrations_[g].state = n /\ registrations_[g] # NoReg /\ n # 0
      <4>1. registrations_[g].state = n /\ n # 0
        <5>1. g \in Sockets \ {h} /\ n \in Nat \ {0}
          BY Zenon, <1>6, <3>2
        <5>2. registrations_'[g] = registrations_[g] /\ n # 0
          BY Zenon, <5>1
        <5> QED
          BY Zenon, <1>6, <3>1, <3>2, <5>2
      <4>2. op[u].step # "remove_cancel"
        BY Zenon, <1>6, <3>1
      <4> QED
        BY Zenon, <3>1, <3>2, <4>1, <4>2 DEF CallOK
    <3>4. n \in Ids /\ afd[n].socket = g
      BY Zenon, <3>3 DEF Calls, EntryOK, StateOf
    <3>5. ~Active(n) /\ afd'[n] = afd[n]
      BY Zenon, <1>6, <3>1, <3>2, <3>3, <3>4 DEF Holding, HeldActive
    <3> QED
      BY Zenon, <3>5 DEF Active, Reissuing
  <2> QED
    BY Zenon, <2>1, <2>2
<1>7. HeldActive'
  BY Zenon, <1>5, <1>6 DEF HeldActive
<1>8. HeldOpen'
  <2>1. ASSUME careful, NEW n \in Ids', Held(n)' PROVE gen[afd'[n].socket] = afd'[n].file
    <3>1. CASE afd'[n].socket = h
      <4>1. HeldBy(t, h, n)'
        BY Zenon, <1>4, <2>1, <3>1
      <4>2. gen[h] = afd'[n].file
        BY Zenon, <2>1, <3>1, <4>1
      <4> QED
        BY Zenon, <3>1, <4>2
    <3>2. CASE afd'[n].socket # h
      <4>1. n \in Ids /\ afd'[n] = afd[n] /\ Held(n)
        BY Zenon, <1>1, <1>3, <2>1, <3>2
      <4> QED
        BY Zenon, <2>1, <4>1 DEF Holding, HeldOpen
    <3> QED
      BY Zenon, <3>1, <3>2
  <2>2. ASSUME careful, NEW g \in Sockets, registrations_'[g] # NoReg PROVE open[g]
    BY Zenon, <2>2 DEF Holding, HeldOpen
  <2> QED
    BY Zenon, <2>1, <2>2 DEF HeldOpen
<1> QED
  BY Zenon, <1>7, <1>8 DEF Holding

\* A step that changes nothing but the entry of h and the call of t.
LEMMA EntryHolding ==
  ASSUME Typed, Calls, Holding, NEW t \in Threads, NEW h \in Sockets, OnlyCall(t, h), open[h],
         \A g \in Sockets \ {h} : registrations_'[g] = registrations_[g],
         \A u \in Threads \ {t} : op'[u] = op[u],
         op[t] # NoOp => op[t].socket = h,
         op'[t].step # "idle" => op'[t].socket = h,
         op'[t].step = "remove_cancel" => op'[t].state \in Ids /\ afd[op'[t].state].socket = h,
         UNCHANGED <<careful, afd, open, gen, ppc, current, flight, queue>>,
         \A n \in Ids : HeldBy(t, h, n)' => HeldBy(t, h, n),
         \A n \in Ids : HeldBy(t, h, n) => HeldBy(t, h, n)' \/ ~Active(n),
         op'[t].step \in {"add_issue", "add_undo"} => \A n \in Ids : registrations_'[h].state = n => ~Active(n)
  PROVE  Holding'
<1>1. Ids' = Ids /\ \A n : Active(n)' <=> Active(n)
  BY Zenon DEF Ids, Active, Reissuing
<1>2. \A n \in Ids : afd[n].socket = h => (Held(n) <=> HeldBy(t, h, n))
  BY Zenon, HeldIs
<1>3. \A n \in Ids : afd[n].socket = h /\ ~afd[n].delete_pending /\ Active(n) => HeldBy(t, h, n)'
  BY Zenon, <1>2 DEF Holding, HeldActive
<1>4. careful => \A n \in Ids : afd[n].socket = h /\ HeldBy(t, h, n)' => gen[h] = afd[n].file
  BY Zenon, <1>2 DEF Holding, HeldOpen
<1>5. SameFile'
  BY Zenon DEF Holding, SameFile
<1>6. Ids \subseteq Nat \ {0}
  <2>1. Len(afd) \in Nat
    BY Zenon, SeqLen DEF Typed, KernelTyped
  <2> QED
    BY ONLY <2>1 DEF Ids
<1>7. /\ UNCHANGED <<careful, open, gen, ppc, current>> /\ Ids \subseteq Ids' /\ Ids' \subseteq Nat \ {0}
      /\ \A n \in Ids : afd'[n].socket = afd[n].socket /\ afd'[n].file = afd[n].file
      /\ \A n \in Ids : afd[n].socket # h => afd'[n] = afd[n]
      /\ \A n \in Ids' \ Ids : afd'[n].socket = h
  BY Zenon, <1>1, <1>6
<1>8. /\ \A n \in Ids' : afd'[n].socket = h /\ ~afd'[n].delete_pending /\ Active(n)' => HeldBy(t, h, n)'
      /\ op'[t].step \in {"add_issue", "add_undo"} => \A n \in Ids' : registrations_'[h].state = n => ~Active(n)'
      /\ careful => \A n \in Ids' : afd'[n].socket = h /\ HeldBy(t, h, n)' => gen[h] = afd'[n].file
  BY Zenon, <1>1, <1>3, <1>4
<1> QED
  BY Zenon, <1>5, <1>7, <1>8, CallHolding

LEMMA CallBeginsHolding ==
  ASSUME Typed, Calls, Holding, NEW t \in Threads, CallBegins(t)
  PROVE  Holding'
<1>0. registrations_ \in [Sockets -> Entry \cup {NoReg}] /\ op \in [Threads -> Op \cup {NoOp}]
  BY DEF Typed, CallsTyped
<1>1. ASSUME NEW h \in Sockets, Idle(t, h)
      PROVE  OnlyCall(t, h) /\ open[h] /\ op[t].step = "idle" /\ op[t] = NoOp
  BY <1>1 DEF Idle, OnlyCall, NoOp
<1>2. 0 \notin Ids
  BY DEF Ids
<1>3. ASSUME NEW h \in Sockets, NEW token \in Tokens, NEW interests \in InterestSets, AddEmplace(t, h, token, interests)
      PROVE  Holding'
  <2>1. /\ Idle(t, h) /\ UNCHANGED <<careful, afd, open, gen, ppc, current, flight, queue>> /\ registrations_[h] = NoReg
        /\ registrations_' = [registrations_ EXCEPT ![h] = [token |-> token, interests |-> interests, state |-> 0]]
        /\ op' = [op EXCEPT ![t] = [step |-> "add_state", socket |-> h, token |-> token,
                                    interests |-> interests, state |-> 0]]
    BY Zenon, <1>3 DEF AddEmplace, Call
  <2>2. /\ registrations_'[h].state = 0 /\ \A g \in Sockets \ {h} : registrations_'[g] = registrations_[g]
        /\ op'[t].step = "add_state" /\ op'[t].socket = h /\ \A u \in Threads \ {t} : op'[u] = op[u]
    BY Zenon, <1>0, <2>1
  <2>3. \A n \in Ids : ~HeldBy(t, h, n) /\ ~HeldBy(t, h, n)'
    BY Zenon, <1>1, <1>2, <2>1, <2>2 DEF HeldBy
  <2> QED
    BY Zenon, <1>1, <2>1, <2>2, <2>3, EntryHolding
<1>4. ASSUME NEW h \in Sockets, NEW token \in Tokens, NEW interests \in InterestSets, UpdateMap(t, h, token, interests)
      PROVE  Holding'
  <2>1. /\ Idle(t, h) /\ UNCHANGED <<careful, afd, open, gen, ppc, current, flight, queue>>
        /\ registrations_[h] # NoReg /\ registrations_[h] \in Entry
        /\ registrations_' = [registrations_ EXCEPT ![h] = [@ EXCEPT !.token = token, !.interests = interests]]
        /\ op' = [op EXCEPT ![t] = [step |-> "update_set", socket |-> h, token |-> token,
                                    interests |-> interests, state |-> registrations_[h].state]]
    BY <1>0, <1>4 DEF UpdateMap, Call
  <2>2. /\ registrations_'[h].state = registrations_[h].state /\ registrations_'[h] \in Entry
        /\ \A g \in Sockets \ {h} : registrations_'[g] = registrations_[g]
        /\ op'[t].step = "update_set" /\ op'[t].socket = h /\ \A u \in Threads \ {t} : op'[u] = op[u]
    BY Zenon, <1>0, <2>1 DEF Entry
  <2>3. \A n \in Ids : HeldBy(t, h, n) <=> HeldBy(t, h, n)'
    BY <1>1, <2>1, <2>2, AfdNothingAssumption DEF HeldBy
  <2> QED
    BY <1>1, <2>1, <2>2, <2>3, EntryHolding
<1>5. ASSUME NEW h \in Sockets, RemoveErase(t, h)
      PROVE  Holding'
  <2> DEFINE r == registrations_[h]
             o == [step |-> "remove_cancel", socket |-> h, token |-> r.token, interests |-> r.interests, state |-> r.state]
  <2>1. /\ Idle(t, h) /\ UNCHANGED <<careful, afd, open, gen, ppc, current, flight, queue>> /\ r # NoReg
        /\ registrations_' = [registrations_ EXCEPT ![h] = NoReg] /\ op' = [op EXCEPT ![t] = o]
    BY Zenon, <1>5 DEF RemoveErase, Call
  <2>2. /\ registrations_'[h] = NoReg /\ \A g \in Sockets \ {h} : registrations_'[g] = registrations_[g]
        /\ op'[t].step = "remove_cancel" /\ op'[t].socket = h /\ op'[t].state = r.state
        /\ \A u \in Threads \ {t} : op'[u] = op[u]
    BY <1>0, <2>1
  <2> HIDE DEF o
  <2>3. \A n \in Ids : HeldBy(t, h, n) <=> HeldBy(t, h, n)'
    BY Zenon, <1>1, <2>1, <2>2 DEF HeldBy
  <2>4. r.state \in Ids /\ afd[r.state].socket = h
    BY Zenon, <2>1, EntryFound DEF StateOf
  <2>5. OnlyCall(t, h) /\ open[h] /\ op[t] = NoOp
    BY Zenon, <1>1, <2>1
  <2>6. /\ op'[t].step = "remove_cancel" => op'[t].state \in Ids /\ afd[op'[t].state].socket = h
        /\ op'[t].step \notin {"add_issue", "add_undo"}
    BY Zenon, <2>2, <2>4
  <2>7. UNCHANGED <<careful, afd, open, gen, ppc, current, flight, queue>>
    BY Zenon, <2>1
  <2> QED
    BY Zenon, <2>2, <2>3, <2>5, <2>6, <2>7, EntryHolding
<1> QED
  BY <1>3, <1>4, <1>5 DEF CallBegins

LEMMA AddFailsHolding ==
  ASSUME Typed, Calls, Holding, NEW t \in Threads, AddStateFails(t) \/ AddUndo(t)
  PROVE  Holding'
<1>0. registrations_ \in [Sockets -> Entry \cup {NoReg}] /\ op \in [Threads -> Op \cup {NoOp}]
  BY DEF Typed, CallsTyped
<1>1. /\ op[t].step \in {"add_state", "add_undo"} /\ op[t] \in Op /\ op[t] # NoOp /\ CallOK(t)
      /\ UNCHANGED <<careful, afd, open, gen, ppc, current, flight, queue>>
  BY Zenon, OpFacts DEF Typed, AddStateFails, AddUndo, At, Calls
<1>2. PICK h \in Sockets : h = op[t].socket
  BY Zenon, <1>1 DEF Op
<1>3. OnlyCall(t, h) /\ open[h] /\ 0 \notin Ids
  <2>1. OnlyCall(t, h)
    BY Zenon, <1>1, <1>2 DEF OnlyCall, Calls
  <2>2. open[h]
    BY Zenon, <1>1, <1>2 DEF CallOK
  <2>3. 0 \notin Ids
    BY SeqLen DEF Typed, KernelTyped, Ids
  <2> QED
    BY <2>1, <2>2, <2>3
<1>4. CASE AddStateFails(t)
  <2>1. UNCHANGED registrations_ /\ op' = [op EXCEPT ![t] = [@ EXCEPT !.step = "add_undo"]] /\ op[t].step = "add_state"
    BY <1>4 DEF AddStateFails, Goto, At
  <2>2. op'[t].step = "add_undo" /\ op'[t].socket = h /\ \A u \in Threads \ {t} : op'[u] = op[u]
    BY <1>0, <1>1, <1>2, <2>1 DEF Op
  <2>3. registrations_'[h] = registrations_[h] /\ registrations_[h].state = 0
    BY <1>1, <1>2, <2>1 DEF CallOK
  <2>4. \A n \in Ids : ~HeldBy(t, h, n) /\ ~HeldBy(t, h, n)'
    BY <1>3, <2>1, <2>2, <2>3 DEF HeldBy
  <2> QED
    BY <1>1, <1>2, <1>3, <2>1, <2>2, <2>3, <2>4, EntryHolding
<1>5. CASE AddUndo(t)
  <2>1. /\ op[t].step = "add_undo" /\ op' = [op EXCEPT ![t] = NoOp]
        /\ registrations_' = [registrations_ EXCEPT ![h] = NoReg]
    BY <1>2, <1>5 DEF AddUndo, Return, At
  <2>2. /\ registrations_'[h] = NoReg /\ \A g \in Sockets \ {h} : registrations_'[g] = registrations_[g]
        /\ op'[t].step = "idle" /\ \A u \in Threads \ {t} : op'[u] = op[u]
    BY <1>0, <2>1, IdleOp
  <2>3. \A n \in Ids : HeldBy(t, h, n) => ~Active(n)
    BY Zenon, <1>2, <2>1 DEF HeldBy, Holding, HeldActive
  <2>4. \A n \in Ids : ~HeldBy(t, h, n)'
    BY Zenon, <2>2 DEF HeldBy
  <2> QED
    BY Zenon, <1>1, <1>2, <1>3, <2>2, <2>3, <2>4, EntryHolding
<1> QED
  BY <1>4, <1>5

LEMMA AddStateHolding ==
  ASSUME Typed, Calls, Holding, NEW t \in Threads, AddState(t)
  PROVE  Holding'
<1>0. /\ registrations_ \in [Sockets -> Entry \cup {NoReg}] /\ op \in [Threads -> Op \cup {NoOp}] /\ KernelTyped
      /\ Reissued /\ OthersTyped
  BY DEF Typed, CallsTyped
<1>1. /\ op[t].step = "add_state" /\ op[t] \in Op /\ op[t] # NoOp /\ CallOK(t)
      /\ UNCHANGED <<careful, open, gen, ppc, current, flight, queue>>
  BY OpFacts DEF Typed, AddState, At, Calls
<1>2. PICK h \in Sockets : h = op[t].socket
  BY <1>1 DEF Op
<1>3. OnlyCall(t, h) /\ open[h] /\ registrations_[h] \in Entry /\ registrations_[h].state = 0 /\ 0 \notin Ids
  <2>1. OnlyCall(t, h)
    BY Zenon, <1>1, <1>2 DEF OnlyCall, Calls
  <2>2. open[h] /\ registrations_[h] # NoReg /\ registrations_[h].state = 0
    BY Zenon, <1>1, <1>2 DEF CallOK
  <2>3. 0 \notin Ids
    BY SeqLen DEF Typed, KernelTyped, Ids
  <2> QED
    BY Zenon, <1>0, <2>1, <2>2, <2>3
<1>4. PICK k \in Nat : k = Len(afd) + 1 /\ k # 0
  BY <1>0, SeqLen DEF KernelTyped
<1>5. Ids' = Ids \cup {k} /\ k \notin Ids /\ (\A n \in Ids : afd'[n] = afd[n]) /\ afd'[k] = NewState(t)
  BY Zenon, <1>0, <1>1, <1>4, AddStateEffect
<1>6. NewState(t).status = "idle" /\ NewState(t).socket = h /\ NewState(t).file = gen[h]
  BY Zenon, <1>2 DEF NewState
<1>7. ~Active(k)' /\ \A n \in Ids : Active(n)' <=> Active(n)
  BY Zenon, <1>0, <1>1, <1>5, <1>6 DEF Active, Reissuing, Reissued
<1>8. /\ registrations_' = [registrations_ EXCEPT ![h] = [@ EXCEPT !.state = k]]
      /\ op' = [op EXCEPT ![t] = [@ EXCEPT !.step = "add_issue", !.state = k]]
  BY <1>2, <1>4 DEF AddState
<1>9. /\ registrations_'[h].state = k /\ \A g \in Sockets \ {h} : registrations_'[g] = registrations_[g]
      /\ op'[t].step = "add_issue" /\ op'[t].socket = h /\ \A u \in Threads \ {t} : op'[u] = op[u]
  BY <1>0, <1>1, <1>2, <1>3, <1>8 DEF Op, Entry
<1>10. \A n \in Ids : ~HeldBy(t, h, n)
  BY Zenon, <1>1, <1>3 DEF HeldBy
<1>11. \A n \in Ids : afd[n].socket = h => afd[n].delete_pending \/ ~Active(n)
  BY Zenon, <1>3, <1>10, HeldIs DEF Holding, HeldActive
<1>12. \A n : HeldBy(t, h, n)' => n = k
  BY <1>9 DEF HeldBy
<1>13. SameFile'
  <2>1. \A f \in flight : f.state \in Ids
    BY <1>0 DEF KernelTyped, FlightSet
  <2> QED
    BY Zenon, <1>0, <1>1, <1>5, <2>1, QueueStates DEF Holding, SameFile
<1>14. Ids' \subseteq Nat \ {0}
  BY <1>0, <1>4, <1>5, SeqLen DEF KernelTyped, Ids
<1>15. \A n \in Ids' : afd'[n].socket = h /\ ~afd'[n].delete_pending /\ Active(n)' => HeldBy(t, h, n)'
  BY <1>5, <1>7, <1>11
<1>16. careful => \A n \in Ids' : afd'[n].socket = h /\ HeldBy(t, h, n)' => gen[h] = afd'[n].file
  BY <1>5, <1>6, <1>12
<1>17. \A n \in Ids' \ Ids : afd'[n].socket = h
  BY <1>5, <1>6
<1>18. /\ op[t] # NoOp => op[t].socket = h
       /\ op'[t].step # "idle" => op'[t].socket = h
       /\ op'[t].step # "remove_cancel"
       /\ UNCHANGED <<careful, open, gen, ppc, current>> /\ Ids \subseteq Ids'
       /\ \A n \in Ids : afd'[n].socket = afd[n].socket /\ afd'[n].file = afd[n].file
       /\ \A n \in Ids : afd[n].socket # h => afd'[n] = afd[n]
  BY Zenon, <1>1, <1>2, <1>5, <1>9
<1>19. /\ op'[t].step \in {"add_issue", "add_undo"} => \A n \in Ids' : registrations_'[h].state = n => ~Active(n)'
       /\ op'[t].step = "remove_cancel" => op'[t].state \in Ids /\ afd[op'[t].state].socket = h
  BY Zenon, <1>7, <1>9, <1>18
<1>20. OnlyCall(t, h) /\ open[h]
  BY Zenon, <1>3
<1>21. /\ \A g \in Sockets \ {h} : registrations_'[g] = registrations_[g]
       /\ \A u \in Threads \ {t} : op'[u] = op[u]
  BY Zenon, <1>9
<1> QED
  BY Zenon, <1>13, <1>14, <1>15, <1>16, <1>17, <1>18, <1>19, <1>20, <1>21, CallHolding

LEMMA CallGoesOnHolding ==
  ASSUME Typed, Calls, Holding, NEW t \in Threads, UpdateSet(t) \/ CallIssues(t) \/ RemoveCancel(t)
  PROVE  Holding'
<1>0. /\ op \in [Threads -> Op \cup {NoOp}] /\ KernelTyped /\ afd \in Seq(AfdSocketState)
  BY DEF Typed, CallsTyped, KernelTyped
<1>1. /\ op[t].step \in {"add_issue", "update_set", "update_issue", "remove_cancel"}
      /\ UNCHANGED <<careful, registrations_, open, gen, ppc, current, queue>>
  BY DEF UpdateSet, CallIssues, RemoveCancel, At
<1>2. /\ op[t] \in Op /\ op[t] # NoOp /\ op[t].socket \in Sockets
      /\ CallOK(t) /\ op[t].state \in Ids /\ afd[op[t].state].socket = op[t].socket
      /\ \A u \in Threads \ {t} : op[u] # NoOp => op[u].socket # op[t].socket
  BY Zenon, <1>1, CallFacts
<1>3. PICK h \in Sockets, n \in Ids : h = op[t].socket /\ n = op[t].state /\ afd[n].socket = h
  BY Zenon, <1>2
<1>4. /\ OnlyCall(t, h) /\ open[h] /\ Ids \subseteq Nat \ {0}
      /\ \A m \in Ids : afd[m].socket = h => (Held(m) <=> HeldBy(t, h, m))
  <2>1. OnlyCall(t, h) /\ open[h]
    BY Zenon, <1>2, <1>3 DEF OnlyCall, CallOK
  <2>2. Ids \subseteq Nat \ {0}
    BY <1>0, SeqLen DEF KernelTyped, Ids
  <2> QED
    BY Zenon, <2>1, <2>2, HeldIs
<1>5. PICK o \in Op \cup {NoOp} :
        /\ op' = [op EXCEPT ![t] = o] /\ (o # NoOp => o.socket = h)
        /\ UpdateSet(t) => o.step = "update_issue"
        /\ CallIssues(t) => o.step = "idle" \/ (o.step = "add_undo" /\ op[t].step = "add_issue" /\ IssueThrows(n))
        /\ RemoveCancel(t) => o = NoOp
  <2>1. \A step \in Steps : /\ [op[t] EXCEPT !.step = step] \in Op /\ [op[t] EXCEPT !.step = step].socket = h
                            /\ [op[t] EXCEPT !.step = step].step = step
    BY <1>2, <1>3 DEF Op
  <2>2. CASE UpdateSet(t)
    <3>1. op' = [op EXCEPT ![t] = [op[t] EXCEPT !.step = "update_issue"]] /\ ~CallIssues(t) /\ ~RemoveCancel(t)
      BY <2>2 DEF UpdateSet, Goto, CallIssues, RemoveCancel, At
    <3> QED
      BY Zenon, <2>1, <3>1 DEF Steps
  <2>3. CASE CallIssues(t)
    <3>1. ~UpdateSet(t) /\ ~RemoveCancel(t)
      BY Zenon, <2>3 DEF UpdateSet, CallIssues, RemoveCancel, At
    <3>2. CASE Return(t)
      BY Zenon, <3>1, <3>2, IdleOp DEF Return
    <3>3. CASE op' = [op EXCEPT ![t] = [op[t] EXCEPT !.step = "add_undo"]] /\ op[t].step = "add_issue" /\ IssueThrows(n)
      BY Zenon, <2>1, <3>1, <3>3 DEF Steps
    <3> QED
      BY <1>3, <2>3, <3>2, <3>3 DEF CallIssues, Goto, At
  <2>4. CASE RemoveCancel(t)
    <3>1. ~UpdateSet(t) /\ ~CallIssues(t) /\ op' = [op EXCEPT ![t] = NoOp]
      BY Zenon, <2>4 DEF UpdateSet, CallIssues, RemoveCancel, At, Return
    <3> QED
      BY Zenon, <3>1
  <2> QED
    BY Zenon, <2>2, <2>3, <2>4
<1>6. op'[t] = o /\ (\A u \in Threads \ {t} : op'[u] = op[u]) /\ (o.step # "idle" => o.socket = h)
      /\ o.step # "remove_cancel"
  BY Zenon, <1>0, <1>2, <1>5, IdleOp
<1>7. ASSUME Changed(n), SameFile',
             \A m \in Ids : afd'[m].socket = h /\ ~afd'[m].delete_pending /\ Active(m)' => HeldBy(t, h, m)',
             o.step = "add_undo" => \A m \in Ids : registrations_[h].state = m => ~Active(m)',
             \A m \in Ids : HeldBy(t, h, m)' => HeldBy(t, h, m)
      PROVE  Holding'
  <2>1. /\ Ids' = Ids /\ \A m \in Ids : afd'[m].socket = afd[m].socket /\ afd'[m].file = afd[m].file
        /\ \A m \in Ids : afd[m].socket # h => afd'[m] = afd[m]
    BY Zenon, <1>3, <1>7 DEF Changed
  <2>2. careful => \A m \in Ids' : afd'[m].socket = h /\ HeldBy(t, h, m)' => gen[h] = afd'[m].file
    BY ZenonT(30), <1>4, <1>7, <2>1 DEF Holding, HeldOpen
  <2>3. o.step # "add_issue"
    BY <1>5, IdleOp
  <2> QED
    BY Zenon, <1>1, <1>2, <1>3, <1>4, <1>6, <1>7, <2>1, <2>2, <2>3, CallHolding
<1>8. ASSUME UpdateSet(t) \/ CallIssues(t)
      PROVE  \A m : (HeldBy(t, h, m)' <=> HeldBy(t, h, m)) /\ (HeldBy(t, h, m) <=> m = n)
  <2>1. op[t].step # "remove_cancel" /\ registrations_[h] # NoReg /\ registrations_[h].state = n
    BY Zenon, <1>2, <1>3, <1>8 DEF UpdateSet, CallIssues, At, CallOK
  <2> QED
    BY Zenon, <1>1, <1>6, <2>1 DEF HeldBy
<1>9. CASE UpdateSet(t)
  <2>1. op[t].token \in Tokens /\ interests_to_afd_flags(op[t].interests) \in SUBSET AfdPollFlags
    BY Zenon, <1>2, FlagsType DEF Op
  <2>2. Changed(n) /\ afd'[n].status = afd[n].status /\ afd'[n].delete_pending = afd[n].delete_pending /\ UNCHANGED flight
    BY Zenon, <1>0, <1>3, <1>9, <2>1, UpdateSetEffect DEF UpdateSet
  <2>3. /\ Ids' = Ids /\ \A m \in Ids : /\ afd'[m].file = afd[m].file /\ afd'[m].socket = afd[m].socket
                                        /\ afd'[m].delete_pending = afd[m].delete_pending
                                        /\ Active(m)' <=> Active(m)
    BY Zenon, <1>1, <2>2 DEF Changed, Active, Reissuing
  <2>4. SameFile'
    BY Zenon, <1>0, <1>1, <2>2, <2>3, QueueStates, SameFileKept DEF Holding
  <2>5. \A m \in Ids : afd'[m].socket = h /\ ~afd'[m].delete_pending /\ Active(m)' => HeldBy(t, h, m)'
    BY Zenon, <1>4, <1>8, <1>9, <2>3 DEF Holding, HeldActive
  <2>6. o.step # "add_undo"
    BY <1>5, <1>9
  <2> QED
    BY Zenon, <1>7, <1>8, <1>9, <2>2, <2>4, <2>5, <2>6
<1>10. CASE CallIssues(t)
  <2>1. IssueOk(n) \/ IssueThrows(n)
    BY Zenon, <1>3, <1>10 DEF CallIssues
  <2>2. Held(n)
    BY Zenon, <1>3, <1>4, <1>8, <1>10
  <2>3. SameFile' /\ Changed(n)
    BY Zenon, <1>1, <2>1, <2>2, IssueSameFile
  <2>4. \A m \in Ids \ {n} : afd'[m] = afd[m] /\ (Active(m)' <=> Active(m))
    BY Zenon, <1>1, <2>3 DEF Changed, Active, Reissuing
  <2>5. \A m \in Ids : afd'[m].socket = h /\ ~afd'[m].delete_pending /\ Active(m)' => HeldBy(t, h, m)'
    BY ZenonT(30), <1>4, <1>8, <1>10, <2>4 DEF Holding, HeldActive
  <2>6. ASSUME o.step = "add_undo" PROVE \A m \in Ids : registrations_[h].state = m => ~Active(m)'
    <3>1. op[t].step = "add_issue" /\ IssueThrows(n)
      BY <1>5, <1>10, <2>6
    <3>2. afd'[n].status = afd[n].status
      BY Zenon, <1>0, <3>1, IssueThrowsEffect
    <3>3. \A m \in Ids : Active(m)' <=> Active(m)
      BY Zenon, <1>1, <2>4, <3>2 DEF Active, Reissuing
    <3> QED
      BY Zenon, <1>3, <3>1, <3>3 DEF Holding, HeldActive
  <2> QED
    BY Zenon, <1>7, <1>8, <1>10, <2>3, <2>5, <2>6
<1>11. CASE RemoveCancel(t)
  <2>1. Changed(n) /\ afd'[n].delete_pending /\ (Cancel(n) \/ UNCHANGED flight)
    BY Zenon, <1>0, <1>3, <1>11, RemoveCancelEffect
  <2>2. /\ Ids' = Ids /\ (\A m \in Ids : afd'[m].file = afd[m].file)
        /\ \A m \in Ids \ {n} : afd'[m] = afd[m] /\ (Active(m)' <=> Active(m))
    BY Zenon, <1>1, <2>1 DEF Changed, Active, Reissuing
  <2>3. SameFile'
    BY Zenon, <1>0, <1>1, <2>1, <2>2, QueueStates, SameFileKept DEF Holding
  <2>4. op[t].step = "remove_cancel" /\ registrations_[h] = NoReg /\ o.step = "idle"
    BY Zenon, <1>2, <1>3, <1>5, <1>11, IdleOp DEF RemoveCancel, At, CallOK
  <2>5. \A m : ~HeldBy(t, h, m)' /\ (HeldBy(t, h, m) <=> m = n)
    BY Zenon, <1>1, <1>3, <1>6, <2>4 DEF HeldBy
  <2>6. \A m \in Ids : afd'[m].socket = h /\ ~afd'[m].delete_pending /\ Active(m)' => HeldBy(t, h, m)'
    BY Zenon, <1>4, <2>1, <2>2, <2>5 DEF Holding, HeldActive
  <2> QED
    BY Zenon, <1>7, <2>1, <2>3, <2>4, <2>5, <2>6
<1> QED
  BY <1>9, <1>10, <1>11

LEMMA HoldingStep ==
  ASSUME Typed, Calls, Single, Holding, [Next]_vars
  PROVE  Holding'
<1>1. ASSUME UNCHANGED <<careful, registrations_, op, open, gen, afd, ppc, current, flight, queue>>
      PROVE  Holding'
  <2>1. SameFile'
    BY Zenon, <1>1 DEF Holding, SameFile
  <2> QED
    BY <1>1, <2>1, EnvironmentHolding
<1>2. CASE Environment
  <2>1. CASE \/ \E h \in Sockets, flag \in Conditions : Arise(h, flag) \/ Cease(h, flag)
             \/ \E token \in WakerTokens : WakerNew(token)
             \/ WakerDrop
    <3>1. UNCHANGED <<careful, registrations_, op, open, gen, afd, ppc, current, flight, queue>>
      BY <2>1 DEF Arise, Cease, WakerNew, WakerDrop
    <3> QED
      BY <1>1, <3>1
  <2> QED
    BY <1>2, <2>1, OpenHolding, KernelHolding, WakeHolding DEF Environment
<1>3. ASSUME NEW n \in 1..MaxStates, Kernel(n) PROVE Holding'
  BY <1>3, KernelHolding DEF Kernel
<1>4. CASE UNCHANGED vars
  BY <1>1, <1>4 DEF vars
<1>5. ASSUME NEW t \in Threads, CallGoesOn(t) PROVE Holding'
  BY <1>5, AddStateHolding, AddFailsHolding, CallGoesOnHolding DEF CallGoesOn
<1> QED
  BY <1>2, <1>3, <1>4, <1>5, CallBeginsHolding, SelectHolding DEF Next

LEMMA HoldingInvariant == Spec => []Holding
<1>1. Init => Holding
  <2>1. Init => Ids = {} /\ DOMAIN queue = {} /\ flight = {}
    BY DEF Init, Ids
  <2>2. Init => (\A t \in Threads : op[t] = NoOp) /\ (\A h \in Sockets : registrations_[h] = NoReg)
    BY Zenon DEF Init
  <2> QED
    BY Zenon, <2>1, <2>2 DEF Holding, HeldActive, HeldOpen, SameFile
<1>2. Typed /\ Calls /\ Single /\ Holding /\ [Next]_vars => Holding'
  BY HoldingStep
<1> QED
  BY <1>1, <1>2, BaseInvariant, SingleInvariant, PTL DEF Spec

\* Only the polling thread changes what poll() returns.
LEMMA ElsewhereQuiet ==
  ASSUME [Next]_vars, ~Select
  PROVE  UNCHANGED <<careful, events, failed>> /\ (UNCHANGED faults \/ Fault)
<1>1. ASSUME NEW t \in Threads, CallGoesOn(t)
      PROVE  UNCHANGED <<careful, events, failed>> /\ (UNCHANGED faults \/ Fault)
  BY Zenon, <1>1 DEF CallGoesOn, AddState, AddStateFails, AddUndo, UpdateSet, CallIssues, RemoveCancel, IssueOk,
     IssueThrows, IssueElse, Submit, SubmitFails
<1>2. ASSUME NEW t \in Threads, CallBegins(t) PROVE UNCHANGED <<careful, events, failed, faults>>
  BY Zenon, <1>2 DEF CallBegins, RemoveErase, AddEmplace, UpdateMap
<1>3. ASSUME Environment \/ \E n \in 1..MaxStates : Kernel(n)
      PROVE  UNCHANGED <<careful, events, failed>> /\ (UNCHANGED faults \/ Fault)
  BY Zenon, <1>3 DEF Kernel, Environment, KernelCompletes, KernelCancels, KernelFails, Finish, OpenSocket, CloseSocket,
     Arise, Cease, WakerNew, WakerDrop, Wake
<1> QED
  BY Zenon, <1>1, <1>2, <1>3 DEF Next, vars

\* If the program deregisters a socket before it closes it, every Event carries
\* readiness of the socket its token was given for, also when the handle value is
\* reused by another thread during the poll.
THEOREM EventsFromTheirSources == Spec => []EventFromItsSource
<1>1. Init => EventFromItsSource
  BY DEF Init, EventFromItsSource
<1>2. ASSUME Typed, Holding, EventFromItsSource, [Next]_vars
      PROVE  EventFromItsSource'
  <2>1. events \in Seq(PushedEvent) /\ queue \in QueueSet(Ids) /\ afd \in Seq(AfdSocketState)
    BY <1>2 DEF Typed, KernelTyped, OthersTyped
  <2>2. UNCHANGED careful
    BY Zenon, <1>2, ElsewhereQuiet DEF Select, SelectBegin, GetPacket, CompleteAfd, Reissue, SelectReturn
  <2>3. ASSUME NEW e, events' = Append(events, e), careful => e.file = e.owner
        PROVE  EventFromItsSource'
    <3>1. /\ DOMAIN events = 1..Len(events) /\ DOMAIN events' = 1..(Len(events) + 1) /\ Len(events) \in Nat
          /\ (\A i \in DOMAIN events : events'[i] = events[i]) /\ events'[Len(events) + 1] = e
      BY <2>1, <2>3, SeqLen
    <3>2. \A i \in DOMAIN events' : i \in DOMAIN events \/ i = Len(events) + 1
      BY <3>1
    <3> QED
      BY <1>2, <2>2, <2>3, <3>1, <3>2 DEF EventFromItsSource
  <2>4. CASE GetPacket
    <3> DEFINE e == [state |-> 0, token |-> Head(queue).token, file |-> 0, owner |-> 0,
                     event |-> Event({"READABLE"}, FALSE, FALSE, FALSE)]
    <3>1. events' = Append(events, e) /\ e.file = e.owner
      BY <2>4 DEF GetPacket
    <3> HIDE DEF e
    <3> QED
      BY <2>3, <3>1
  <2>5. CASE CompleteAfd
    <3>1. queue # <<>> /\ Head(queue).kind = "afd" /\ queue' = Tail(queue)
      BY Zenon, <2>5 DEF CompleteAfd, Getting
    <3>2. Head(queue).state \in Ids /\ Head(queue) = queue[1] /\ 1 \in DOMAIN queue
      BY Zenon, <2>1, <3>1, Taken
    <3>3. PICK n \in Ids : n = Head(queue).state
      BY <3>2
    <3>4. careful => Head(queue).file = afd[n].file
      BY <1>2, <3>1, <3>2, <3>3 DEF Holding, SameFile
    <3>5. UNCHANGED events \/ \E emitted \in SUBSET AfdPollFlags : events' = Append(events, Pushed(n, Head(queue).file, emitted))
      BY Zenon, <2>1, <2>5, <3>3, CompleteEffect
    <3>6. \A emitted : /\ Pushed(n, Head(queue).file, emitted).file = Head(queue).file
                       /\ Pushed(n, Head(queue).file, emitted).owner = afd[n].file
      BY Zenon DEF Pushed
    <3>7. CASE UNCHANGED events
      BY <1>2, <2>2, <3>7 DEF EventFromItsSource
    <3> QED
      BY Zenon, <2>3, <3>4, <3>5, <3>6, <3>7
  <2>6. CASE events' = <<>>
    BY <2>6 DEF EventFromItsSource
  <2>7. CASE UNCHANGED events
    BY <1>2, <2>2, <2>7 DEF EventFromItsSource
  <2> QED
    BY Zenon, <1>2, <2>4, <2>5, <2>6, <2>7, ElsewhereQuiet DEF Select, SelectBegin, Reissue, SelectReturn
<1> QED
  BY <1>1, <1>2, BaseInvariant, HoldingInvariant, PTL DEF Spec

\* poll() fails only when the system is out of resources or the program has closed a
\* socket that was still registered.
THEOREM PollsSucceed == Spec => []PollSucceeds
<1>1. Init => PollSucceeds
  BY DEF Init, PollSucceeds
<1>2. ASSUME Typed, Calls, Holding, PollSucceeds, [Next]_vars
      PROVE  PollSucceeds'
  <2>1. faults \in Nat
    BY <1>2, AfdBoundsAssumption DEF Typed, OthersTyped
  <2>2. CASE Reissue
    <3>1. PICK n \in Ids : n = current /\ Reissuing(n)
      BY <1>2, <2>2 DEF Reissue, Typed, Reissued, Reissuing
    <3>2. CASE IssueOk(n) /\ UNCHANGED failed
      <4>1. UNCHANGED <<faults, careful>>
        BY <2>2, <3>2 DEF IssueOk, Submit, IssueElse, Reissue
      <4> QED
        BY <1>2, <3>2, <4>1 DEF PollSucceeds
    <3>3. CASE IssueThrows(n)
      <4>1. (~open[afd[n].socket] /\ ~afd[n].delete_pending) \/ Fault
        BY Zenon, <1>2, <3>3, IssueThrowsEffect DEF Typed, KernelTyped
      <4>2. CASE Fault
        BY <2>1, <4>2 DEF Fault, PollSucceeds
      <4>3. CASE ~open[afd[n].socket] /\ ~afd[n].delete_pending
        <5>1. Held(n)
          BY Zenon, <1>2, <3>1, <4>3 DEF Holding, HeldActive, Active
        <5>2. ~careful
          BY Zenon, <1>2, <4>3, <5>1, HeldIsOpen DEF Holding
        <5>3. UNCHANGED careful
          BY <2>2 DEF Reissue
        <5> QED
          BY <5>2, <5>3 DEF PollSucceeds
      <4> QED
        BY <4>1, <4>2, <4>3
    <3> QED
      BY <2>2, <3>1, <3>2, <3>3 DEF Reissue
  <2>3. CASE UNCHANGED <<careful, failed>> /\ (UNCHANGED faults \/ Fault)
    BY <1>2, <2>1, <2>3 DEF PollSucceeds, Fault
  <2>4. CASE failed' = FALSE
    BY <2>4 DEF PollSucceeds
  <2>5. CASE SelectBegin \/ GetPacket \/ CompleteAfd \/ SelectReturn
    BY Zenon, <2>3, <2>4, <2>5 DEF SelectBegin, GetPacket, CompleteAfd, SelectReturn
  <2> QED
    BY <1>2, <2>2, <2>3, <2>5, ElsewhereQuiet DEF Select
<1> QED
  BY <1>1, <1>2, BaseInvariant, HoldingInvariant, PTL DEF Spec


------------------------------------------------------------------------------
\* SelectorContract

AddingSteps == {"add_state", "add_issue", "add_undo"}

BeingAdded(h) == \E t \in Threads : op[t] # NoOp /\ op[t].socket = h /\ op[t].step \in AddingSteps

Entered(h) == registrations_[h] # NoReg /\ ~BeingAdded(h)

EntryState(h) == afd[registrations_[h].state]

\* The flags the socket is ready for and those of them that are due.
ReadyFlags(h) ==
  IF /\ Entered(h) /\ ~EntryState(h).delete_pending /\ ~EntryState(h).dropped
     /\ open[h] /\ gen[h] = EntryState(h).file
  THEN level[h] \cap interests_to_afd_flags(registrations_[h].interests)
  ELSE {}

DueFlags(h) == ReadyFlags(h) \cap EntryState(h).user_events

LEMMA ContractEntry ==
  ASSUME CallsTyped, NEW h \in Sockets
  PROVE  /\ Entered(h) => /\ ContractRegistered[h] = [token |-> registrations_[h].token,
                                                      interests |-> registrations_[h].interests]
                          /\ ContractRegistered[h] \in [token : Tokens, interests : InterestSets]
         /\ ~Entered(h) => ContractRegistered[h] = NoReg
         /\ ContractRegistered[h] # NoReg <=> Entered(h)
<1>1. ContractRegistered[h] = IF Entered(h)
                              THEN [token |-> registrations_[h].token,
                                    interests |-> registrations_[h].interests]
                              ELSE NoReg
  BY Zenon DEF ContractRegistered, Entered, BeingAdded, AddingSteps
<1>2. Entered(h) => registrations_[h].token \in Tokens /\ registrations_[h].interests \in InterestSets
  BY DEF CallsTyped, Entry, Entered
<1>3. Entered(h) => ContractRegistered[h] \in [token : Tokens, interests : InterestSets]
  <2>1. \A token \in Tokens, interests \in InterestSets :
          [token |-> token, interests |-> interests] \in [token : Tokens, interests : InterestSets]
    BY ONLY TRUE
  <2> QED
    BY Zenon, <1>1, <1>2, <2>1
<1> QED
  BY Zenon, <1>1, <1>3, AfdNothingAssumption

LEMMA ContractSets ==
  CallsTyped =>
    /\ ContractReady = {d \in Sockets \X Conditions : d[2] \in ReadyFlags(d[1])}
    /\ ContractDue = {d \in Sockets \X Conditions : d[2] \in DueFlags(d[1])}
<1> SUFFICES ASSUME CallsTyped
             PROVE  /\ ContractReady = {d \in Sockets \X Conditions : d[2] \in ReadyFlags(d[1])}
                    /\ ContractDue = {d \in Sockets \X Conditions : d[2] \in DueFlags(d[1])}
  OBVIOUS
<1>1. \A h \in Sockets : ContractRegistered[h] # NoReg <=> Entered(h)
  BY Zenon, ContractEntry
<1>2. ContractReady = {d \in Sockets \X Conditions : d[2] \in ReadyFlags(d[1])}
  BY Zenon, <1>1 DEF ContractReady, ReadyFlags, EntryState
<1>3. ContractDue = {d \in Sockets \X Conditions : d[2] \in DueFlags(d[1])}
  BY <1>2 DEF ContractDue, DueFlags, EntryState
<1> QED
  BY <1>2, <1>3

LEMMA ContractSetsNext ==
  ASSUME CallsTyped'
  PROVE  /\ ContractReady' = {d \in Sockets \X Conditions : d[2] \in ReadyFlags(d[1])'}
         /\ ContractDue' = {d \in Sockets \X Conditions : d[2] \in DueFlags(d[1])'}
<1>1. (CallsTyped =>
         /\ ContractReady = {d \in Sockets \X Conditions : d[2] \in ReadyFlags(d[1])}
         /\ ContractDue = {d \in Sockets \X Conditions : d[2] \in DueFlags(d[1])})'
  BY ContractSets, PTL
<1> QED
  BY <1>1

\* A step about one socket, which takes no flag off what is due that stays ready.
LEMMA ContractFollows ==
  ASSUME CallsTyped, CallsTyped', NEW h \in Sockets,
         \A g \in Sockets \ {h} : ReadyFlags(g)' = ReadyFlags(g) /\ DueFlags(g)' = DueFlags(g),
         DueFlags(h) \cap ReadyFlags(h)' \subseteq EntryState(h)'.user_events
  PROVE  Contract!Follows(h)
<1>1. /\ ContractReady = {d \in Sockets \X Conditions : d[2] \in ReadyFlags(d[1])}
      /\ ContractDue = {d \in Sockets \X Conditions : d[2] \in DueFlags(d[1])}
  BY Zenon, ContractSets
<1>2. /\ ContractReady' = {d \in Sockets \X Conditions : d[2] \in ReadyFlags(d[1])'}
      /\ ContractDue' = {d \in Sockets \X Conditions : d[2] \in DueFlags(d[1])'}
  BY ContractSetsNext
<1>3. \A g \in Sockets : DueFlags(g)' = ReadyFlags(g)' \cap EntryState(g)'.user_events
  BY Zenon DEF DueFlags
<1>4. ContractDue' \subseteq ContractReady'
  BY <1>2, <1>3
<1>5. \A d \in Sockets \X Conditions : d \notin {h} \X Conditions => d[1] \in Sockets \ {h}
  OBVIOUS
<1>6. ContractReady' \ ({h} \X Conditions) = ContractReady \ ({h} \X Conditions)
  <2>1. ASSUME NEW d, d \notin {h} \X Conditions PROVE d \in ContractReady' <=> d \in ContractReady
    BY Zenon, <1>1, <1>2, <1>5, <2>1
  <2> QED
    BY Zenon, <2>1
<1>7. ContractDue' \ ({h} \X Conditions) = ContractDue \ ({h} \X Conditions)
  <2>1. ASSUME NEW d, d \notin {h} \X Conditions PROVE d \in ContractDue' <=> d \in ContractDue
    BY Zenon, <1>1, <1>2, <1>5, <2>1
  <2> QED
    BY Zenon, <2>1
<1>8. ASSUME NEW d \in ContractDue \cap ContractReady' PROVE d \in ContractDue'
  <2>1. d \in Sockets \X Conditions /\ d[2] \in DueFlags(d[1]) /\ d[2] \in ReadyFlags(d[1])'
    BY Zenon, <1>1, <1>2, <1>8
  <2>2. d[2] \in DueFlags(d[1])'
    BY Zenon, <1>3, <2>1
  <2> QED
    BY Zenon, <1>2, <2>1, <2>2
<1> QED
  BY Zenon, <1>4, <1>6, <1>7, <1>8 DEF Contract!Follows, Contract!OnlyOf, Contract!Of

LEMMA ContractSame ==
  ASSUME CallsTyped, CallsTyped',
         \A h \in Sockets : ReadyFlags(h)' = ReadyFlags(h) /\ DueFlags(h)' = DueFlags(h)
  PROVE  UNCHANGED <<ContractReady, ContractDue>>
BY ContractSets, ContractSetsNext

\* Nothing changes for a socket.
Quiet(g) ==
  /\ registrations_'[g] = registrations_[g]
  /\ BeingAdded(g)' <=> BeingAdded(g)
  /\ open'[g] = open[g] /\ gen'[g] = gen[g] /\ level'[g] = level[g]
  /\ \A m \in Ids : afd[m].socket = g => afd'[m] = afd[m]

LEMMA EnteredState ==
  ASSUME Typed, Calls, NEW h \in Sockets, Entered(h)
  PROVE  StateOf(h, registrations_[h].state)
<1>1. \A t \in Threads : op[t].step \in {"add_state", "add_undo"} /\ op[t].socket = h => BeingAdded(h)
  BY Zenon, OpFacts DEF Typed, BeingAdded, AddingSteps
<1> QED
  BY Zenon, <1>1 DEF Calls, EntryOK, Entered

LEMMA QuietFlags ==
  ASSUME Typed, Calls, NEW g \in Sockets, Quiet(g)
  PROVE  /\ Entered(g)' <=> Entered(g)
         /\ ReadyFlags(g)' = ReadyFlags(g) /\ DueFlags(g)' = DueFlags(g)
         /\ Entered(g) => registrations_'[g] = registrations_[g]
<1>1. Entered(g)' <=> Entered(g)
  BY Zenon DEF Quiet, Entered
<1>2. CASE Entered(g)
  <2>1. PICK m \in Ids : m = registrations_[g].state /\ afd[m].socket = g
    BY <1>2, EnteredState DEF StateOf
  <2>2. EntryState(g)' = EntryState(g)
    BY Zenon, <2>1 DEF EntryState, Quiet
  <2> QED
    BY Zenon, <1>1, <2>2 DEF ReadyFlags, DueFlags, Quiet
<1>3. CASE ~Entered(g)
  <2>1. ReadyFlags(g)' = {} /\ ReadyFlags(g) = {}
    BY Zenon, <1>1, <1>3 DEF ReadyFlags
  <2> QED
    BY Zenon, <1>1, <1>3, <2>1 DEF DueFlags
<1> QED
  BY Zenon, <1>2, <1>3

LEMMA RegisteredSame ==
  ASSUME CallsTyped, CallsTyped',
         \A g \in Sockets : (Entered(g)' <=> Entered(g)) /\ (Entered(g) => registrations_'[g] = registrations_[g])
  PROVE  UNCHANGED ContractRegistered
<1>1. ContractRegistered = [g \in Sockets |-> ContractRegistered[g]]
  BY Zenon DEF ContractRegistered
<1>2. \A g \in Sockets : ContractRegistered[g] =
        IF Entered(g) THEN [token |-> registrations_[g].token, interests |-> registrations_[g].interests]
        ELSE NoReg
  BY Zenon, ContractEntry
<1>3. ContractRegistered' = [g \in Sockets |->
        IF Entered(g)' THEN [token |-> registrations_'[g].token, interests |-> registrations_'[g].interests]
        ELSE NoReg]
  BY Zenon DEF ContractRegistered, Entered, BeingAdded, AddingSteps
<1>4. \A g \in Sockets : ContractRegistered'[g] = ContractRegistered[g]
  BY Zenon, <1>2, <1>3
<1>5. ContractRegistered' = [g \in Sockets |-> ContractRegistered'[g]]
  BY Zenon, <1>3
<1> QED
  BY <1>1, <1>4, <1>5

\* One entry comes, changes or goes.
LEMMA RegisteredSet ==
  ASSUME CallsTyped, CallsTyped', NEW h \in Sockets,
         \A g \in Sockets \ {h} : (Entered(g)' <=> Entered(g)) /\ (Entered(g) => registrations_'[g] = registrations_[g]),
         NEW entry,
         entry = IF Entered(h)' THEN [token |-> registrations_'[h].token, interests |-> registrations_'[h].interests]
                 ELSE NoReg
  PROVE  /\ ContractRegistered' = [ContractRegistered EXCEPT ![h] = entry]
         /\ Entered(h)' => entry \in [token : Tokens, interests : InterestSets]
<1>1. PICK f : f = ContractRegistered
  BY Zenon
<1>2. f = [g \in Sockets |-> f[g]]
  BY Zenon, <1>1 DEF ContractRegistered
<1>3. \A g \in Sockets : f[g] =
        IF Entered(g) THEN [token |-> registrations_[g].token, interests |-> registrations_[g].interests]
        ELSE NoReg
  BY Zenon, <1>1, ContractEntry
<1>4. ContractRegistered' = [g \in Sockets |->
        IF Entered(g)' THEN [token |-> registrations_'[g].token, interests |-> registrations_'[g].interests]
        ELSE NoReg]
  BY Zenon DEF ContractRegistered, Entered, BeingAdded, AddingSteps
<1>5. ContractRegistered' = [g \in Sockets |-> IF g = h THEN entry ELSE f[g]]
  BY Zenon, <1>3, <1>4
<1>6. [f EXCEPT ![h] = entry] = [g \in Sockets |-> IF g = h THEN entry ELSE f[g]]
  BY ONLY <1>2, h \in Sockets
<1>7. Entered(h)' => registrations_'[h] \in Entry
  BY DEF Entered, CallsTyped
<1> QED
  BY Zenon, <1>1, <1>5, <1>6, <1>7 DEF Entry

\* A step on one AfdSocketState that leaves the calls and the sockets alone.
LEMMA OneStateContract ==
  ASSUME Typed, Calls, CallsTyped', NEW n \in Ids, NEW h \in Sockets, afd[n].socket = h,
         Changed(n), UNCHANGED <<registrations_, socketVars>>,
         \A g \in Sockets : BeingAdded(g)' <=> BeingAdded(g),
         ~afd'[n].delete_pending /\ ~afd'[n].dropped =>
           afd[n].user_events \cap interests_to_afd_flags(registrations_[h].interests)
             \subseteq afd'[n].user_events
  PROVE  /\ UNCHANGED ContractRegistered
         /\ \/ UNCHANGED <<ContractReady, ContractDue>>
            \/ ContractRegistered[h] # NoReg /\ Contract!Follows(h)
<1>0. CallsTyped
  BY Zenon DEF Typed
<1>1. \A g \in Sockets \ {h} : Quiet(g)
  BY Zenon DEF Quiet, Changed
<1>2. \A g \in Sockets \ {h} :
        /\ Entered(g)' <=> Entered(g)
        /\ ReadyFlags(g)' = ReadyFlags(g) /\ DueFlags(g)' = DueFlags(g)
  BY Zenon, <1>1, QuietFlags
<1>3. \A g \in Sockets : Entered(g)' <=> Entered(g)
  BY Zenon DEF Entered
<1>4. UNCHANGED ContractRegistered
  BY Zenon, <1>0, <1>3, RegisteredSame
<1>5. CASE Entered(h) /\ registrations_[h].state = n
  <2>1. /\ ReadyFlags(h)' \subseteq interests_to_afd_flags(registrations_[h].interests)
        /\ ReadyFlags(h)' # {} => ~afd'[n].delete_pending /\ ~afd'[n].dropped
    BY Zenon, <1>5 DEF ReadyFlags, EntryState
  <2>2. DueFlags(h) \subseteq afd[n].user_events /\ EntryState(h)'.user_events = afd'[n].user_events
    BY Zenon, <1>5 DEF DueFlags, EntryState
  <2>3. DueFlags(h) \cap ReadyFlags(h)' \subseteq EntryState(h)'.user_events
    BY Zenon, <2>1, <2>2
  <2>4. Contract!Follows(h)
    BY Zenon, <1>0, <1>2, <2>3, ContractFollows
  <2>5. ContractRegistered[h] # NoReg
    BY Zenon, <1>0, <1>5, ContractEntry
  <2> QED
    BY Zenon, <1>4, <2>4, <2>5
<1>6. CASE ~(Entered(h) /\ registrations_[h].state = n)
  <2>1. ReadyFlags(h)' = ReadyFlags(h) /\ DueFlags(h)' = DueFlags(h)
    <3>1. CASE Entered(h)
      <4>1. PICK m \in Ids \ {n} : m = registrations_[h].state
        BY Zenon, <1>6, <3>1, EnteredState DEF StateOf
      <4>2. EntryState(h)' = EntryState(h)
        BY Zenon, <4>1 DEF EntryState, Changed
      <4> QED
        BY Zenon, <1>3, <4>2 DEF ReadyFlags, DueFlags
    <3>2. CASE ~Entered(h)
      <4>1. ReadyFlags(h)' = {} /\ ReadyFlags(h) = {}
        BY Zenon, <1>3, <3>2 DEF ReadyFlags
      <4> QED
        BY Zenon, <4>1 DEF DueFlags
    <3> QED
      BY Zenon, <3>1, <3>2
  <2>2. UNCHANGED <<ContractReady, ContractDue>>
    BY Zenon, <1>0, <1>2, <2>1, ContractSame
  <2> QED
    BY Zenon, <1>4, <2>2
<1> QED
  BY Zenon, <1>5, <1>6

\* issue_afd_poll asks for nothing else than before.
LEMMA IssueKeepsEvents ==
  ASSUME Typed, NEW n \in Ids, IssueOk(n) \/ IssueThrows(n)
  PROVE  /\ Changed(n)
         /\ ~afd'[n].dropped => afd'[n].user_events = afd[n].user_events
         /\ IssueThrows(n) => afd'[n].dropped
<1>0. afd \in Seq(AfdSocketState)
  BY DEF Typed, KernelTyped
<1>1. afd[n] \in AfdSocketState
  BY <1>0, StateType
<1>2. CASE IssueThrows(n)
  BY Zenon, <1>0, <1>2, IssueThrowsEffect
<1>3. CASE ~IssueThrows(n) /\ Submit(n)
  BY Zenon, <1>0, <1>3, SubmitEffect
<1>4. CASE ~IssueThrows(n) /\ IssueElse(n)
  <2>1. CASE Update(n, Widened(afd[n]))
    <3>1. /\ Widened(afd[n]) \in AfdSocketState
          /\ Widened(afd[n]).socket = afd[n].socket /\ Widened(afd[n]).file = afd[n].file
          /\ Widened(afd[n]).delete_pending = afd[n].delete_pending
          /\ Widened(afd[n]).user_events = afd[n].user_events
      BY Zenon, <1>1 DEF Widened, AfdSocketState
    <3>2. Changed(n) /\ afd'[n] = Widened(afd[n])
      BY Zenon, <1>0, <2>1, <3>1, UpdateChanged
    <3> QED
      BY Zenon, <1>4, <3>1, <3>2
  <2>2. CASE UNCHANGED afd
    BY <1>0, <1>4, <2>2 DEF Changed, Ids
  <2> QED
    BY Zenon, <1>4, <2>1, <2>2 DEF IssueElse, Update, Widened
<1> QED
  BY Zenon, <1>2, <1>3, <1>4 DEF IssueOk

\* set_afd_interest sets what the entry says.
Asked ==
  \A t \in Threads : op[t].step = "update_set" =>
    registrations_[op[t].socket].interests = op[t].interests

LEMMA CallAsked ==
  ASSUME CallsTyped, Asked, NEW t \in Threads, NEW h \in Sockets, OnlyCall(t, h),
         \A u \in Threads \ {t} : op'[u] = op[u],
         \A g \in Sockets \ {h} : registrations_'[g] = registrations_[g],
         op'[t].step = "update_set" => registrations_'[op'[t].socket].interests = op'[t].interests
  PROVE  Asked'
<1>1. ASSUME NEW u \in Threads \ {t}, op[u].step = "update_set"
      PROVE  registrations_'[op[u].socket].interests = op[u].interests
  <2>1. op[u] # NoOp /\ op[u] \in Op
    BY <1>1, OpFacts
  <2>2. op[u].socket \in Sockets \ {h}
    BY Zenon, <2>1 DEF OnlyCall, Op
  <2> QED
    BY Zenon, <1>1, <2>2 DEF Asked
<1> QED
  BY Zenon, <1>1 DEF Asked

LEMMA AskedStep ==
  ASSUME Typed, Calls, Asked, [Next]_vars
  PROVE  Asked'
<1>0. /\ CallsTyped /\ registrations_ \in [Sockets -> Entry \cup {NoReg}]
      /\ op \in [Threads -> Op \cup {NoOp}]
  BY DEF Typed, CallsTyped
<1>1. CASE UNCHANGED <<registrations_, op>>
  BY <1>1 DEF Asked
<1>2. ASSUME NEW t \in Threads, CallBegins(t) PROVE Asked'
  <2>1. PICK h \in Sockets :
          \/ RemoveErase(t, h)
          \/ \E token \in Tokens, interests \in InterestSets :
               AddEmplace(t, h, token, interests) \/ UpdateMap(t, h, token, interests)
    BY <1>2 DEF CallBegins
  <2>2. OnlyCall(t, h)
    BY Zenon, <2>1 DEF OnlyCall, RemoveErase, AddEmplace, UpdateMap, Idle
  <2>3. /\ \E e : registrations_' = [registrations_ EXCEPT ![h] = e]
        /\ \E o : op' = [op EXCEPT ![t] = o]
    BY Zenon, <2>1 DEF RemoveErase, AddEmplace, UpdateMap, Call
  <2>4. /\ \A g \in Sockets \ {h} : registrations_'[g] = registrations_[g]
        /\ \A u \in Threads \ {t} : op'[u] = op[u]
    BY <1>0, <2>3
  <2>5. CASE \E token \in Tokens, interests \in InterestSets : UpdateMap(t, h, token, interests)
    <3>1. PICK token \in Tokens, interests \in InterestSets : UpdateMap(t, h, token, interests)
      BY <2>5
    <3>2. registrations_[h] \in Entry
      BY <1>0, <3>1 DEF UpdateMap
    <3>3. registrations_'[h].interests = interests
      BY <1>0, <3>1, <3>2 DEF UpdateMap, Entry
    <3>4. op'[t].socket = h /\ op'[t].interests = interests
      BY <1>0, <3>1 DEF UpdateMap, Call
    <3> QED
      BY Zenon, <1>0, <2>2, <2>4, <3>3, <3>4, CallAsked
  <2>6. CASE RemoveErase(t, h) \/ \E token \in Tokens, interests \in InterestSets : AddEmplace(t, h, token, interests)
    <3>1. \E step \in {"remove_cancel", "add_state"} : \E token, interests, n : Call(t, step, h, token, interests, n)
      BY Zenon, <2>6 DEF RemoveErase, AddEmplace
    <3>2. op'[t].step # "update_set"
      BY <1>0, <3>1 DEF Call
    <3> QED
      BY Zenon, <1>0, <2>2, <2>4, <3>2, CallAsked
  <2> QED
    BY Zenon, <2>1, <2>5, <2>6
<1>3. ASSUME NEW t \in Threads, CallGoesOn(t) PROVE Asked'
  <2>1. op[t].step # "idle"
    BY Zenon, <1>3 DEF CallGoesOn, AddState, AddStateFails, AddUndo, UpdateSet, CallIssues, RemoveCancel, At
  <2>2. op[t] \in Op /\ op[t] # NoOp
    BY <1>0, <2>1, OpFacts
  <2>3. PICK h \in Sockets : h = op[t].socket
    BY <2>2 DEF Op
  <2>4. OnlyCall(t, h)
    BY Zenon, <2>2, <2>3 DEF OnlyCall, Calls
  <2>5. \/ op' = [op EXCEPT ![t] = NoOp]
        \/ \E step \in {"update_issue", "add_undo"} : op' = [op EXCEPT ![t] = [@ EXCEPT !.step = step]]
        \/ op' = [op EXCEPT ![t] = [@ EXCEPT !.step = "add_issue", !.state = Len(afd) + 1]]
    BY Zenon, <1>3 DEF CallGoesOn, AddState, AddStateFails, AddUndo, UpdateSet, CallIssues, RemoveCancel, Goto, Return
  <2>6. op'[t].step # "update_set" /\ \A u \in Threads \ {t} : op'[u] = op[u]
    <3>1. ASSUME NEW o, op' = [op EXCEPT ![t] = o], o.step # "update_set"
          PROVE  op'[t].step # "update_set" /\ \A u \in Threads \ {t} : op'[u] = op[u]
      BY <1>0, <3>1
    <3>2. NoOp.step # "update_set"
      BY DEF NoOp
    <3>3. \A step \in {"update_issue", "add_undo"} : [op[t] EXCEPT !.step = step].step # "update_set"
      BY <2>2 DEF Op
    <3>4. [op[t] EXCEPT !.step = "add_issue", !.state = Len(afd) + 1].step # "update_set"
      BY <2>2 DEF Op
    <3> QED
      BY Zenon, <2>5, <3>1, <3>2, <3>3, <3>4
  <2>7. UNCHANGED registrations_ \/ \E e : registrations_' = [registrations_ EXCEPT ![h] = e]
    BY Zenon, <1>3, <2>3 DEF CallGoesOn, AddState, AddStateFails, AddUndo, UpdateSet, CallIssues, RemoveCancel
  <2>8. \A g \in Sockets \ {h} : registrations_'[g] = registrations_[g]
    BY <1>0, <2>7
  <2> QED
    BY Zenon, <1>0, <2>4, <2>6, <2>8, CallAsked
<1>4. CASE UNCHANGED vars
  BY Zenon, <1>1, <1>4 DEF vars
<1>5. CASE Select \/ Environment \/ \E n \in 1..MaxStates : Kernel(n)
  <2>1. UNCHANGED <<registrations_, op>>
    BY Zenon, <1>5 DEF Select, SelectBegin, GetPacket, CompleteAfd, Reissue, SelectReturn, Kernel, Environment,
       KernelCompletes, KernelCancels, KernelFails, Finish, OpenSocket, CloseSocket, Arise, Cease, WakerNew,
       WakerDrop, Wake
  <2> QED
    BY <1>1, <2>1
<1> QED
  BY Zenon, <1>2, <1>3, <1>4, <1>5 DEF Next

\* An Event of a socket names a state that was made.
EventsMade == \A i \in DOMAIN events : events[i].state \in Ids \cup {0}

LEMMA IdsGrow ==
  ASSUME Typed, Calls, [Next]_vars
  PROVE  Ids \subseteq Ids' /\ \A m \in Ids : afd'[m].socket = afd[m].socket
<1>0. afd \in Seq(AfdSocketState) /\ queue \in QueueSet(Ids)
  BY DEF Typed, KernelTyped
<1>1. ASSUME NEW n \in Ids, Changed(n) PROVE Ids \subseteq Ids' /\ \A m \in Ids : afd'[m].socket = afd[m].socket
  BY Zenon, <1>1 DEF Changed
<1>2. CASE UNCHANGED afd
  BY <1>2 DEF Ids
<1>3. ASSUME NEW t \in Threads, CallGoesOn(t) PROVE Ids \subseteq Ids' /\ \A m \in Ids : afd'[m].socket = afd[m].socket
  <2>1. CASE AddState(t)
    <3>1. op[t].step # "idle"
      BY <2>1 DEF AddState, At
    <3>2. op[t] \in Op
      BY <3>1, OpFacts DEF Typed
    <3> QED
      BY <2>1, <3>2, AddStateEffect DEF Typed
  <2>2. CASE AddStateFails(t) \/ AddUndo(t)
    BY Zenon, <1>2, <2>2 DEF AddStateFails, AddUndo
  <2>3. CASE UpdateSet(t) \/ CallIssues(t) \/ RemoveCancel(t)
    <3>1. op[t].step \in {"add_issue", "update_set", "update_issue", "remove_cancel"}
      BY <2>3 DEF UpdateSet, CallIssues, RemoveCancel, At
    <3>2. PICK n \in Ids : n = op[t].state /\ op[t] \in Op
      BY Zenon, <3>1, CallFacts
    <3>3. CASE UpdateSet(t)
      <4>1. op[t].token \in Tokens /\ interests_to_afd_flags(op[t].interests) \in SUBSET AfdPollFlags
        BY Zenon, <3>2, FlagsType DEF Op
      <4> QED
        BY Zenon, <1>0, <1>1, <3>2, <3>3, <4>1, UpdateSetEffect
    <3>4. CASE CallIssues(t)
      BY Zenon, <1>1, <3>2, <3>4, IssueKeepsEvents DEF CallIssues
    <3>5. CASE RemoveCancel(t)
      BY Zenon, <1>0, <1>1, <3>2, <3>5, RemoveCancelEffect
    <3> QED
      BY <2>3, <3>3, <3>4, <3>5
  <2> QED
    BY Zenon, <1>3, <2>1, <2>2, <2>3 DEF CallGoesOn
<1>4. CASE CompleteAfd
  <2>1. queue # <<>> /\ Head(queue).kind = "afd" /\ queue' = Tail(queue)
    BY Zenon, <1>4 DEF CompleteAfd, Getting
  <2>2. PICK n \in Ids : n = Head(queue).state
    BY Zenon, <1>0, <2>1, Taken
  <2> QED
    BY Zenon, <1>0, <1>1, <1>4, <2>2, CompleteEffect
<1>5. CASE Reissue
  <2>1. PICK n \in Ids : n = current
    BY Zenon, <1>5 DEF Reissue, Typed, Reissued
  <2> QED
    BY Zenon, <1>1, <1>5, <2>1, IssueKeepsEvents DEF Reissue
<1>6. ASSUME NEW f \in flight, KernelCompletes(f) \/ KernelCancels(f) \/ KernelFails(f)
      PROVE  Ids \subseteq Ids' /\ \A m \in Ids : afd'[m].socket = afd[m].socket
  <2>1. PICK n \in Ids : n = f.state
    BY DEF Typed, KernelTyped, FlightSet
  <2> QED
    BY Zenon, <1>1, <1>6, <2>1, FinishKeeps DEF Typed
<1>7. CASE SelectBegin \/ GetPacket \/ SelectReturn
  BY Zenon, <1>2, <1>7 DEF SelectBegin, GetPacket, SelectReturn
<1>8. ASSUME NEW t \in Threads, CallBegins(t) PROVE UNCHANGED afd
  BY Zenon, <1>8 DEF CallBegins, RemoveErase, AddEmplace, UpdateMap
<1>9. CASE Environment \/ \E n \in 1..MaxStates : Kernel(n)
  BY Zenon, <1>2, <1>6, <1>9 DEF Environment, Kernel, OpenSocket, CloseSocket, Arise, Cease, WakerNew, WakerDrop, Wake
<1>10. UNCHANGED vars => UNCHANGED afd
  BY DEF vars
<1> QED
  BY Zenon, <1>2, <1>3, <1>4, <1>5, <1>7, <1>8, <1>9, <1>10 DEF Next, Select

LEMMA EventsStep ==
  ASSUME Typed, [Next]_vars
  PROVE  \/ UNCHANGED events
         \/ events' = <<>>
         \/ \E e : events' = Append(events, e) /\ e.state \in Ids \cup {0}
<1>0. afd \in Seq(AfdSocketState) /\ queue \in QueueSet(Ids)
  BY DEF Typed, KernelTyped
<1>1. CASE GetPacket
  <2> DEFINE e == [state |-> 0, token |-> Head(queue).token, file |-> 0, owner |-> 0,
                   event |-> Event({"READABLE"}, FALSE, FALSE, FALSE)]
  <2>1. events' = Append(events, e) /\ e.state = 0
    BY <1>1 DEF GetPacket
  <2> HIDE DEF e
  <2> QED
    BY Zenon, <2>1
<1>2. CASE CompleteAfd
  <2>1. queue # <<>> /\ Head(queue).kind = "afd" /\ queue' = Tail(queue)
    BY Zenon, <1>2 DEF CompleteAfd, Getting
  <2>2. PICK n \in Ids : n = Head(queue).state
    BY Zenon, <1>0, <2>1, Taken
  <2>3. UNCHANGED events \/ \E emitted \in SUBSET AfdPollFlags : events' = Append(events, Pushed(n, Head(queue).file, emitted))
    BY Zenon, <1>0, <1>2, <2>2, CompleteEffect
  <2>4. \A emitted : Pushed(n, Head(queue).file, emitted).state = n
    BY DEF Pushed
  <2> QED
    BY Zenon, <2>3, <2>4
<1> QED
  BY Zenon, <1>1, <1>2, ElsewhereQuiet DEF Select, SelectBegin, Reissue, SelectReturn

LEMMA EventsMadeStep ==
  ASSUME Typed, Calls, EventsMade, [Next]_vars
  PROVE  EventsMade'
<1>1. Ids \subseteq Ids'
  BY IdsGrow
<1>2. CASE UNCHANGED events
  BY Zenon, <1>1, <1>2 DEF EventsMade
<1>3. CASE events' = <<>>
  BY <1>3 DEF EventsMade
<1>4. ASSUME NEW e, events' = Append(events, e), e.state \in Ids \cup {0} PROVE EventsMade'
  <2>1. /\ DOMAIN events = 1..Len(events) /\ DOMAIN events' = 1..(Len(events) + 1) /\ Len(events) \in Nat
        /\ (\A i \in DOMAIN events : events'[i] = events[i]) /\ events'[Len(events) + 1] = e
    <3>1. PICK s, r : s = events /\ r = events'
      BY Zenon
    <3>2. s \in Seq(PushedEvent) /\ r = Append(s, e)
      BY Zenon, <1>4, <3>1 DEF Typed, OthersTyped
    <3>3. /\ DOMAIN s = 1..Len(s) /\ DOMAIN r = 1..(Len(s) + 1) /\ Len(s) \in Nat
          /\ (\A i \in DOMAIN s : r[i] = s[i]) /\ r[Len(s) + 1] = e
      BY ONLY <3>2
    <3> QED
      BY Zenon, <3>1, <3>3
  <2>2. \A i \in DOMAIN events' : i \in DOMAIN events \/ i = Len(events) + 1
    BY <2>1
  <2> QED
    BY Zenon, <1>1, <1>4, <2>1, <2>2 DEF EventsMade
<1> QED
  BY Zenon, <1>2, <1>3, <1>4, EventsStep

\* What the step lemmas of the refinement rest on.
Promising == Typed /\ Calls /\ Asked /\ EventsMade

LEMMA PromisingInvariant == Spec => []Promising
<1>1. Init => Asked /\ EventsMade
  <2>1. NoOp.step # "update_set" /\ DOMAIN << >> = {}
    BY DEF NoOp
  <2>2. Init => \A t \in Threads : op[t] = NoOp
    BY Zenon DEF Init
  <2>3. Init => events = << >>
    BY Zenon DEF Init
  <2> QED
    BY Zenon, <2>1, <2>2, <2>3 DEF Asked, EventsMade
<1>2. Typed /\ Calls /\ Asked /\ EventsMade /\ [Next]_vars => (Asked /\ EventsMade)'
  BY Zenon, AskedStep, EventsMadeStep
<1> QED
  BY <1>1, <1>2, BaseInvariant, PTL DEF Spec, Promising

\* The Events are of the same sockets also when a state is made.
LEMMA ReportedKept ==
  ASSUME Promising, [Next]_vars, UNCHANGED events
  PROVE  UNCHANGED ContractReported
<1>1. Ids \subseteq Ids' /\ \A m \in Ids : afd'[m].socket = afd[m].socket
  BY IdsGrow DEF Promising
<1>2. 0 \notin Ids /\ 0 \notin Ids'
  BY DEF Ids
<1>3. Ids' \cap {events[i].state : i \in DOMAIN events} = Ids \cap {events[i].state : i \in DOMAIN events}
  BY Zenon, <1>1, <1>2 DEF Promising, EventsMade
<1>4. ContractReported' = {afd'[m].socket : m \in Ids \cap {events[i].state : i \in DOMAIN events}}
  BY Zenon, <1>3 DEF ContractReported
<1> QED
  BY <1>1, <1>4 DEF ContractReported

\* An Event pushed for a state adds its socket, one for a Waker adds none.
LEMMA ReportedGrows ==
  ASSUME Promising, [Next]_vars, NEW e, events' = Append(events, e), Ids' = Ids
  PROVE  /\ e.state = 0 => ContractReported' = ContractReported
         /\ e.state \in Ids => ContractReported' = ContractReported \cup {afd[e.state].socket}
<1>1. \A m \in Ids : afd'[m].socket = afd[m].socket
  BY Zenon, IdsGrow DEF Promising
<1>2. 0 \notin Ids
  BY DEF Ids
<1>3. /\ DOMAIN events = 1..Len(events) /\ DOMAIN events' = 1..(Len(events) + 1) /\ Len(events) \in Nat
      /\ (\A i \in DOMAIN events : events'[i] = events[i]) /\ events'[Len(events) + 1] = e
  <2>1. PICK s, r : s = events /\ r = events'
    BY Zenon
  <2>2. s \in Seq(PushedEvent) /\ r = Append(s, e)
    BY Zenon, <2>1 DEF Promising, Typed, OthersTyped
  <2>3. /\ DOMAIN s = 1..Len(s) /\ DOMAIN r = 1..(Len(s) + 1) /\ Len(s) \in Nat
        /\ (\A i \in DOMAIN s : r[i] = s[i]) /\ r[Len(s) + 1] = e
    BY ONLY <2>2
  <2> QED
    BY Zenon, <2>1, <2>3
<1>4. \A i : i \in DOMAIN events' <=> i \in DOMAIN events \/ i = Len(events) + 1
  BY <1>3
<1>5. {events'[i].state : i \in DOMAIN events'} = {events[i].state : i \in DOMAIN events} \cup {e.state}
  BY <1>3, <1>4
<1>6. PICK S : S = {events[i].state : i \in DOMAIN events}
  BY Zenon
<1>7. ContractReported' = {afd'[m].socket : m \in Ids \cap (S \cup {e.state})}
  BY Zenon, <1>5, <1>6 DEF ContractReported
<1>8. ContractReported' = {afd[m].socket : m \in Ids \cap (S \cup {e.state})}
  BY <1>1, <1>7
<1>9. ContractReported = {afd[m].socket : m \in Ids \cap S}
  BY Zenon, <1>6 DEF ContractReported
<1> QED
  BY Zenon, <1>2, <1>8, <1>9

LEMMA CallElsewhere ==
  ASSUME NEW t \in Threads, NEW h \in Sockets, OnlyCall(t, h),
         op[t] # NoOp => op[t].socket = h, op'[t] # NoOp => op'[t].socket = h,
         \A u \in Threads \ {t} : op'[u] = op[u],
         \A g \in Sockets \ {h} : registrations_'[g] = registrations_[g],
         \A m \in Ids : afd[m].socket # h => afd'[m] = afd[m],
         UNCHANGED socketVars
  PROVE  /\ \A g \in Sockets \ {h} : Quiet(g)
         /\ BeingAdded(h) <=> op[t] # NoOp /\ op[t].step \in AddingSteps
         /\ BeingAdded(h)' <=> op'[t] # NoOp /\ op'[t].step \in AddingSteps
<1>1. ASSUME NEW g \in Sockets \ {h} PROVE BeingAdded(g)' <=> BeingAdded(g)
  <2>1. \A u \in Threads : op[u] # NoOp /\ op[u].socket = g => op'[u] = op[u]
    BY Zenon
  <2>2. \A u \in Threads : op'[u] # NoOp /\ op'[u].socket = g => op'[u] = op[u]
    BY Zenon
  <2>3. BeingAdded(g) => BeingAdded(g)'
    BY Zenon, <2>1 DEF BeingAdded
  <2>4. BeingAdded(g)' => BeingAdded(g)
    BY Zenon, <2>2 DEF BeingAdded
  <2> QED
    BY Zenon, <2>3, <2>4
<1>2. BeingAdded(h) <=> op[t] # NoOp /\ op[t].step \in AddingSteps
  BY Zenon DEF BeingAdded, OnlyCall
<1>3. BeingAdded(h)' <=> op'[t] # NoOp /\ op'[t].step \in AddingSteps
  BY Zenon DEF BeingAdded, OnlyCall
<1>4. \A g \in Sockets \ {h} : Quiet(g)
  BY Zenon, <1>1 DEF Quiet
<1> QED
  BY Zenon, <1>2, <1>3, <1>4

\* A socket that has no entry yet, or has none any more, is nothing to the contract.
LEMMA HiddenStep ==
  ASSUME Promising, CallsTyped', NEW h \in Sockets, \A g \in Sockets \ {h} : Quiet(g),
         ~Entered(h), ~Entered(h)'
  PROVE  UNCHANGED <<ContractRegistered, ContractReady, ContractDue>>
<1>0. Typed /\ Calls /\ CallsTyped
  BY DEF Promising, Typed
<1>1. \A g \in Sockets \ {h} :
        /\ Entered(g)' <=> Entered(g)
        /\ ReadyFlags(g)' = ReadyFlags(g) /\ DueFlags(g)' = DueFlags(g)
        /\ Entered(g) => registrations_'[g] = registrations_[g]
  BY Zenon, <1>0, QuietFlags
<1>2. ReadyFlags(h)' = {} /\ ReadyFlags(h) = {}
  BY Zenon DEF ReadyFlags
<1>3. DueFlags(h)' = DueFlags(h)
  BY Zenon, <1>2 DEF DueFlags
<1>4. UNCHANGED ContractRegistered
  BY Zenon, <1>0, <1>1, RegisteredSame
<1>5. UNCHANGED <<ContractReady, ContractDue>>
  BY Zenon, <1>0, <1>1, <1>2, <1>3, ContractSame
<1> QED
  BY <1>4, <1>5

\* register comes into force, or reregister changes the entry.
LEMMA EntryContract ==
  ASSUME Promising, CallsTyped', NEW h \in Sockets, \A g \in Sockets \ {h} : Quiet(g),
         Entered(h)', UNCHANGED ContractReported,
         DueFlags(h) \cap ReadyFlags(h)' \subseteq EntryState(h)'.user_events
  PROVE  Contract!Next
<1>0. Typed /\ Calls /\ CallsTyped
  BY DEF Promising, Typed
<1>1. \A g \in Sockets \ {h} :
        /\ Entered(g)' <=> Entered(g)
        /\ ReadyFlags(g)' = ReadyFlags(g) /\ DueFlags(g)' = DueFlags(g)
        /\ Entered(g) => registrations_'[g] = registrations_[g]
  BY Zenon, <1>0, QuietFlags
<1>2. Contract!Follows(h)
  BY Zenon, <1>0, <1>1, ContractFollows
<1>3. PICK entry : entry = IF Entered(h)' THEN [token |-> registrations_'[h].token, interests |-> registrations_'[h].interests]
                           ELSE NoReg
  BY Zenon
<1>4. /\ ContractRegistered' = [ContractRegistered EXCEPT ![h] = entry]
      /\ Entered(h)' => entry \in [token : Tokens, interests : InterestSets]
  BY Zenon, <1>0, <1>1, <1>3, RegisteredSet
<1>5. Contract!Set(h, entry)
  BY Zenon, <1>2, <1>4 DEF Contract!Set
<1> QED
  BY Zenon, <1>4, <1>5 DEF Contract!Next, Contract!Register, Contract!Reregister, Contract!Entry

LEMMA EraseContract ==
  ASSUME Promising, CallsTyped', NEW h \in Sockets, \A g \in Sockets \ {h} : Quiet(g),
         ~Entered(h)', UNCHANGED ContractReported
  PROVE  Contract!Next
<1>0. Typed /\ Calls /\ CallsTyped
  BY DEF Promising, Typed
<1>1. \A g \in Sockets \ {h} :
        /\ Entered(g)' <=> Entered(g)
        /\ ReadyFlags(g)' = ReadyFlags(g) /\ DueFlags(g)' = DueFlags(g)
        /\ Entered(g) => registrations_'[g] = registrations_[g]
  BY Zenon, <1>0, QuietFlags
<1>2. PICK entry : entry = IF Entered(h)' THEN [token |-> registrations_'[h].token, interests |-> registrations_'[h].interests]
                           ELSE NoReg
  OBVIOUS
<1>3. ContractRegistered' = [ContractRegistered EXCEPT ![h] = entry] /\ entry = NoReg
  BY Zenon, <1>0, <1>1, <1>2, RegisteredSet
<1>4. ReadyFlags(h)' = {} /\ DueFlags(h)' = {}
  BY Zenon DEF ReadyFlags, DueFlags
<1>5. /\ ContractReady = {d \in Sockets \X Conditions : d[2] \in ReadyFlags(d[1])}
      /\ ContractDue = {d \in Sockets \X Conditions : d[2] \in DueFlags(d[1])}
  BY Zenon, <1>0, ContractSets
<1>6. /\ ContractReady' = {d \in Sockets \X Conditions : d[2] \in ReadyFlags(d[1])'}
      /\ ContractDue' = {d \in Sockets \X Conditions : d[2] \in DueFlags(d[1])'}
  BY Zenon, ContractSetsNext
<1>7. /\ ContractReady' = ContractReady \ ({h} \X Conditions)
      /\ ContractDue' = ContractDue \ ({h} \X Conditions)
  BY Zenon, <1>1, <1>4, <1>5, <1>6
<1>8. Contract!Deregister(h)
  BY Zenon, <1>3, <1>7 DEF Contract!Deregister, Contract!Of
<1> QED
  BY Zenon, <1>8 DEF Contract!Next

LEMMA CallBeginsContract ==
  ASSUME Promising, CallsTyped', NEW t \in Threads, CallBegins(t)
  PROVE  Contract!Next \/ UNCHANGED Contract!vars
<1>0. /\ Typed /\ Calls /\ registrations_ \in [Sockets -> Entry \cup {NoReg}]
      /\ op \in [Threads -> Op \cup {NoOp}]
  BY DEF Promising, Typed, CallsTyped
<1>1. PICK h \in Sockets :
        \/ RemoveErase(t, h)
        \/ \E token \in Tokens, interests \in InterestSets :
             AddEmplace(t, h, token, interests) \/ UpdateMap(t, h, token, interests)
  BY DEF CallBegins
<1>2. /\ Idle(t, h) /\ OnlyCall(t, h) /\ op[t] = NoOp
      /\ UNCHANGED <<afd, events, socketVars>>
      /\ \E e : registrations_' = [registrations_ EXCEPT ![h] = e]
      /\ \E step \in Steps : \E token, interests, n : Call(t, step, h, token, interests, n)
  BY Zenon, <1>1 DEF RemoveErase, AddEmplace, UpdateMap, Idle, OnlyCall, Steps
<1>3. /\ \A g \in Sockets \ {h} : registrations_'[g] = registrations_[g]
      /\ \A u \in Threads \ {t} : op'[u] = op[u]
      /\ op'[t].step # "idle" /\ op'[t].socket = h
  <2>1. PICK step, token, interests, n : step \in Steps /\ Call(t, step, h, token, interests, n)
    BY Zenon, <1>2
  <2>2. PICK o : o = [step |-> step, socket |-> h, token |-> token, interests |-> interests, state |-> n]
    BY Zenon
  <2>3. o.step = step /\ o.socket = h
    BY Zenon, <2>2
  <2>4. op'[t] = o /\ \A u \in Threads \ {t} : op'[u] = op[u]
    BY Zenon, <1>0, <2>1, <2>2 DEF Call
  <2>5. step # "idle"
    BY <2>1 DEF Steps
  <2> QED
    BY Zenon, <1>0, <1>2, <2>3, <2>4, <2>5
<1>4. op'[t] # NoOp
  BY <1>3, IdleOp
<1>5. /\ \A g \in Sockets \ {h} : Quiet(g)
      /\ ~BeingAdded(h)
      /\ BeingAdded(h)' <=> op'[t].step \in AddingSteps
  BY Zenon, <1>2, <1>3, <1>4, CallElsewhere
<1>6. [Next]_vars
  BY DEF Next
<1>7. UNCHANGED ContractReported
  BY Zenon, <1>2, <1>6, ReportedKept
<1>8. CASE \E token \in Tokens, interests \in InterestSets : AddEmplace(t, h, token, interests)
  <2>1. registrations_[h] = NoReg /\ op'[t].step = "add_state"
    <3>1. PICK token, interests : registrations_[h] = NoReg /\ Call(t, "add_state", h, token, interests, 0)
      BY Zenon, <1>8 DEF AddEmplace
    <3>2. PICK o : o = [step |-> "add_state", socket |-> h, token |-> token, interests |-> interests, state |-> 0]
      BY Zenon
    <3>3. o.step = "add_state"
      BY Zenon, <3>2
    <3>4. op'[t] = o
      BY Zenon, <1>0, <3>1, <3>2 DEF Call
    <3> QED
      BY Zenon, <3>1, <3>3, <3>4
  <2>2. ~Entered(h) /\ ~Entered(h)'
    BY Zenon, <1>5, <2>1 DEF Entered, AddingSteps
  <2>3. UNCHANGED <<ContractRegistered, ContractReady, ContractDue>>
    BY Zenon, <1>5, <2>2, HiddenStep
  <2> QED
    BY Zenon, <1>7, <2>3 DEF Contract!vars
<1>9. CASE RemoveErase(t, h)
  <2>1. registrations_'[h] = NoReg
    BY <1>0, <1>9 DEF RemoveErase
  <2> QED
    BY Zenon, <1>5, <1>7, <2>1, EraseContract DEF Entered
<1>10. CASE \E token \in Tokens, interests \in InterestSets : UpdateMap(t, h, token, interests)
  <2>1. PICK token \in Tokens, interests \in InterestSets : UpdateMap(t, h, token, interests)
    BY <1>10
  <2>2. registrations_[h] # NoReg /\ registrations_[h] \in Entry
    BY <1>0, <2>1 DEF UpdateMap
  <2>3. PICK e : e = [registrations_[h] EXCEPT !.token = token, !.interests = interests]
    OBVIOUS
  <2>4. e \in Entry /\ e.state = registrations_[h].state
    BY Zenon, <2>2, <2>3 DEF Entry
  <2>5. registrations_'[h] = e /\ op'[t].step = "update_set"
    BY <1>0, <2>1, <2>3 DEF UpdateMap, Call
  <2>6. Entered(h)'
    BY Zenon, <1>5, <2>4, <2>5, AfdNothingAssumption DEF Entered, AddingSteps
  <2>7. EntryState(h)' = EntryState(h)
    BY Zenon, <1>2, <2>4, <2>5 DEF EntryState
  <2>8. DueFlags(h) \cap ReadyFlags(h)' \subseteq EntryState(h)'.user_events
    BY Zenon, <2>7 DEF DueFlags
  <2> QED
    BY Zenon, <1>5, <1>7, <2>6, <2>8, EntryContract
<1> QED
  BY Zenon, <1>1, <1>8, <1>9, <1>10

\* OneStateContract as a step of the contract, when no Event comes or goes.
LEMMA OneStateStep ==
  ASSUME Promising, CallsTyped', NEW n \in Ids, NEW h \in Sockets, afd[n].socket = h,
         Changed(n), UNCHANGED <<registrations_, socketVars>>, UNCHANGED ContractReported,
         \A g \in Sockets : BeingAdded(g)' <=> BeingAdded(g),
         ~afd'[n].delete_pending /\ ~afd'[n].dropped =>
           afd[n].user_events \cap interests_to_afd_flags(registrations_[h].interests)
             \subseteq afd'[n].user_events
  PROVE  Contract!Next \/ UNCHANGED Contract!vars
<1>1. /\ UNCHANGED ContractRegistered
      /\ \/ UNCHANGED <<ContractReady, ContractDue>>
         \/ ContractRegistered[h] # NoReg /\ Contract!Follows(h)
  BY Zenon, OneStateContract DEF Promising
<1>2. CASE UNCHANGED <<ContractReady, ContractDue>>
  BY Zenon, <1>1, <1>2 DEF Contract!vars
<1>3. CASE ContractRegistered[h] # NoReg /\ Contract!Follows(h)
  <2>1. Contract!ReadinessChanges(h)
    BY Zenon, <1>1, <1>3 DEF Contract!ReadinessChanges
  <2> QED
    BY Zenon, <2>1 DEF Contract!Next
<1> QED
  BY Zenon, <1>1, <1>2, <1>3

LEMMA CallGoesOnContract ==
  ASSUME Promising, CallsTyped', NEW t \in Threads, CallGoesOn(t)
  PROVE  Contract!Next \/ UNCHANGED Contract!vars
<1>0. /\ Typed /\ Calls /\ Asked /\ registrations_ \in [Sockets -> Entry \cup {NoReg}]
      /\ op \in [Threads -> Op \cup {NoOp}] /\ afd \in Seq(AfdSocketState)
  BY Zenon DEF Promising, Typed, CallsTyped, KernelTyped
<1>1. op[t] \in Op /\ op[t] # NoOp /\ CallOK(t)
  <2>1. op[t].step # "idle"
    BY Zenon DEF CallGoesOn, AddState, AddStateFails, AddUndo, UpdateSet, CallIssues, RemoveCancel, At
  <2> QED
    BY Zenon, <1>0, <2>1, OpFacts DEF Typed, Calls
<1>2. PICK h \in Sockets : h = op[t].socket
  BY Zenon, <1>1 DEF Op
<1>3. OnlyCall(t, h) /\ UNCHANGED <<events, socketVars>>
  BY Zenon, <1>0, <1>1, <1>2 DEF OnlyCall, Calls, CallGoesOn, AddState, AddStateFails, AddUndo, UpdateSet,
     CallIssues, RemoveCancel
<1>4. UNCHANGED ContractReported
  <2>1. [Next]_vars
    BY DEF Next
  <2> QED
    BY Zenon, <1>3, <2>1, ReportedKept
<1>5. ASSUME NEW step \in Steps, op' = [op EXCEPT ![t] = [@ EXCEPT !.step = step]]
      PROVE  /\ op'[t] # NoOp /\ op'[t].socket = h /\ op'[t].step = step
             /\ \A u \in Threads \ {t} : op'[u] = op[u]
  <2>1. op'[t].step = step /\ op'[t].socket = h /\ \A u \in Threads \ {t} : op'[u] = op[u]
    BY <1>0, <1>1, <1>2, <1>5 DEF Op
  <2> QED
    BY Zenon, <2>1, IdleOp DEF Steps
<1>6. ASSUME op' = [op EXCEPT ![t] = NoOp]
      PROVE  op'[t] = NoOp /\ \A u \in Threads \ {t} : op'[u] = op[u]
  BY <1>0, <1>6
\* Until register has started its poll the socket is not registered.
<1>7. ASSUME AddState(t) \/ AddStateFails(t) \/ AddUndo(t) PROVE UNCHANGED Contract!vars
  <2>1. op[t].step \in AddingSteps
    BY <1>7 DEF AddState, AddStateFails, AddUndo, At, AddingSteps
  <2>2. \A g \in Sockets \ {h} : registrations_'[g] = registrations_[g]
    <3>1. UNCHANGED registrations_ \/ \E e : registrations_' = [registrations_ EXCEPT ![h] = e]
      BY Zenon, <1>2, <1>7 DEF AddState, AddStateFails, AddUndo
    <3> QED
      BY <1>0, <3>1
  <2>3. \A m \in Ids : afd'[m] = afd[m]
    <3>1. AddState(t) => \A m \in Ids : afd'[m] = afd[m]
      BY Zenon, <1>0, <1>1, AddStateEffect DEF Typed
    <3> QED
      BY Zenon, <1>7, <3>1 DEF AddStateFails, AddUndo
  <2>4. /\ \A u \in Threads \ {t} : op'[u] = op[u]
        /\ \/ op'[t] # NoOp /\ op'[t].socket = h /\ op'[t].step \in AddingSteps
           \/ op'[t] = NoOp /\ registrations_'[h] = NoReg
    <3>1. CASE AddState(t)
      <4>1. op' = [op EXCEPT ![t] = [@ EXCEPT !.step = "add_issue", !.state = Len(afd) + 1]]
        BY Zenon, <3>1 DEF AddState
      <4>2. op'[t].step = "add_issue" /\ op'[t].socket = h /\ \A u \in Threads \ {t} : op'[u] = op[u]
        BY <1>0, <1>1, <1>2, <4>1 DEF Op
      <4> QED
        BY Zenon, <4>2, IdleOp DEF AddingSteps
    <3>2. CASE AddStateFails(t)
      <4>1. op' = [op EXCEPT ![t] = [@ EXCEPT !.step = "add_undo"]]
        BY Zenon, <3>2 DEF AddStateFails, Goto
      <4> QED
        BY Zenon, <1>5, <4>1 DEF AddingSteps, Steps
    <3>3. CASE AddUndo(t)
      <4>1. op' = [op EXCEPT ![t] = NoOp] /\ registrations_' = [registrations_ EXCEPT ![h] = NoReg]
        BY Zenon, <1>2, <3>3 DEF AddUndo, Return
      <4>2. registrations_'[h] = NoReg
        BY <1>0, <4>1
      <4> QED
        BY Zenon, <1>6, <4>1, <4>2
    <3> QED
      BY Zenon, <1>7, <3>1, <3>2, <3>3
  <2>5. /\ \A g \in Sockets \ {h} : Quiet(g)
        /\ BeingAdded(h) <=> op[t] # NoOp /\ op[t].step \in AddingSteps
        /\ BeingAdded(h)' <=> op'[t] # NoOp /\ op'[t].step \in AddingSteps
    BY Zenon, <1>2, <1>3, <2>2, <2>3, <2>4, CallElsewhere
  <2>6. ~Entered(h) /\ ~Entered(h)'
    BY Zenon, <1>1, <2>1, <2>4, <2>5 DEF Entered
  <2>7. UNCHANGED <<ContractRegistered, ContractReady, ContractDue>>
    BY Zenon, <2>5, <2>6, HiddenStep
  <2> QED
    BY Zenon, <1>4, <2>7 DEF Contract!vars
<1>8. CASE UpdateSet(t) \/ CallIssues(t) \/ RemoveCancel(t)
  <2>1. op[t].step \in {"add_issue", "update_set", "update_issue", "remove_cancel"} /\ UNCHANGED registrations_
    BY <1>8 DEF UpdateSet, CallIssues, RemoveCancel, At
  <2>2. PICK n \in Ids : n = op[t].state /\ afd[n].socket = h
    BY Zenon, <1>0, <1>2, <2>1, CallFacts
  <2>3. ASSUME Changed(n), \A u \in Threads \ {t} : op'[u] = op[u], op'[t] # NoOp => op'[t].socket = h
        PROVE  /\ \A g \in Sockets \ {h} : Quiet(g)
               /\ BeingAdded(h) <=> op[t] # NoOp /\ op[t].step \in AddingSteps
               /\ BeingAdded(h)' <=> op'[t] # NoOp /\ op'[t].step \in AddingSteps
    <3>1. \A m \in Ids : afd[m].socket # h => afd'[m] = afd[m]
      BY Zenon, <2>2, <2>3 DEF Changed
    <3> QED
      BY Zenon, <1>2, <1>3, <2>1, <2>3, <3>1, CallElsewhere
  <2>4. CASE UpdateSet(t)
    <3>1. op[t].token \in Tokens /\ interests_to_afd_flags(op[t].interests) \in SUBSET AfdPollFlags
      BY Zenon, <1>1, FlagsType DEF Op
    <3>2. /\ Changed(n) /\ op' = [op EXCEPT ![t] = [@ EXCEPT !.step = "update_issue"]]
          /\ op[t].step = "update_set"
          /\ ~afd'[n].delete_pending => afd'[n].user_events = interests_to_afd_flags(op[t].interests)
      BY Zenon, <1>0, <2>2, <2>4, <3>1, UpdateSetEffect DEF UpdateSet, Goto, At
    <3>3. /\ op'[t] # NoOp /\ op'[t].socket = h /\ op'[t].step = "update_issue"
          /\ \A u \in Threads \ {t} : op'[u] = op[u]
      BY Zenon, <1>5, <3>2 DEF Steps
    <3>4. \A g \in Sockets : BeingAdded(g)' <=> BeingAdded(g)
      <4>1. "update_set" \notin AddingSteps /\ "update_issue" \notin AddingSteps
        BY DEF AddingSteps
      <4> QED
        BY Zenon, <2>3, <3>2, <3>3, <4>1 DEF Quiet
    <3>5. registrations_[h].interests = op[t].interests
      BY Zenon, <1>0, <1>2, <3>2 DEF Asked
    <3>6. ~afd'[n].delete_pending /\ ~afd'[n].dropped =>
            afd[n].user_events \cap interests_to_afd_flags(registrations_[h].interests)
              \subseteq afd'[n].user_events
      BY Zenon, <3>2, <3>5
    <3> QED
      BY Zenon, <1>3, <1>4, <2>1, <2>2, <3>2, <3>4, <3>6, OneStateStep
  <2>5. CASE CallIssues(t)
    <3>1. IssueOk(n) \/ IssueThrows(n)
      BY Zenon, <2>2, <2>5 DEF CallIssues
    <3>2. /\ Changed(n) /\ (~afd'[n].dropped => afd'[n].user_events = afd[n].user_events)
          /\ IssueThrows(n) => afd'[n].dropped
      BY Zenon, <1>0, <3>1, IssueKeepsEvents
    <3>3. /\ \A u \in Threads \ {t} : op'[u] = op[u]
          /\ \/ op'[t] = NoOp
             \/ op[t].step = "add_issue" /\ op'[t] # NoOp /\ op'[t].socket = h /\ op'[t].step = "add_undo"
      <4>1. \/ op' = [op EXCEPT ![t] = NoOp]
            \/ op[t].step = "add_issue" /\ op' = [op EXCEPT ![t] = [@ EXCEPT !.step = "add_undo"]]
        BY Zenon, <2>5 DEF CallIssues, Return, Goto, At
      <4> QED
        BY Zenon, <1>5, <1>6, <4>1 DEF Steps
    <3>4. /\ \A g \in Sockets \ {h} : Quiet(g)
          /\ BeingAdded(h) <=> op[t] # NoOp /\ op[t].step \in AddingSteps
          /\ BeingAdded(h)' <=> op'[t] # NoOp /\ op'[t].step \in AddingSteps
      BY Zenon, <2>3, <3>2, <3>3
    <3>5. CASE op[t].step = "add_issue" /\ op'[t] = NoOp
      <4>1. registrations_'[h] # NoReg
        BY Zenon, <1>1, <1>2, <2>1, <3>5 DEF CallOK
      <4>2. Entered(h)' /\ ~Entered(h)
        BY Zenon, <1>1, <3>4, <3>5, <4>1 DEF Entered, AddingSteps
      <4>3. DueFlags(h) = {}
        BY Zenon, <4>2 DEF DueFlags, ReadyFlags
      <4>4. DueFlags(h) \cap ReadyFlags(h)' \subseteq EntryState(h)'.user_events
        BY Zenon, <4>3
      <4> QED
        BY Zenon, <1>4, <3>4, <4>2, <4>4, EntryContract
    <3>6. CASE ~(op[t].step = "add_issue" /\ op'[t] = NoOp)
      <4>1. op[t].step \in {"add_issue", "update_issue"}
        BY Zenon, <2>5 DEF CallIssues
      <4>2. BeingAdded(h)' <=> BeingAdded(h)
        <5>1. "update_issue" \notin AddingSteps /\ "add_issue" \in AddingSteps /\ "add_undo" \in AddingSteps
          BY DEF AddingSteps
        <5>2. CASE op[t].step = "add_issue"
          BY Zenon, <1>1, <3>3, <3>4, <3>6, <5>1, <5>2
        <5>3. CASE op[t].step = "update_issue"
          BY Zenon, <3>3, <3>4, <5>1, <5>3
        <5> QED
          BY Zenon, <4>1, <5>2, <5>3
      <4>3. \A g \in Sockets : BeingAdded(g)' <=> BeingAdded(g)
        BY Zenon, <3>4, <4>2 DEF Quiet
      <4>4. ~afd'[n].delete_pending /\ ~afd'[n].dropped =>
              afd[n].user_events \cap interests_to_afd_flags(registrations_[h].interests)
                \subseteq afd'[n].user_events
        BY Zenon, <3>2
      <4> QED
        BY Zenon, <1>3, <1>4, <2>1, <2>2, <3>2, <4>3, <4>4, OneStateStep
    <3> QED
      BY Zenon, <3>5, <3>6
  <2>6. CASE RemoveCancel(t)
    <3>1. Changed(n)
      BY Zenon, <1>0, <2>2, <2>6, RemoveCancelEffect
    <3>2. op' = [op EXCEPT ![t] = NoOp] /\ op[t].step = "remove_cancel"
      BY Zenon, <2>6 DEF RemoveCancel, Return, At
    <3>3. op'[t] = NoOp /\ \A u \in Threads \ {t} : op'[u] = op[u]
      BY <1>6, <3>2
    <3>4. registrations_[h] = NoReg
      BY Zenon, <1>1, <1>2, <3>2 DEF CallOK
    <3>5. ~Entered(h) /\ ~Entered(h)'
      BY Zenon, <2>1, <3>4 DEF Entered
    <3>6. UNCHANGED <<ContractRegistered, ContractReady, ContractDue>>
      BY Zenon, <2>3, <3>1, <3>3, <3>5, HiddenStep
    <3> QED
      BY Zenon, <1>4, <3>6 DEF Contract!vars
  <2> QED
    BY <1>8, <2>4, <2>5, <2>6
<1> QED
  BY Zenon, <1>7, <1>8 DEF CallGoesOn

\* A completion that waits on the port changes nothing yet.
LEMMA KernelContract ==
  ASSUME Promising, CallsTyped', [Next]_vars, NEW f \in flight,
         KernelCompletes(f) \/ KernelCancels(f) \/ KernelFails(f)
  PROVE  Contract!Next \/ UNCHANGED Contract!vars
<1>0. Typed /\ afd \in Seq(AfdSocketState)
  BY DEF Promising, Typed, KernelTyped
<1>1. PICK n \in Ids : n = f.state
  BY <1>0 DEF Typed, KernelTyped, FlightSet
<1>2. PICK h \in Sockets : h = afd[n].socket
  BY Zenon, <1>0, StateType DEF AfdSocketState
<1>3. /\ Changed(n) /\ afd'[n].delete_pending = afd[n].delete_pending
      /\ ~afd[n].delete_pending => afd'[n].user_events = afd[n].user_events
  BY Zenon, <1>0, <1>1, FinishKeeps DEF Typed
<1>4. UNCHANGED <<registrations_, op, events, socketVars>>
  BY Zenon DEF KernelCompletes, KernelCancels, KernelFails, Finish
<1>5. UNCHANGED ContractReported
  BY Zenon, <1>4, ReportedKept
<1>6. \A g \in Sockets : BeingAdded(g)' <=> BeingAdded(g)
  BY Zenon, <1>4 DEF BeingAdded
<1>7. ~afd'[n].delete_pending /\ ~afd'[n].dropped =>
        afd[n].user_events \cap interests_to_afd_flags(registrations_[h].interests)
          \subseteq afd'[n].user_events
  BY Zenon, <1>3
<1> QED
  BY Zenon, <1>2, <1>3, <1>4, <1>5, <1>6, <1>7, OneStateStep

\* A step that touches neither calls nor states nor Events.
LEMMA RestContract ==
  ASSUME Promising, CallsTyped', UNCHANGED <<registrations_, op, afd, socketVars>>
  PROVE  UNCHANGED <<ContractRegistered, ContractReady, ContractDue>>
<1>0. Typed /\ Calls /\ CallsTyped
  BY DEF Promising, Typed
<1>1. \A g \in Sockets : Quiet(g)
  BY Zenon DEF Quiet, BeingAdded
<1>2. \A g \in Sockets :
        /\ Entered(g)' <=> Entered(g)
        /\ ReadyFlags(g)' = ReadyFlags(g) /\ DueFlags(g)' = DueFlags(g)
        /\ Entered(g) => registrations_'[g] = registrations_[g]
  BY Zenon, <1>0, <1>1, QuietFlags
<1>3. UNCHANGED ContractRegistered
  BY Zenon, <1>0, <1>2, RegisteredSame
<1>4. UNCHANGED <<ContractReady, ContractDue>>
  BY Zenon, <1>0, <1>2, ContractSame
<1> QED
  BY <1>3, <1>4

LEMMA EnvironmentContract ==
  ASSUME Promising, CallsTyped', Environment
  PROVE  Contract!Next \/ UNCHANGED Contract!vars
<1>0. /\ Typed /\ Calls /\ CallsTyped
      /\ open \in [Sockets -> BOOLEAN] /\ gen \in [Sockets -> Nat] /\ level \in [Sockets -> SUBSET AfdPollFlags]
  BY DEF Promising, Typed, OthersTyped
<1>1. [Next]_vars
  BY DEF Next
<1>2. ASSUME NEW h \in Sockets,
             \/ OpenSocket(h) \/ CloseSocket(h)
             \/ \E flag \in Conditions : Arise(h, flag) \/ Cease(h, flag)
      PROVE  Contract!Next \/ UNCHANGED Contract!vars
  <2>1. UNCHANGED <<registrations_, op, afd, events>>
    BY Zenon, <1>2 DEF OpenSocket, CloseSocket, Arise, Cease
  <2>2. \A g \in Sockets \ {h} : open'[g] = open[g] /\ gen'[g] = gen[g] /\ level'[g] = level[g]
    <3>1. /\ UNCHANGED open \/ \E x : open' = [open EXCEPT ![h] = x]
          /\ UNCHANGED gen \/ \E x : gen' = [gen EXCEPT ![h] = x]
          /\ UNCHANGED level \/ \E x : level' = [level EXCEPT ![h] = x]
      BY Zenon, <1>2 DEF OpenSocket, CloseSocket, Arise, Cease
    <3> QED
      BY <1>0, <3>1
  <2>3. \A g \in Sockets : BeingAdded(g)' <=> BeingAdded(g)
    BY Zenon, <2>1 DEF BeingAdded
  <2>4. \A g \in Sockets : Entered(g)' <=> Entered(g)
    BY Zenon, <2>1, <2>3 DEF Entered
  <2>5. \A g \in Sockets \ {h} : Quiet(g)
    BY Zenon, <2>1, <2>2, <2>3 DEF Quiet
  <2>6. UNCHANGED ContractReported
    BY Zenon, <1>1, <2>1, ReportedKept
  <2>7. CASE ~Entered(h)
    <3>1. UNCHANGED <<ContractRegistered, ContractReady, ContractDue>>
      BY Zenon, <2>4, <2>5, <2>7, HiddenStep
    <3> QED
      BY Zenon, <2>6, <3>1 DEF Contract!vars
  <2>8. CASE Entered(h)
    <3>1. EntryState(h)' = EntryState(h)
      BY Zenon, <2>1 DEF EntryState
    <3>2. DueFlags(h) \cap ReadyFlags(h)' \subseteq EntryState(h)'.user_events
      BY Zenon, <3>1 DEF DueFlags
    <3>3. \A g \in Sockets \ {h} : ReadyFlags(g)' = ReadyFlags(g) /\ DueFlags(g)' = DueFlags(g)
      BY Zenon, <1>0, <2>5, QuietFlags
    <3>4. Contract!Follows(h)
      BY Zenon, <1>0, <3>2, <3>3, ContractFollows
    <3>5. UNCHANGED ContractRegistered /\ ContractRegistered[h] # NoReg
      BY Zenon, <1>0, <2>1, <2>4, <2>8, RegisteredSame, ContractEntry
    <3>6. Contract!ReadinessChanges(h)
      BY Zenon, <2>6, <3>4, <3>5 DEF Contract!ReadinessChanges
    <3> QED
      BY Zenon, <3>6 DEF Contract!Next
  <2> QED
    BY <2>7, <2>8
<1>3. CASE (\E token \in WakerTokens : WakerNew(token)) \/ WakerDrop \/ Wake
  <2>1. UNCHANGED <<registrations_, op, afd, events, socketVars>>
    BY Zenon, <1>3 DEF WakerNew, WakerDrop, Wake
  <2> QED
    BY Zenon, <1>1, <2>1, RestContract, ReportedKept DEF Contract!vars
<1> QED
  BY Zenon, <1>1, <1>2, <1>3, KernelContract DEF Environment

\* An Event that complete_afd_operation pushes makes the reports of its flags, if
\* they are still due.
LEMMA CompleteContract ==
  ASSUME Promising, CallsTyped', CompleteAfd
  PROVE  Contract!Next \/ UNCHANGED Contract!vars
<1>0. Typed /\ Calls /\ CallsTyped /\ afd \in Seq(AfdSocketState) /\ queue \in QueueSet(Ids)
  BY DEF Promising, Typed, KernelTyped
<1>1. UNCHANGED <<registrations_, op, socketVars>> /\ [Next]_vars
  BY Zenon DEF CompleteAfd, Next, Select
<1>2. queue # <<>> /\ Head(queue).kind = "afd" /\ queue' = Tail(queue)
  BY Zenon DEF CompleteAfd, Getting
<1>3. PICK n \in Ids : n = Head(queue).state
  BY <1>0, <1>2, Taken
<1>4. PICK h \in Sockets : h = afd[n].socket
  BY <1>0, StateType DEF AfdSocketState
<1>5. /\ Changed(n)
      /\ afd'[n].delete_pending => UNCHANGED events
      /\ ~afd'[n].delete_pending =>
           /\ afd'[n].dropped = afd[n].dropped
           /\ \/ UNCHANGED events /\ afd'[n].user_events = afd[n].user_events
              \/ \E emitted \in SUBSET AfdPollFlags :
                   /\ events' = Append(events, Pushed(n, Head(queue).file, emitted))
                   /\ afd'[n].user_events = afd[n].user_events \ emitted
  BY Zenon, <1>0, <1>3, CompleteEffect
<1>6. \A g \in Sockets : BeingAdded(g)' <=> BeingAdded(g)
  BY Zenon, <1>1 DEF BeingAdded
<1>7. CASE UNCHANGED events /\ (~afd'[n].delete_pending => afd'[n].user_events = afd[n].user_events)
  <2>1. UNCHANGED ContractReported
    BY Zenon, <1>1, <1>7, ReportedKept
  <2>2. ~afd'[n].delete_pending /\ ~afd'[n].dropped =>
          afd[n].user_events \cap interests_to_afd_flags(registrations_[h].interests)
            \subseteq afd'[n].user_events
    BY Zenon, <1>7
  <2> QED
    BY Zenon, <1>1, <1>4, <1>5, <1>6, <2>1, <2>2, OneStateStep
<1>8. ASSUME NEW emitted, ~afd'[n].delete_pending, afd'[n].dropped = afd[n].dropped,
             events' = Append(events, Pushed(n, Head(queue).file, emitted)),
             afd'[n].user_events = afd[n].user_events \ emitted
      PROVE  Contract!Next
  <2>1. PICK e : e = Pushed(n, Head(queue).file, emitted)
    OBVIOUS
  <2>2. e.state = n
    BY <2>1 DEF Pushed
  <2>3. Ids' = Ids /\ events' = Append(events, e)
    BY Zenon, <1>5, <1>8, <2>1 DEF Changed
  <2>4. ContractReported' = ContractReported \cup {h}
    BY Zenon, <1>1, <1>4, <2>2, <2>3, ReportedGrows
  <2>5. ~afd[n].delete_pending /\ afd'[n].file = afd[n].file
    BY Zenon, <1>5, <1>8 DEF Changed
  <2>6. \A g \in Sockets : Entered(g)' <=> Entered(g)
    BY Zenon, <1>1, <1>6 DEF Entered
  <2>7. \A g \in Sockets \ {h} : ReadyFlags(g)' = ReadyFlags(g) /\ DueFlags(g)' = DueFlags(g)
    <3>1. \A g \in Sockets \ {h} : Quiet(g)
      BY Zenon, <1>1, <1>4, <1>5, <1>6 DEF Quiet, Changed
    <3> QED
      BY Zenon, <1>0, <3>1, QuietFlags
  <2>8. UNCHANGED ContractRegistered
    BY Zenon, <1>0, <1>1, <2>6, RegisteredSame
  <2>9. /\ ReadyFlags(h)' = ReadyFlags(h)
        /\ DueFlags(h)' = DueFlags(h) \/ DueFlags(h)' = DueFlags(h) \ emitted
    <3>1. CASE Entered(h) /\ registrations_[h].state = n
      <4>1. EntryState(h) = afd[n] /\ EntryState(h)' = afd'[n]
        BY Zenon, <1>1, <3>1 DEF EntryState
      <4>2. ReadyFlags(h)' = ReadyFlags(h)
        BY Zenon, <1>1, <1>8, <2>5, <2>6, <4>1 DEF ReadyFlags
      <4>3. DueFlags(h)' = DueFlags(h) \ emitted
        BY Zenon, <1>8, <4>1, <4>2 DEF DueFlags
      <4> QED
        BY <4>2, <4>3
    <3>2. CASE Entered(h) /\ registrations_[h].state # n
      <4>1. PICK m \in Ids \ {n} : m = registrations_[h].state
        BY Zenon, <1>0, <3>2, EnteredState DEF StateOf
      <4>2. EntryState(h)' = EntryState(h)
        BY Zenon, <1>1, <1>5, <4>1 DEF EntryState, Changed
      <4> QED
        BY Zenon, <1>1, <2>6, <4>2 DEF ReadyFlags, DueFlags
    <3>3. CASE ~Entered(h)
      <4>1. ReadyFlags(h)' = {} /\ ReadyFlags(h) = {}
        BY Zenon, <2>6, <3>3 DEF ReadyFlags
      <4> QED
        BY Zenon, <4>1 DEF DueFlags
    <3> QED
      BY <3>1, <3>2, <3>3
  <2>10. /\ ContractReady = {d \in Sockets \X Conditions : d[2] \in ReadyFlags(d[1])}
         /\ ContractDue = {d \in Sockets \X Conditions : d[2] \in DueFlags(d[1])}
    BY Zenon, <1>0, ContractSets
  <2>11. /\ ContractReady' = {d \in Sockets \X Conditions : d[2] \in ReadyFlags(d[1])'}
         /\ ContractDue' = {d \in Sockets \X Conditions : d[2] \in DueFlags(d[1])'}
    BY Zenon, ContractSetsNext
  <2>12. UNCHANGED ContractReady
    BY <2>7, <2>9, <2>10, <2>11
  <2>13. CASE UNCHANGED ContractDue
    <3>1. Contract!Late(h)
      BY Zenon, <2>4, <2>8, <2>12, <2>13 DEF Contract!Late
    <3> QED
      BY Zenon, <3>1 DEF Contract!Next
  <2>14. CASE ~UNCHANGED ContractDue
    <3>1. DueFlags(h)' = DueFlags(h) \ emitted
      BY Zenon, <2>7, <2>9, <2>10, <2>11, <2>14
    <3>2. PICK made : made = {d \in ContractDue : d[1] = h /\ d[2] \in emitted}
      BY Zenon
    <3>3. ContractDue' = ContractDue \ made
      BY Zenon, <2>7, <2>10, <2>11, <3>1, <3>2
    <3>4. made \in SUBSET (ContractDue \cap ({h} \X Conditions))
      BY <2>10, <3>2
    <3>5. PICK d \in made : TRUE
      BY Zenon, <2>14, <3>3
    <3>6. PICK flag \in Conditions : <<h, flag>> \in made
      BY <3>4, <3>5
    <3>7. Contract!Report(h, flag)
      BY Zenon, <2>4, <2>8, <2>12, <3>3, <3>4, <3>6 DEF Contract!Report, Contract!Of
    <3> QED
      BY Zenon, <3>7 DEF Contract!Next
  <2> QED
    BY <2>13, <2>14
<1> QED
  BY Zenon, <1>5, <1>7, <1>8

LEMMA SelectContract ==
  ASSUME Promising, CallsTyped', Select
  PROVE  Contract!Next \/ UNCHANGED Contract!vars
<1>0. Typed /\ Calls /\ CallsTyped /\ afd \in Seq(AfdSocketState)
  BY DEF Promising, Typed, KernelTyped
<1>1. [Next]_vars
  BY DEF Next
<1>2. CASE SelectBegin
  <2>1. UNCHANGED <<registrations_, op, afd, events, socketVars>>
    BY Zenon, <1>2 DEF SelectBegin
  <2> QED
    BY Zenon, <1>1, <2>1, RestContract, ReportedKept DEF Contract!vars
<1>3. CASE GetPacket
  <2>1. PICK e : e = [state |-> 0, token |-> Head(queue).token, file |-> 0, owner |-> 0,
                      event |-> Event({"READABLE"}, FALSE, FALSE, FALSE)]
    BY Zenon
  <2>2. e.state = 0
    BY <2>1
  <2>3. events' = Append(events, e) /\ UNCHANGED <<registrations_, op, afd, socketVars>>
    BY Zenon, <1>3, <2>1 DEF GetPacket
  <2>4. Ids' = Ids
    BY Zenon, <2>3 DEF Ids
  <2>5. UNCHANGED ContractReported
    BY Zenon, <1>1, <2>2, <2>3, <2>4, ReportedGrows
  <2> QED
    BY Zenon, <2>3, <2>5, RestContract DEF Contract!vars
<1>4. ASSUME events' = <<>> PROVE ContractReported' = {}
  BY <1>4 DEF ContractReported
<1>5. CASE SelectReturn
  <2>1. events' = <<>> /\ UNCHANGED <<registrations_, op, afd, socketVars>>
    BY Zenon, <1>5 DEF SelectReturn
  <2>2. Contract!PollEnds
    BY Zenon, <1>4, <2>1, RestContract DEF Contract!PollEnds
  <2> QED
    BY Zenon, <2>2 DEF Contract!Next
<1>6. CASE Reissue
  <2>1. PICK n \in Ids : n = current
    BY Zenon, <1>0, <1>6 DEF Reissue, Typed, Reissued
  <2>2. PICK h \in Sockets : h = afd[n].socket
    BY <1>0, StateType DEF AfdSocketState
  <2>3. /\ UNCHANGED <<registrations_, op, socketVars>>
        /\ (IssueOk(n) /\ UNCHANGED events) \/ (IssueThrows(n) /\ events' = <<>>)
    BY Zenon, <1>6, <2>1 DEF Reissue
  <2>4. Changed(n) /\ (~afd'[n].dropped => afd'[n].user_events = afd[n].user_events)
    BY Zenon, <1>0, <2>3, IssueKeepsEvents
  <2>5. \A g \in Sockets : BeingAdded(g)' <=> BeingAdded(g)
    BY Zenon, <2>3 DEF BeingAdded
  <2>6. ~afd'[n].delete_pending /\ ~afd'[n].dropped =>
          afd[n].user_events \cap interests_to_afd_flags(registrations_[h].interests)
            \subseteq afd'[n].user_events
    BY Zenon, <2>4
  <2>7. CASE UNCHANGED events
    <3>1. UNCHANGED ContractReported
      BY Zenon, <1>1, <2>7, ReportedKept
    <3> QED
      BY Zenon, <2>2, <2>3, <2>4, <2>5, <2>6, <3>1, OneStateStep
  <2>8. CASE events' = <<>>
    <3>1. /\ UNCHANGED ContractRegistered
          /\ \/ UNCHANGED <<ContractReady, ContractDue>>
             \/ ContractRegistered[h] # NoReg /\ Contract!Follows(h)
      BY Zenon, <1>0, <2>2, <2>3, <2>4, <2>5, <2>6, OneStateContract
    <3>2. Contract!PollEnds
      BY Zenon, <1>4, <2>8, <3>1 DEF Contract!PollEnds
    <3> QED
      BY Zenon, <3>2 DEF Contract!Next
  <2> QED
    BY <2>3, <2>7, <2>8
<1> QED
  BY Zenon, <1>2, <1>3, <1>5, <1>6, CompleteContract DEF Select

\* The safety part of ImplementsContract: for any number of sockets, threads and
\* states, every step of the map, the AfdSocketStates, the completion port and
\* select_iocp is a step of the atomic registry of SelectorContract, or none.
THEOREM ContractKept == Spec => Contract!Safety
<1>1. Init => Contract!Init
  <2> SUFFICES ASSUME Init PROVE Contract!Init
    OBVIOUS
  <2>1. ContractRegistered = [h \in Sockets |-> NoReg]
    BY Zenon DEF ContractRegistered, Init
  <2>2. ContractReady = {}
    BY Zenon, <2>1 DEF ContractReady
  <2>3. ContractDue = {}
    BY Zenon, <2>2 DEF ContractDue
  <2>4. ContractReported = {}
    <3>1. Ids = {}
      BY DEF Init, Ids
    <3> QED
      BY Zenon, <3>1 DEF ContractReported
  <2> QED
    BY Zenon, <2>1, <2>2, <2>3, <2>4 DEF Contract!Init
<1>2. Promising /\ Promising' /\ [Next]_vars => [Contract!Next]_(Contract!vars)
  <2> SUFFICES ASSUME Promising, Promising', [Next]_vars
               PROVE  Contract!Next \/ UNCHANGED Contract!vars
    OBVIOUS
  <2>1. CallsTyped'
    BY DEF Promising, Typed
  <2>2. CASE UNCHANGED vars
    <3>1. UNCHANGED <<registrations_, op, afd, events, socketVars>>
      BY <2>2 DEF vars
    <3> QED
      BY Zenon, <2>1, <3>1, RestContract, ReportedKept DEF Contract!vars
  <2>3. CASE \E n \in 1..MaxStates : Kernel(n)
    BY Zenon, <2>1, <2>3, KernelContract DEF Kernel
  <2> QED
    BY Zenon, <2>1, <2>2, <2>3, CallBeginsContract, CallGoesOnContract, SelectContract, EnvironmentContract DEF Next
<1> QED
  BY <1>1, <1>2, PromisingInvariant, PTL DEF Spec, Contract!Safety

\* With AFD a flag that is due is never lost: a step that takes it off what is due
\* has pushed an Event of its socket, or the readiness has gone: with the condition,
\* the socket or the registration, or because poll failed to start the next
\* operation on it.
THEOREM DueKept == Spec => Contract!NothingLost
<1> DEFINE Kept == \A d \in ContractDue \ ContractDue' :
                     d[1] \in ContractReported' \/ d \notin ContractReady'
<1>1. Contract!Next => Kept
  <2> SUFFICES ASSUME Contract!Next, NEW d \in ContractDue \ ContractDue'
               PROVE  d[1] \in ContractReported' \/ d \notin ContractReady'
    OBVIOUS
  <2>1. ASSUME NEW h \in Sockets, Contract!Follows(h) PROVE d \notin ContractReady'
    BY Zenon, <2>1 DEF Contract!Follows
  <2>2. ASSUME NEW h \in Sockets, Contract!Deregister(h) PROVE d \notin ContractReady'
    BY Zenon, <2>2 DEF Contract!Deregister
  <2>3. ASSUME NEW h \in Sockets, NEW what \in Conditions, Contract!Report(h, what)
        PROVE  d[1] \in ContractReported'
    <3>1. d \in {h} \X Conditions /\ ContractReported' = ContractReported \cup {h}
      BY Zenon, <2>3 DEF Contract!Report, Contract!Of
    <3> QED
      BY Zenon, <3>1
  <2>4. ContractDue' # ContractDue
    BY Zenon
  <2> QED
    BY Zenon, <2>1, <2>2, <2>3, <2>4
       DEF Contract!Next, Contract!Register, Contract!Reregister, Contract!Set,
           Contract!ReadinessChanges, Contract!Late, Contract!PollEnds
<1>2. [Contract!Next]_(Contract!vars) => [Kept]_(Contract!vars)
  BY Zenon, <1>1
<1> QED
  BY <1>2, ContractKept, PTL DEF Contract!Safety, Contract!NothingLost
=============================================================================
