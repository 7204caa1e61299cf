------------------------- MODULE EpollSelectorProofs -------------------------
(***************************************************************************)
(* Proofs about EpollSelector for any number of descriptors, threads and   *)
(* tokens, any capacity and any sequence of calls.                         *)
(***************************************************************************)
EXTENDS EpollSelector, TLAPS

\* to_epoll_events yields flags of epoll, never none: an entry of the interest
\* list is told from a missing one by its mask.
LEMMA MaskType ==
  ASSUME NEW interests
  PROVE  /\ to_epoll_events(interests) \in SUBSET EpollFlags
         /\ to_epoll_events(interests) # {}
  BY DEF to_epoll_events, EpollFlags, When

\* The Event built from one epoll_event has readiness that an Interest can have,
\* and proper flags.
LEMMA EpollEventType ==
  ASSUME NEW flags
  PROVE  /\ EpollEvent(flags).readiness \in SUBSET Kinds
         /\ EpollEvent(flags).error \in BOOLEAN
         /\ EpollEvent(flags).read_closed \in BOOLEAN
         /\ EpollEvent(flags).write_closed \in BOOLEAN
  BY DEF EpollEvent, Event, from_epoll_events, When, Meets, Kinds

\* An Event pushed for a raw event of a registered handle is an Event.
LEMMA PushType ==
  ASSUME TypeOK, NEW r \in raw, registrations_[r.handle] # NoReg
  PROVE  Push(r) \in PushedEvent
<1>1. r \in RawEvent /\ registrations_[r.handle] \in Registration
  BY DEF TypeOK, RawEvent
<1>2. QED
  BY <1>1, EpollEventType DEF Push, PushedEvent, Registration, RawEvent

\* Every step keeps the types.
LEMMA TypeStep == TypeOK /\ [Next]_vars => TypeOK'
<1> SUFFICES ASSUME TypeOK, [Next]_vars PROVE TypeOK'
  OBVIOUS
<1> USE DEF vars, callVars, pollVars, fileVars, epollVars
<1>0. /\ InterestSets \subseteq SUBSET Kinds
      /\ {"READABLE"} \in SUBSET Kinds
      /\ Conditions \subseteq EpollFlags
  BY InterestAssumption DEF ValidInterests, Kinds
<1>1. ASSUME NEW t \in Threads, RegistryCall(t) PROVE TypeOK'
  <2>1. ASSUME NEW h \in Handles, NEW token \in Tokens, NEW interests \in InterestSets,
               AddEmplace(t, h, token, interests)
        PROVE  TypeOK'
    BY <1>0, <2>1 DEF TypeOK, AddEmplace, Emplace, Call, Registration, Op, Steps
  <2>2. ASSUME NEW h \in Handles, NEW token \in Tokens, NEW interests \in InterestSets,
               UpdateMap(t, h, token, interests)
        PROVE  TypeOK'
    <3>1. registrations_[h] \in Registration
      BY <2>2 DEF TypeOK, UpdateMap
    <3>2. registrations_' \in [Handles -> Registration \cup {NoReg}]
      BY Zenon, <2>2, <3>1 DEF TypeOK, UpdateMap, Registration
    <3>3. QED
      BY <1>0, <2>2, <3>2 DEF TypeOK, UpdateMap, Call, Op, Steps
  <2>3. ASSUME NEW h \in Handles, RemoveErase(t, h) PROVE TypeOK'
    BY <2>3 DEF TypeOK, RemoveErase, Call, Op, Steps
  <2>4. ASSUME NEW h \in Handles, NEW token \in Tokens, WakerNew(t, h, token) PROVE TypeOK'
    <3>1. /\ open' \in [Handles -> {"closed", "source", "eventfd"}]
          /\ gen' \in [Handles -> Nat]
          /\ level' \in [Handles -> SUBSET EpollFlags]
          /\ count' \in [Handles -> 0..MaxCount]
      BY <2>4, BoundsAssumption DEF TypeOK, WakerNew, OpenFile
    <3>2. op' \in [Threads -> Op \cup {NoOp}]
      <4>1. /\ [step |-> "add_ctl", handle |-> h, interests |-> {"READABLE"}, waker |-> TRUE] \in Op
            /\ [step |-> "waker_close", handle |-> h, interests |-> {}, waker |-> TRUE] \in Op
        BY <1>0 DEF Op, Steps
      <4>2. QED
        BY Zenon, <2>4, <4>1 DEF TypeOK, WakerNew, Call
    <3>3. registrations_' \in [Handles -> Registration \cup {NoReg}]
      <4>1. [token |-> token, interests |-> {"READABLE"}, auto_drain |-> TRUE,
             file |-> gen[h] + 1] \in Registration
        BY DEF TypeOK, Registration
      <4>2. QED
        BY Zenon, <2>4, <4>1 DEF TypeOK, WakerNew, Emplace
    <3>4. QED
      BY <2>4, <3>1, <3>2, <3>3 DEF TypeOK, WakerNew
  <2>5. ASSUME NEW h \in Handles, WakerDrop(t, h) PROVE TypeOK'
    BY <2>5 DEF TypeOK, WakerDrop, Call, Op, Steps
  <2>6. QED
    BY <1>1, <2>1, <2>2, <2>3, <2>4, <2>5 DEF RegistryCall
<1>2. ASSUME NEW t \in Threads, RegistryStep(t) PROVE TypeOK'
  <2> DEFINE h == op[t].handle
             ListsOK == /\ mask' \in [Handles -> SUBSET EpollFlags]
                        /\ ready' \in SUBSET Handles
                        /\ unseen' \in SUBSET Handles
             FilesOK == /\ open' \in [Handles -> {"closed", "source", "eventfd"}]
                        /\ level' \in [Handles -> SUBSET EpollFlags]
                        /\ count' \in [Handles -> 0..MaxCount]
                        /\ woken' \in SUBSET Handles
  <2>1. op[t] \in Op
    BY <1>2 DEF TypeOK, NoOp, RegistryStep, AddCtl, AddCtlFails, AddUndo, UpdateCtl,
                RemoveCtl, WakerClose, At
  <2>2. ASSUME NEW interests, SetMask(h, to_epoll_events(interests)) PROVE ListsOK
    BY <2>1, <2>2, MaskType DEF TypeOK, SetMask, Op
  <2>3. ASSUME DropMask(h) PROVE ListsOK
    BY Zenon, <2>3 DEF TypeOK, DropMask
  <2>4. CASE AddCtl(t)
    BY <1>0, <2>2, <2>4 DEF TypeOK, AddCtl, Return
  <2>5. CASE AddCtlFails(t)
    BY <2>1, <2>5 DEF TypeOK, AddCtlFails, Op, Steps
  <2>6. CASE AddUndo(t)
    BY <1>0, <2>1, <2>6 DEF TypeOK, AddUndo, WakerThen, Op, Steps
  <2>7. CASE UpdateCtl(t)
    BY <1>0, <2>2, <2>7 DEF TypeOK, UpdateCtl, Return
  <2>8. CASE RemoveCtl(t)
    BY <1>0, <2>1, <2>3, <2>8 DEF TypeOK, RemoveCtl, WakerThen, Op, Steps
  <2>9. CASE WakerClose(t)
    <3>1. FilesOK
      <4>1. 0 \in 0..MaxCount
        BY BoundsAssumption
      <4>2. QED
        BY Zenon, <2>9, <4>1 DEF TypeOK, WakerClose, CloseFile
    <3>2. QED
      BY <1>0, <2>3, <2>9, <3>1 DEF TypeOK, WakerClose, CloseFile, Return
  <2>10. QED
    BY <1>2, <2>4, <2>5, <2>6, <2>7, <2>8, <2>9 DEF RegistryStep
<1>3. CASE Select
  <2>1. CASE SelectBegin
    BY <2>1 DEF TypeOK, SelectBegin
  <2>2. CASE EpollWait
    <3>1. PICK batch \in SUBSET Deliverable :
            /\ raw' = {RawEventOf(h) : h \in batch}
            /\ ready' = ready \ batch
      BY <2>2 DEF EpollWait
    <3>2. ASSUME NEW h \in batch PROVE RawEventOf(h) \in RawEvent
      BY <3>2 DEF TypeOK, Deliverable, RawEventOf, RawEvent
    <3>3. QED
      BY Zenon, <2>2, <3>1, <3>2 DEF TypeOK, EpollWait
  <2>3. CASE EpollWaitEmpty
    BY <2>3 DEF TypeOK, EpollWaitEmpty
  <2>4. CASE Drain
    <3>1. 0 \in 0..MaxCount
      BY BoundsAssumption
    <3>2. count' \in [Handles -> 0..MaxCount]
      BY Zenon, <2>4, <3>1 DEF TypeOK, Drain
    <3>3. level' \in [Handles -> SUBSET EpollFlags]
      BY Zenon, <2>4 DEF TypeOK, Drain
    <3>4. QED
      BY <2>4, <3>2, <3>3 DEF TypeOK, Drain
  <2>5. CASE SelectReturn
    BY <2>5 DEF TypeOK, SelectReturn
  <2>6. ASSUME NEW r \in raw, Dispatch(r) PROVE TypeOK'
    <3>1. Push(r) \in PushedEvent
      BY <2>6, PushType DEF Dispatch
    <3>2. r.handle \in Handles
      BY DEF TypeOK, RawEvent
    <3>3. QED
      BY <2>6, <3>1, <3>2 DEF TypeOK, Dispatch
  <2>7. ASSUME NEW r \in raw, DispatchUnknown(r) PROVE TypeOK'
    BY <2>7 DEF TypeOK, DispatchUnknown
  <2>8. QED
    BY <1>3, <2>1, <2>2, <2>3, <2>4, <2>5, <2>6, <2>7 DEF Select
<1>4. CASE Environment
  <2>1. ASSUME NEW h \in Handles, OpenSource(h) PROVE TypeOK'
    BY <2>1, BoundsAssumption DEF TypeOK, OpenSource, OpenFile
  <2>2. ASSUME NEW h \in Handles, CloseSource(h) PROVE TypeOK'
    BY <2>2, BoundsAssumption DEF TypeOK, CloseSource, CloseFile, DropMask
  <2>3. ASSUME NEW h \in Handles, Wake(h) PROVE TypeOK'
    BY <2>3, BoundsAssumption DEF TypeOK, Wake, Edge
  <2>4. ASSUME NEW h \in Handles, NEW flag \in Conditions, Arise(h, flag) PROVE TypeOK'
    BY <1>0, <2>4 DEF TypeOK, Arise, Edge
  <2>5. ASSUME NEW h \in Handles, NEW flag \in Conditions, Cease(h, flag) PROVE TypeOK'
    BY <2>5 DEF TypeOK, Cease
  <2>6. QED
    BY <1>4, <2>1, <2>2, <2>3, <2>4, <2>5 DEF Environment
<1>5. CASE UNCHANGED vars
  BY <1>5 DEF TypeOK
<1>6. QED
  BY <1>1, <1>2, <1>3, <1>4, <1>5 DEF Next

\* TypeOK for every step of the map, the kernel and the polling thread.
THEOREM TypeCorrect == Spec => []TypeOK
<1>1. Init => TypeOK
  BY BoundsAssumption DEF Init, TypeOK
<1>2. QED
  BY <1>1, TypeStep, PTL DEF Spec

------------------------------------------------------------------------------
\* CallsInv says something about each handle on its own; a step changes the state
\* of at most one handle, but for epoll_wait and the steps of the polling thread.
HandleInv(h) ==
  LET reg == registrations_[h]
  IN /\ \A t \in Threads : op[t].handle = h => Phase(t, h)
     /\ mask[h] # {} => open[h] # "closed"
     /\ h \in unseen => mask[h] # {}
     /\ reg # NoReg => reg.file <= gen[h]
     /\ mask[h] # {} /\ ~InFlight(h) =>
          reg # NoReg /\ reg.file = gen[h] /\ mask[h] = to_epoll_events(reg.interests)
     /\ reg # NoReg /\ reg.file = gen[h] /\ open[h] # "closed" /\ ~InFlight(h) =>
          mask[h] = to_epoll_events(reg.interests)
     /\ h \in unseen => \/ h \in ready
                        \/ \E r \in raw : r.handle = h
                        \/ \E t \in Threads : op[t].handle = h /\ At(t, "remove_ctl")

RawInv == ppc \in {"idle", "wait"} => raw = {}

LEMMA CallsInvByHandle ==
  TypeOK => (CallsInv <=> RawInv /\ \A h \in Handles : HandleInv(h))
<1> SUFFICES ASSUME TypeOK PROVE CallsInv <=> RawInv /\ \A h \in Handles : HandleInv(h)
  OBVIOUS
<1>0. unseen \subseteq Handles
  BY DEF TypeOK
<1>1. ASSUME CallsInv PROVE RawInv /\ \A h \in Handles : HandleInv(h)
  BY <1>1 DEF CallsInv, CallPhases, KernelLists, NoOrphanEntry, RegistrationsArmed,
              NoLostEdge, HandleInv, RawInv
<1>2. ASSUME RawInv, \A h \in Handles : HandleInv(h) PROVE CallsInv
  BY <1>0, <1>2 DEF CallsInv, CallPhases, KernelLists, NoOrphanEntry, RegistrationsArmed,
                    NoLostEdge, HandleInv, RawInv
<1>3. QED
  BY <1>1, <1>2

\* Single facts out of CallsInv.
LEMMA FileKnown ==
  ASSUME CallsInv, NEW h \in Handles, registrations_[h] # NoReg
  PROVE  /\ registrations_[h] \in Registration
         /\ registrations_[h].file \in Nat /\ gen[h] \in Nat
         /\ registrations_[h].file <= gen[h]
<1>1. registrations_[h] \in Registration /\ gen[h] \in Nat
  BY DEF CallsInv, TypeOK
<1>2. registrations_[h].file <= gen[h]
  BY DEF CallsInv, KernelLists
<1>3. QED
  BY <1>1, <1>2 DEF Registration

LEMMA WatchedOpen ==
  ASSUME CallsInv, NEW h \in Handles
  PROVE  (mask[h] # {} => open[h] # "closed") /\ (h \in unseen => mask[h] # {})
  BY Zenon DEF CallsInv, KernelLists

LEMMA CallPhase ==
  ASSUME CallsInv, NEW h \in Handles, NEW t \in Threads, op[t].handle = h
  PROVE  /\ op[t] \in Op /\ op[t].step \in Steps
         /\ \A u \in Threads : op[u].handle = h => u = t
         /\ EntryAt(op[t].step, op[t].interests, h)
<1>1. op[t] \in Op
  BY NoHandleAssumption DEF CallsInv, TypeOK, NoOp
<1>2. Phase(t, h)
  BY DEF CallsInv, CallPhases
<1>3. QED
  BY Zenon, <1>1, <1>2 DEF Op, Phase

\* What a step of the calls and of the kernel leaves alone when it is about g.
FilesKept(g) ==
  /\ raw' = raw /\ ppc' = ppc
  /\ \A h \in Handles \ {g} :
       /\ registrations_'[h] = registrations_[h]
       /\ mask'[h] = mask[h] /\ open'[h] = open[h] /\ gen'[h] = gen[h]
       /\ h \in ready' <=> h \in ready
       /\ h \in unseen' <=> h \in unseen

OthersKept(g) ==
  /\ FilesKept(g)
  /\ \A t \in Threads :
       \/ op'[t] = op[t]
       \/ op[t].handle \in {g, NoHandle} /\ op'[t].handle \in {g, NoHandle}

\* Such a step has to be examined at g only.
LEMMA LocalStep ==
  ASSUME CallsInv, TypeOK', NEW g \in Handles, OthersKept(g), HandleInv(g)'
  PROVE  CallsInv'
<1>1. TypeOK /\ RawInv /\ \A h \in Handles : HandleInv(h)
  BY Zenon, CallsInvByHandle DEF CallsInv
<1>2. ASSUME NEW h \in Handles \ {g} PROVE HandleInv(h)'
  <2>1. \A t \in Threads : op'[t].handle = h => op'[t] = op[t]
    BY NoHandleAssumption DEF OthersKept
  <2>2. \A t \in Threads : op[t].handle = h => op'[t] = op[t]
    BY Zenon, NoHandleAssumption DEF OthersKept
  <2>3. \A t \in Threads : op'[t].handle = h => Phase(t, h)'
    BY SMTT(20), <1>1, <2>1, <2>2 DEF HandleInv, Phase, EntryAt, OthersKept, FilesKept
  <2>4. InFlight(h)' <=> InFlight(h)
    BY Zenon, <2>1, <2>2 DEF InFlight
  <2>5. QED
    BY SMTT(20), <1>1, <2>1, <2>2, <2>3, <2>4 DEF HandleInv, OthersKept, FilesKept, At
<1>3. RawInv'
  BY Zenon, <1>1 DEF RawInv, OthersKept, FilesKept
<1>4. (TypeOK => (CallsInv <=> RawInv /\ \A h \in Handles : HandleInv(h)))'
  BY CallsInvByHandle, PTL
<1>5. \A h \in Handles : HandleInv(h)'
  BY <1>2
<1>6. QED
  BY <1>3, <1>4, <1>5

LEMMA RestingOp == NoOp.handle = NoHandle /\ NoOp.waker = FALSE /\ NoOp.step = "idle" /\ NoHandle \notin Handles
  BY SMTT(20), NoHandleAssumption DEF NoOp

\* A critical section that starts a call on h has to leave the entry of h the way
\* the rest of the call expects it.
LEMMA StartCall ==
  ASSUME "exclusive" \in Discipline, CallsInv, TypeOK',
         NEW t \in Threads, NEW h \in Handles, NEW step, NEW interests, NEW waker,
         MayCall(t, h), Call(t, step, h, interests, waker),
         UNCHANGED <<pollVars, epollVars, unseen>>,
         \A g \in Handles \ {h} : /\ registrations_'[g] = registrations_[g]
                                  /\ open'[g] = open[g] /\ gen'[g] = gen[g],
         EntryAt(step, interests, h)',
         (registrations_[h] # NoReg => registrations_[h].file <= gen[h])'
  PROVE  CallsInv'
<1>0. TypeOK /\ HandleInv(h)
  BY CallsInvByHandle DEF CallsInv
<1>1. op[t] = NoOp /\ \A u \in Threads : op[u].handle # h
  BY Zenon DEF MayCall, Keeps, InFlight
<1>2. /\ op'[t] = [step |-> step, handle |-> h, interests |-> interests, waker |-> waker]
      /\ \A u \in Threads \ {t} : op'[u] = op[u]
  BY Zenon, <1>0 DEF Call, TypeOK
<1>7. /\ op'[t].step = step /\ op'[t].handle = h /\ op'[t].interests = interests
      /\ op[t].handle = NoHandle
  <2>1. PICK o : o = op'[t]
    BY Zenon
  <2>2. o = [step |-> step, handle |-> h, interests |-> interests, waker |-> waker]
    BY Zenon, <1>2, <2>1
  <2>3. o.step = step /\ o.handle = h /\ o.interests = interests
    BY Zenon, <2>2
  <2> QED
    BY Zenon, <2>1, <2>3, <1>1, RestingOp
<1>3. OthersKept(h)
  <2>1. FilesKept(h)
    BY Zenon DEF FilesKept, pollVars, epollVars
  <2> QED
    BY Zenon, <1>2, <1>7, <2>1 DEF OthersKept
<1>4. Phase(t, h)'
  BY Zenon, <1>1, <1>2, <1>7 DEF Phase
<1>5. InFlight(h)'
  BY Zenon, <1>7 DEF InFlight
<1>6. \A u \in Threads : op'[u].handle = h => Phase(u, h)'
  BY Zenon, <1>1, <1>2, <1>4
<1>8. HandleInv(h)'
  BY Zenon, <1>0, <1>1, <1>4, <1>5, <1>6 DEF HandleInv, Phase, EntryAt, pollVars, epollVars
<1> QED
  BY SMTT(20), <1>3, <1>8, LocalStep

\* The critical sections that start a call.
LEMMA CallStep ==
  ASSUME "exclusive" \in Discipline, CallsInv, TypeOK', NEW t \in Threads, RegistryCall(t)
  PROVE  CallsInv'
<1> USE DEF fileVars
<1>0. TypeOK /\ \A h \in Handles : HandleInv(h)
  BY CallsInvByHandle DEF CallsInv
<1>1. ASSUME NEW h \in Handles, NEW token \in Tokens, NEW interests \in InterestSets,
             AddEmplace(t, h, token, interests)
      PROVE  CallsInv'
  <2>1. MayCall(t, h) /\ open[h] = "source" /\ mask[h] = {}
    BY Zenon, <1>0, <1>1 DEF AddEmplace, MayCallOn, MayCall, Keeps, HandleInv
  <2>2. /\ registrations_'[h] = [token |-> token, interests |-> interests,
                                 auto_drain |-> FALSE, file |-> gen[h]]
        /\ registrations_'[h] # NoReg
        /\ \A g \in Handles \ {h} : registrations_'[g] = registrations_[g]
        /\ gen[h] \in Nat
    <3>1. gen[h] \in Nat
      BY Zenon, <1>0 DEF TypeOK
    <3>2. [token |-> token, interests |-> interests,
           auto_drain |-> FALSE, file |-> gen[h]] \in Registration
      BY <3>1 DEF Registration
    <3>3. QED
      BY Zenon, <1>0, <1>1, <3>1, <3>2, NoRegAssumption DEF AddEmplace, Emplace, TypeOK
  <2>3. /\ UNCHANGED <<pollVars, epollVars, unseen, open, gen>>
        /\ Call(t, "add_ctl", h, interests, FALSE)
    BY Zenon, <1>1 DEF AddEmplace
  <2>7. registrations_'[h].interests = interests /\ registrations_'[h].file = gen[h]
    <3>1. PICK o : o = registrations_'[h]
      BY Zenon
    <3>2. o = [token |-> token, interests |-> interests, auto_drain |-> FALSE, file |-> gen[h]]
      BY Zenon, <2>2, <3>1
    <3>3. o.interests = interests /\ o.file = gen[h]
      BY Zenon, <3>2
    <3> QED
      BY Zenon, <3>1, <3>3
  <2>4. EntryAt("add_ctl", interests, h)'
    BY Zenon, <2>1, <2>2, <2>3, <2>7 DEF EntryAt, epollVars
  <2>5. (registrations_[h] # NoReg => registrations_[h].file <= gen[h])'
    <3>1. gen'[h] = gen[h] /\ gen[h] <= gen[h]
      BY <2>2, <2>3
    <3> QED
      BY Zenon, <2>7, <3>1
  <2>6. QED
    BY Zenon, <2>1, <2>2, <2>3, <2>4, <2>5, StartCall
<1>2. ASSUME NEW h \in Handles, NEW token \in Tokens, NEW interests \in InterestSets,
             UpdateMap(t, h, token, interests)
      PROVE  CallsInv'
  <2>1. MayCall(t, h) /\ open[h] = "source" /\ ~InFlight(h) /\ registrations_[h] # NoReg
    BY <1>2 DEF UpdateMap, MayCallOn, MayCall, Keeps
  <2>2. /\ registrations_'[h].file = registrations_[h].file
        /\ registrations_'[h].interests = interests
        /\ registrations_'[h] # NoReg
        /\ \A g \in Handles \ {h} : registrations_'[g] = registrations_[g]
    <3>1. registrations_[h] \in Registration
      BY <1>0, <2>1 DEF TypeOK
    <3>2. [registrations_[h] EXCEPT !.token = token, !.interests = interests]
            \in Registration
      BY Zenon, <3>1 DEF Registration
    <3>3. /\ registrations_'[h] =
               [registrations_[h] EXCEPT !.token = token, !.interests = interests]
          /\ \A g \in Handles \ {h} : registrations_'[g] = registrations_[g]
      BY <1>0, <1>2 DEF UpdateMap, TypeOK
    <3>4. QED
      BY Zenon, <3>1, <3>2, <3>3, NoRegAssumption DEF Registration
  <2>3. /\ UNCHANGED <<pollVars, epollVars, unseen, open, gen>>
        /\ Call(t, "update_ctl", h, interests, FALSE)
    BY Zenon, <1>2 DEF UpdateMap
  <2>4. mask[h] # {} <=> registrations_[h].file = gen[h]
    BY <1>0, <2>1, MaskType DEF HandleInv
  <2>5. EntryAt("update_ctl", interests, h)'
    BY Zenon, <2>1, <2>2, <2>3, <2>4 DEF EntryAt, epollVars
  <2>6. (registrations_[h] # NoReg => registrations_[h].file <= gen[h])'
    BY Zenon, <1>0, <2>1, <2>2, <2>3 DEF HandleInv
  <2>7. QED
    BY Zenon, <2>1, <2>2, <2>3, <2>5, <2>6, StartCall
<1>3. ASSUME NEW h \in Handles, RemoveErase(t, h) PROVE CallsInv'
  <2>1. MayCall(t, h) /\ open[h] = "source"
    BY <1>3 DEF RemoveErase, MayCallOn, Keeps
  <2>2. /\ registrations_'[h] = NoReg
        /\ \A g \in Handles \ {h} : registrations_'[g] = registrations_[g]
    BY <1>0, <1>3 DEF RemoveErase, TypeOK
  <2>3. /\ UNCHANGED <<pollVars, epollVars, unseen, open, gen>>
        /\ Call(t, "remove_ctl", h, {}, FALSE)
    BY Zenon, <1>3 DEF RemoveErase
  <2>4. EntryAt("remove_ctl", {}, h)'
    BY Zenon, <2>1, <2>2, <2>3 DEF EntryAt
  <2>5. QED
    BY Zenon, <2>1, <2>2, <2>3, <2>4, StartCall
<1>4. ASSUME NEW h \in Handles, NEW token \in Tokens, WakerNew(t, h, token) PROVE CallsInv'
  <2>1. MayCall(t, h) /\ mask[h] = {}
    BY Zenon, <1>0, <1>4 DEF WakerNew, OpenFile, HandleInv
  <2>2. /\ UNCHANGED <<pollVars, epollVars, unseen>>
        /\ open'[h] = "eventfd" /\ gen'[h] = gen[h] + 1 /\ gen[h] \in Nat
        /\ \A g \in Handles \ {h} : open'[g] = open[g] /\ gen'[g] = gen[g]
    BY <1>0, <1>4 DEF WakerNew, OpenFile, TypeOK
  <2>3. CASE registrations_[h] = NoReg
    <3>1. /\ registrations_' = [registrations_ EXCEPT ![h] =
                [token |-> token, interests |-> {"READABLE"}, auto_drain |-> TRUE,
                 file |-> gen[h] + 1]]
          /\ Call(t, "add_ctl", h, {"READABLE"}, TRUE)
      BY Zenon, <1>4, <2>3 DEF WakerNew, Emplace
    <3>2. [token |-> token, interests |-> {"READABLE"}, auto_drain |-> TRUE,
           file |-> gen[h] + 1] \in Registration
      BY <2>2 DEF Registration
    <3>3. /\ registrations_'[h] = [token |-> token, interests |-> {"READABLE"},
                                   auto_drain |-> TRUE, file |-> gen[h] + 1]
          /\ registrations_'[h] # NoReg
          /\ \A g \in Handles \ {h} : registrations_'[g] = registrations_[g]
      BY Zenon, <1>0, <3>1, <3>2, NoRegAssumption DEF TypeOK
    <3>4. EntryAt("add_ctl", {"READABLE"}, h)'
      BY <2>1, <2>2, <3>3 DEF EntryAt, epollVars
    <3>5. (registrations_[h] # NoReg => registrations_[h].file <= gen[h])'
      BY <2>2, <3>3
    <3>6. QED
      BY Zenon, <2>1, <2>2, <3>1, <3>3, <3>4, <3>5, StartCall
  <2>4. CASE registrations_[h] # NoReg
    <3>1. /\ UNCHANGED registrations_
          /\ Call(t, "waker_close", h, {}, TRUE)
      BY Zenon, <1>4, <2>4 DEF WakerNew
    <3>2. registrations_[h].file \in Nat /\ registrations_[h].file <= gen[h]
      BY <2>4, FileKnown
    <3>3. registrations_[h].file # gen[h] + 1
      BY <2>2, <3>2
    <3>4. EntryAt("waker_close", {}, h)'
      BY Zenon, <2>1, <2>2, <3>1, <3>3 DEF EntryAt, epollVars
    <3>5. (registrations_[h] # NoReg => registrations_[h].file <= gen[h])'
      BY <2>2, <3>1, <3>2
    <3>6. QED
      BY Zenon, <2>1, <2>2, <3>1, <3>4, <3>5, StartCall
  <2>5. QED
    BY Zenon, <2>3, <2>4
<1>5. ASSUME NEW h \in Handles, WakerDrop(t, h) PROVE CallsInv'
  <2>1. MayCall(t, h) /\ open[h] = "eventfd" /\ ~InFlight(h)
    BY <1>5 DEF WakerDrop, WakerAlive, MayCall, Keeps
  <2>2. /\ registrations_'[h] = NoReg
        /\ \A g \in Handles \ {h} : registrations_'[g] = registrations_[g]
        /\ UNCHANGED <<pollVars, epollVars, unseen, open, gen>>
    BY <1>0, <1>5 DEF WakerDrop, TypeOK
  <2>3. CASE registrations_[h] # NoReg
    <3>1. Call(t, "remove_ctl", h, {}, TRUE)
      BY Zenon, <1>5, <2>3 DEF WakerDrop
    <3>2. EntryAt("remove_ctl", {}, h)'
      BY <2>1, <2>2 DEF EntryAt
    <3>3. QED
      BY Zenon, <2>1, <2>2, <3>1, <3>2, StartCall
  <2>4. CASE registrations_[h] = NoReg
    <3>1. Call(t, "waker_close", h, {}, TRUE)
      BY Zenon, <1>5, <2>4 DEF WakerDrop
    <3>2. mask[h] = {}
      BY Zenon, <1>0, <2>1, <2>4 DEF HandleInv
    <3>3. EntryAt("waker_close", {}, h)'
      BY Zenon, <2>1, <2>2, <3>2 DEF EntryAt, epollVars
    <3>4. QED
      BY Zenon, <2>1, <2>2, <3>1, <3>3, StartCall
  <2>5. QED
    BY <2>3, <2>4
<1>6. QED
  BY <1>1, <1>2, <1>3, <1>4, <1>5 DEF RegistryCall

\* The entry of a handle that no call is working on.
Settled(h) ==
  LET reg == registrations_[h]
      armed == reg # NoReg /\ reg.file = gen[h] /\ open[h] # "closed"
  IN /\ mask[h] # {} => armed
     /\ armed => mask[h] = to_epoll_events(reg.interests)
     /\ reg # NoReg => reg.file <= gen[h]
     /\ h \in unseen => mask[h] # {} /\ (h \in ready \/ \E r \in raw : r.handle = h)

\* A call has to leave a settled entry behind.
LEMMA ReturnCall ==
  ASSUME CallsInv, TypeOK', NEW t \in Threads, NEW h \in Handles, op[t].handle = h,
         op' = [op EXCEPT ![t] = NoOp], FilesKept(h), Settled(h)'
  PROVE  CallsInv'
<1>0. TypeOK /\ HandleInv(h)
  BY Zenon, CallsInvByHandle DEF CallsInv
<1>1. \A u \in Threads : op[u].handle = h => u = t
  BY Zenon, <1>0 DEF HandleInv, Phase
<1>2. op'[t] = NoOp /\ \A u \in Threads \ {t} : op'[u] = op[u]
  BY Zenon, <1>0 DEF TypeOK
<1>3. \A u \in Threads : op'[u].handle # h
  BY <1>1, <1>2, NoHandleAssumption DEF NoOp
<1>4. OthersKept(h)
  BY <1>1, <1>2 DEF OthersKept, NoOp
<1>5. HandleInv(h)'
  BY Zenon, <1>3 DEF HandleInv, Settled, InFlight
<1>6. QED
  BY <1>4, <1>5, LocalStep

\* A call that goes on has to leave the entry the way its next step expects it.
LEMMA ContinueCall ==
  ASSUME CallsInv, TypeOK', NEW t \in Threads, NEW h \in Handles, NEW step, NEW interests,
         op[t] \in Op, op[t].handle = h, op[t].interests = interests,
         op' = [op EXCEPT ![t].step = step], FilesKept(h),
         EntryAt(step, interests, h)', step # "remove_ctl",
         (registrations_[h] # NoReg => registrations_[h].file <= gen[h])',
         (h \notin unseen)', (mask[h] = {})'
  PROVE  CallsInv'
<1>0. TypeOK /\ HandleInv(h)
  BY CallsInvByHandle DEF CallsInv
<1>1. \A u \in Threads : op[u].handle = h => u = t
  BY <1>0 DEF HandleInv, Phase
<1>2. /\ op'[t].step = step /\ op'[t].handle = h /\ op'[t].interests = interests
      /\ \A u \in Threads \ {t} : op'[u] = op[u]
  BY <1>0 DEF TypeOK, Op
<1>3. OthersKept(h)
  BY <1>1, <1>2 DEF OthersKept
<1>4. \A u \in Threads : op'[u].handle = h => Phase(u, h)'
  BY <1>1, <1>2 DEF Phase
<1>5. InFlight(h)'
  BY <1>2 DEF InFlight
<1>6. HandleInv(h)'
  BY <1>4, <1>5 DEF HandleInv
<1>7. QED
  BY <1>3, <1>6, LocalStep

\* The epoll_ctl calls, the rollback of add and the close of a Waker's eventfd.
LEMMA FinishStep ==
  ASSUME CallsInv, TypeOK', NEW t \in Threads, RegistryStep(t)
  PROVE  CallsInv'
<1> USE DEF pollVars, fileVars, epollVars, callVars
<1>0. TypeOK /\ \A g \in Handles : HandleInv(g)
  BY CallsInvByHandle DEF CallsInv
<1>1. op[t] \in Op
  BY <1>0 DEF TypeOK, Op, NoOp, RegistryStep, AddCtl, AddCtlFails, AddUndo, UpdateCtl,
              RemoveCtl, WakerClose, At
<1>2. PICK h \in Handles, interests \in SUBSET Kinds :
        op[t].handle = h /\ op[t].interests = interests
  BY <1>1 DEF Op
<1>3. /\ HandleInv(h) /\ Phase(t, h) /\ EntryAt(op[t].step, interests, h)
  <2>1. HandleInv(h)
    BY <1>0
  <2>2. EntryAt(op[t].step, op[t].interests, h) /\ \A u \in Threads : op[u].handle = h => u = t
    BY <1>2, CallPhase
  <2>3. QED
    BY <1>2, <2>1, <2>2 DEF Phase
<1>4. ASSUME NEW step, WakerThen(t, step)
      PROVE  op' = [op EXCEPT ![t] = NoOp] \/ op' = [op EXCEPT ![t].step = step]
  BY Zenon, <1>0, <1>4 DEF WakerThen, TypeOK
<1>5. CASE AddCtl(t)
  <2>1. /\ op' = [op EXCEPT ![t] = NoOp] /\ op[t].step = "add_ctl"
        /\ UNCHANGED <<registrations_, raw, ppc, open, gen>>
        /\ SetMask(h, to_epoll_events(interests))
    BY <1>2, <1>5 DEF AddCtl, Return, At
  <2>2. mask'[h] = to_epoll_events(interests) /\ mask'[h] # {}
    BY <1>0, <2>1, MaskType DEF SetMask, TypeOK
  <2>3. FilesKept(h)
    BY <1>0, <2>1 DEF FilesKept, SetMask, TypeOK
  <2>4. h \in unseen' => h \in ready'
    BY Zenon, <1>3, <2>1 DEF SetMask, HandleInv, EntryAt
  <2>5. Settled(h)'
    BY Zenon, <1>3, <2>1, <2>2, <2>4 DEF Settled, HandleInv, EntryAt
  <2>6. QED
    BY Zenon, <1>2, <2>1, <2>3, <2>5, ReturnCall
<1>6. CASE AddCtlFails(t)
  <2>1. /\ op' = [op EXCEPT ![t].step = "add_undo"] /\ op[t].step = "add_ctl"
        /\ UNCHANGED <<registrations_, raw, ppc, open, gen, mask, ready, unseen>>
    BY <1>6 DEF AddCtlFails, At
  <2>2. FilesKept(h)
    BY <2>1 DEF FilesKept
  <2>3. EntryAt("add_undo", interests, h)'
    BY <1>3, <2>1 DEF EntryAt
  <2>4. /\ (registrations_[h] # NoReg => registrations_[h].file <= gen[h])'
        /\ (h \notin unseen)' /\ (mask[h] = {})'
    BY <1>3, <2>1 DEF HandleInv, EntryAt
  <2>5. QED
    BY Zenon, <1>1, <1>2, <2>1, <2>2, <2>3, <2>4, ContinueCall
<1>7. CASE AddUndo(t)
  <2>1. /\ WakerThen(t, "waker_close") /\ op[t].step = "add_undo"
        /\ UNCHANGED <<raw, ppc, open, gen, mask, ready, unseen>>
        /\ registrations_'[h] = NoReg
        /\ \A g \in Handles \ {h} : registrations_'[g] = registrations_[g]
    BY Zenon, <1>0, <1>2, <1>7 DEF AddUndo, At, TypeOK
  <2>2. FilesKept(h) /\ mask'[h] = {} /\ h \notin unseen'
    BY Zenon, <1>3, <2>1 DEF FilesKept, EntryAt, HandleInv
  <2>3. Settled(h)' /\ EntryAt("waker_close", interests, h)'
    BY Zenon, <1>3, <2>1, <2>2 DEF Settled, EntryAt
  <2>4. QED
    BY Zenon, <1>1, <1>2, <1>4, <2>1, <2>2, <2>3, ReturnCall, ContinueCall
<1>8. CASE UpdateCtl(t)
  <2>1. /\ op' = [op EXCEPT ![t] = NoOp] /\ op[t].step = "update_ctl"
        /\ UNCHANGED <<registrations_, raw, ppc, open, gen>>
    BY Zenon, <1>8 DEF UpdateCtl, Return, At
  <2>2. CASE mask[h] # {}
    <3>1. SetMask(h, to_epoll_events(interests))
      BY Zenon, <1>2, <1>8, <2>2 DEF UpdateCtl
    <3>2. mask'[h] = to_epoll_events(interests) /\ mask'[h] # {}
      BY <1>0, <3>1, MaskType DEF SetMask, TypeOK
    <3>3. FilesKept(h)
      BY Zenon, <1>0, <2>1, <3>1 DEF FilesKept, SetMask, TypeOK
    <3>4. h \in unseen' => h \in ready' \/ \E r \in raw : r.handle = h
      BY Zenon, <1>3, <2>1, <3>1 DEF SetMask, HandleInv, Phase, At
    <3>5. Settled(h)'
      BY Zenon, <1>3, <2>1, <2>2, <3>2, <3>4 DEF Settled, HandleInv, EntryAt
    <3>6. QED
      BY Zenon, <1>2, <2>1, <3>3, <3>5, ReturnCall
  <2>3. CASE mask[h] = {}
    <3>1. UNCHANGED <<mask, ready, unseen>>
      BY Zenon, <1>2, <1>8, <2>3 DEF UpdateCtl
    <3>2. FilesKept(h)
      BY Zenon, <2>1, <3>1 DEF FilesKept
    <3>3. Settled(h)'
      BY Zenon, <1>3, <2>1, <2>3, <3>1 DEF Settled, HandleInv, EntryAt
    <3>4. QED
      BY Zenon, <1>2, <2>1, <3>2, <3>3, ReturnCall
  <2>4. QED
    BY <2>2, <2>3
<1>9. CASE RemoveCtl(t)
  <2>1. /\ WakerThen(t, "waker_close") /\ op[t].step = "remove_ctl" /\ DropMask(h)
        /\ UNCHANGED <<registrations_, raw, ppc, open, gen>>
    BY Zenon, <1>2, <1>9 DEF RemoveCtl, At
  <2>2. FilesKept(h) /\ mask'[h] = {} /\ h \notin unseen'
    BY <1>0, <2>1 DEF FilesKept, DropMask, TypeOK
  <2>3. Settled(h)' /\ EntryAt("waker_close", interests, h)'
    BY Zenon, <1>3, <2>1, <2>2 DEF Settled, EntryAt
  <2>4. (registrations_[h] # NoReg => registrations_[h].file <= gen[h])'
    BY Zenon, <2>3 DEF Settled
  <2>5. QED
    BY Zenon, <1>1, <1>2, <1>4, <2>1, <2>2, <2>3, <2>4, ReturnCall, ContinueCall
<1>10. CASE WakerClose(t)
  <2>1. /\ op' = [op EXCEPT ![t] = NoOp] /\ CloseFile(h)
        /\ UNCHANGED <<registrations_, raw, ppc, gen>>
    BY Zenon, <1>2, <1>10 DEF WakerClose, CloseFile, Return
  <2>2. FilesKept(h) /\ mask'[h] = {} /\ h \notin unseen' /\ open'[h] = "closed"
    BY <1>0, <2>1 DEF FilesKept, CloseFile, DropMask, TypeOK
  <2>3. Settled(h)'
    BY Zenon, <1>3, <2>1, <2>2 DEF Settled, HandleInv
  <2>4. QED
    BY Zenon, <1>2, <2>1, <2>2, <2>3, ReturnCall
<1>11. QED
  BY <1>5, <1>6, <1>7, <1>8, <1>9, <1>10 DEF RegistryStep

\* Nothing the polling thread does touches the map or the interest list.
LEMMA SelectStep ==
  ASSUME CallsInv, TypeOK', Select
  PROVE  CallsInv'
<1> USE DEF pollVars, fileVars, epollVars, callVars
<1>0. TypeOK /\ RawInv /\ \A h \in Handles : HandleInv(h)
  BY CallsInvByHandle DEF CallsInv
<1>1. UNCHANGED <<registrations_, op, open, gen, mask>>
  BY Zenon DEF Select, SelectBegin, EpollWait, EpollWaitEmpty, Drain, SelectReturn, Dispatch,
         DispatchUnknown
<1>2. ASSUME NEW h \in Handles,
             h \in unseen' => /\ h \in unseen
                              /\ \/ h \in ready' \/ \E r \in raw' : r.handle = h
                                 \/ \E t \in Threads : op[t].handle = h /\ At(t, "remove_ctl")
      PROVE  HandleInv(h)'
  <2>1. ASSUME NEW t \in Threads, op[t].handle = h PROVE Phase(t, h)'
    <3>1. /\ EntryAt(op[t].step, op[t].interests, h)
          /\ \A u \in Threads : op[u].handle = h => u = t
      BY <2>1, CallPhase
    <3>2. QED
      BY <1>1, <3>1 DEF Phase, EntryAt
  <2>2. InFlight(h)' <=> InFlight(h)
    BY <1>1 DEF InFlight
  <2>3. HandleInv(h)
    BY <1>0
  <2>4. QED
    BY Zenon, <1>1, <1>2, <2>1, <2>2, <2>3 DEF HandleInv, At
<1>3. SUFFICES RawInv' /\ \A h \in Handles :
        h \in unseen' => /\ h \in unseen
                         /\ \/ h \in ready' \/ \E r \in raw' : r.handle = h
                            \/ \E t \in Threads : op[t].handle = h /\ At(t, "remove_ctl")
  <2>1. \A h \in Handles : HandleInv(h)'
    BY <1>2, <1>3
  <2>2. (TypeOK => (CallsInv <=> RawInv /\ \A h \in Handles : HandleInv(h)))'
    BY CallsInvByHandle, PTL
  <2>3. QED
    BY Zenon, <1>3, <2>1, <2>2
<1>4. CASE SelectBegin
  BY Zenon, <1>0, <1>4 DEF SelectBegin, RawInv, HandleInv
<1>5. CASE EpollWait
  <2>1. PICK batch \in SUBSET Deliverable :
          raw' = {RawEventOf(h) : h \in batch} /\ ready' = ready \ batch
    BY <1>5 DEF EpollWait
  <2>2. \A h \in batch : \E r \in raw' : r.handle = h
    <3> SUFFICES ASSUME NEW h \in batch PROVE \E r \in raw' : r.handle = h
      OBVIOUS
    <3>1. RawEventOf(h) \in raw' /\ RawEventOf(h).handle = h
      BY Zenon, <2>1 DEF RawEventOf
    <3>2. QED
      BY <3>1
  <2>3. raw = {} /\ ppc' = "dispatch" /\ unseen' = unseen
    BY Zenon, <1>0, <1>5 DEF EpollWait, RawInv
  <2>4. QED
    BY Zenon, <1>0, <2>1, <2>2, <2>3 DEF RawInv, HandleInv
<1>6. CASE EpollWaitEmpty
  BY Zenon, <1>0, <1>6 DEF EpollWaitEmpty, RawInv, HandleInv
<1>7. CASE Drain
  BY Zenon, <1>0, <1>7 DEF Drain, RawInv, HandleInv
<1>8. CASE SelectReturn
  BY Zenon, <1>0, <1>8 DEF SelectReturn, RawInv, HandleInv
<1>9. CASE \E r \in raw : Dispatch(r)
  <2>1. PICK r \in raw : Dispatch(r)
    BY <1>9
  <2>2. /\ raw' = raw \ {r} /\ unseen' = unseen \ {r.handle} /\ ready' = ready
        /\ ppc' \in {"dispatch", "drain"}
    BY Zenon, <2>1 DEF Dispatch
  <2>3. QED
    BY Zenon, <1>0, <2>2 DEF RawInv, HandleInv
<1>10. CASE \E r \in raw : DispatchUnknown(r)
  <2>1. PICK r \in raw : DispatchUnknown(r)
    BY <1>10
  <2>2. /\ raw' = raw \ {r} /\ unseen' = unseen /\ ready' = ready /\ ppc' = "dispatch"
        /\ registrations_[r.handle] = NoReg
    BY Zenon, <2>1 DEF DispatchUnknown
  <2>3. r.handle \in Handles
    BY <1>0 DEF TypeOK, RawEvent
  <2>4. r.handle \in unseen =>
          \E t \in Threads : op[t].handle = r.handle /\ At(t, "remove_ctl")
    <3> SUFFICES ASSUME r.handle \in unseen
                 PROVE  \E t \in Threads : op[t].handle = r.handle /\ At(t, "remove_ctl")
      OBVIOUS
    <3>1. mask[r.handle] # {} /\ InFlight(r.handle)
      BY <2>2, <2>3, WatchedOpen DEF CallsInv, NoOrphanEntry
    <3>2. PICK t \in Threads : op[t].handle = r.handle
      BY <3>1 DEF InFlight
    <3>3. EntryAt(op[t].step, op[t].interests, r.handle) /\ op[t].step \in Steps
      BY <2>3, <3>2, CallPhase
    <3>4. QED
      BY Zenon, <2>2, <3>1, <3>2, <3>3 DEF EntryAt, Steps, At
  <2>5. QED
    BY Zenon, <1>0, <2>2, <2>3, <2>4 DEF RawInv, HandleInv
<1>11. QED
  BY Zenon, <1>4, <1>5, <1>6, <1>7, <1>8, <1>9, <1>10 DEF Select

\* Steps that touch none of the variables CallsInv speaks of.
LEMMA UnrelatedStep ==
  ASSUME CallsInv, TypeOK',
         UNCHANGED <<registrations_, op, raw, ppc, open, gen, mask, ready, unseen>>
  PROVE  CallsInv'
<1>1. CallPhases'
  <2>1. ASSUME NEW t \in Threads, NEW h \in Handles, op[t].handle = h PROVE Phase(t, h)'
    <3>1. Phase(t, h)
      BY Zenon, <2>1 DEF CallsInv, CallPhases
    <3>2. EntryAt(op[t].step, op[t].interests, h)'
      BY Zenon, <3>1 DEF Phase, EntryAt
    <3> QED
      BY <3>1, <3>2 DEF Phase
  <2> QED
    BY <2>1 DEF CallPhases
<1>2. KernelLists'
  BY Zenon DEF CallsInv, KernelLists
<1>3. NoOrphanEntry' /\ RegistrationsArmed'
  BY Zenon DEF CallsInv, NoOrphanEntry, RegistrationsArmed, InFlight
<1>4. NoLostEdge'
  BY DEF CallsInv, NoLostEdge, At
<1>5. QED
  BY Zenon, <1>1, <1>2, <1>3, <1>4 DEF CallsInv

\* Files are opened, closed and become ready; the number of a closed file is
\* given to a new one, which the map does not mistake for the old one.
LEMMA EnvironmentStep ==
  ASSUME "exclusive" \in Discipline, CallsInv, TypeOK', Environment
  PROVE  CallsInv'
<1> USE DEF pollVars, fileVars, epollVars, callVars
<1>0. TypeOK /\ \A h \in Handles : HandleInv(h)
  BY CallsInvByHandle DEF CallsInv
<1>1. ASSUME NEW h \in Handles, OpenSource(h) PROVE CallsInv'
  <2>1. /\ UNCHANGED <<registrations_, op, raw, ppc, mask, ready, unseen>>
        /\ open[h] = "closed" /\ open'[h] # "closed" /\ gen'[h] = gen[h] + 1 /\ gen[h] \in Nat
        /\ \A g \in Handles \ {h} : open'[g] = open[g] /\ gen'[g] = gen[g]
    BY Zenon, <1>0, <1>1 DEF OpenSource, OpenFile, TypeOK
  <2>2. OthersKept(h)
    BY Zenon, <2>1 DEF OthersKept, FilesKept
  <2>3. \A t \in Threads : op[t].handle # h
    BY Zenon, <2>1, CallPhase DEF EntryAt
  <2>4. mask[h] = {} /\ h \notin unseen
    BY Zenon, <2>1, WatchedOpen
  <2>5. registrations_[h] # NoReg =>
          registrations_[h].file \in Nat /\ registrations_[h].file <= gen[h]
    BY Zenon, FileKnown
  <2>6. HandleInv(h)'
    <3>1. registrations_[h] # NoReg => registrations_[h].file <= gen'[h] /\ registrations_[h].file # gen'[h]
      BY <2>1, <2>5
    <3>2. /\ registrations_'[h] = registrations_[h] /\ mask'[h] = {} /\ h \notin unseen'
          /\ \A t \in Threads : op'[t].handle # h
      BY <2>1, <2>3, <2>4
    <3>3. registrations_'[h] # NoReg =>
            registrations_'[h].file <= gen'[h] /\ ~(registrations_'[h].file = gen'[h])
      BY <3>1, <3>2
    <3>4. ~(mask'[h] # {}) /\ ~(h \in unseen') /\ \A t \in Threads : ~(op'[t].handle = h)
      BY <3>2
    <3> QED
      BY ONLY <3>3, <3>4 DEF HandleInv
  <2>7. QED
    BY Zenon, <2>2, <2>6, LocalStep
<1>2. ASSUME NEW h \in Handles, CloseSource(h) PROVE CallsInv'
  <2>1. /\ UNCHANGED <<registrations_, op, raw, ppc, gen>>
        /\ mask'[h] = {} /\ h \notin unseen' /\ open'[h] = "closed"
        /\ \A t \in Threads : op[t].handle # h
    BY Zenon, <1>0, <1>2 DEF CloseSource, CloseFile, DropMask, TypeOK, Keeps, InFlight
  <2>2. OthersKept(h)
    BY Zenon, <1>0, <1>2, <2>1 DEF CloseSource, CloseFile, DropMask, OthersKept, FilesKept, TypeOK
  <2>3. HandleInv(h)'
    BY Zenon, <1>0, <2>1 DEF HandleInv
  <2>4. QED
    BY <2>2, <2>3, LocalStep
<1>3. ASSUME NEW h \in Handles, NEW flag, Edge(h, flag),
             UNCHANGED <<registrations_, op, raw, ppc, open, gen>>
      PROVE  CallsInv'
  <2>1. OthersKept(h)
    BY Zenon, <1>3 DEF Edge, OthersKept, FilesKept
  <2>2. \A t \in Threads : op[t].handle = h => Phase(t, h)'
    <3> SUFFICES ASSUME NEW t \in Threads, op[t].handle = h PROVE Phase(t, h)'
      OBVIOUS
    <3>1. /\ EntryAt(op[t].step, op[t].interests, h)
          /\ \A u \in Threads : op[u].handle = h => u = t
      BY CallPhase
    <3>2. UNCHANGED <<registrations_, op, open, gen, mask>>
      BY Zenon, <1>3 DEF Edge
    <3>3. QED
      BY Zenon, <3>1, <3>2 DEF Phase, EntryAt
  <2>3. HandleInv(h)'
    BY Zenon, <1>0, <1>3, <2>2 DEF Edge, HandleInv, InFlight, At
  <2>4. QED
    BY <2>1, <2>3, LocalStep
<1>5. ASSUME NEW h \in Handles, Wake(h) PROVE CallsInv'
  BY <1>3, <1>5, UnrelatedStep DEF Wake
<1>6. ASSUME NEW h \in Handles, NEW flag \in Conditions, Arise(h, flag) PROVE CallsInv'
  BY <1>3, <1>6 DEF Arise
<1>7. ASSUME NEW h \in Handles, NEW flag \in Conditions, Cease(h, flag) PROVE CallsInv'
  BY <1>7, UnrelatedStep DEF Cease
<1>8. QED
  BY <1>1, <1>2, <1>5, <1>6, <1>7 DEF Environment

\* The map, the interest list and the unfinished calls agree, provided that no
\* two calls on one handle overlap.
THEOREM CallsSafe ==
  ASSUME "exclusive" \in Discipline
  PROVE  Spec => []CallsInv
<1>1. Init => CallsInv
  <2> SUFFICES ASSUME Init PROVE CallsInv
    OBVIOUS
  <2>1. TypeOK
    BY BoundsAssumption DEF Init, TypeOK
  <2>2. QED
    BY <2>1, NoHandleAssumption
       DEF Init, CallsInv, CallPhases, KernelLists, NoOrphanEntry, RegistrationsArmed,
           NoLostEdge, NoOp
<1>2. CallsInv /\ [Next]_vars => CallsInv'
  <2> SUFFICES ASSUME CallsInv, [Next]_vars PROVE CallsInv'
    OBVIOUS
  <2>1. TypeOK'
    BY TypeStep DEF CallsInv
  <2>2. CASE UNCHANGED vars
    BY <2>1, <2>2, UnrelatedStep DEF vars, callVars, pollVars, fileVars, epollVars
  <2>3. QED
    BY <2>1, <2>2, CallStep, FinishStep, SelectStep, EnvironmentStep DEF Next
<1>3. QED
  BY <1>1, <1>2, PTL DEF Spec

\* NoOrphanEntry of EpollOwners: no epoll entry outlives its map entry.
THEOREM NoOrphans ==
  ASSUME "exclusive" \in Discipline
  PROVE  Spec => []NoOrphanEntry
  BY CallsSafe, PTL DEF CallsInv

\* RegistrationsArmed of EpollOwners: what the map holds is watched.
THEOREM Armed ==
  ASSUME "exclusive" \in Discipline
  PROVE  Spec => []RegistrationsArmed
  BY CallsSafe, PTL DEF CallsInv

\* NoLostEdge of EpollOwners: find() loses no edge but those of removed handles.
THEOREM EdgesKept ==
  ASSUME "exclusive" \in Discipline
  PROVE  Spec => []NoLostEdge
  BY CallsSafe, PTL DEF CallsInv

------------------------------------------------------------------------------
\* Tokens

\* What epoll_wait returned is not younger than the registration of its handle.
TokenInv ==
  /\ \A r \in raw :
       /\ r.file <= gen[r.handle]
       /\ registrations_[r.handle] # NoReg => r.file <= registrations_[r.handle].file
  /\ NoStaleToken

\* A descriptor number is only ever given to younger files, and an entry of the
\* map keeps the file it was made for or is made for the youngest one.
YoungerOnly ==
  \A h \in Handles :
    /\ gen[h] <= gen'[h]
    /\ registrations_'[h] # NoReg =>
         \/ registrations_[h] # NoReg /\ registrations_'[h].file = registrations_[h].file
         \/ gen[h] <= registrations_'[h].file

LEMMA CallsYounger ==
  ASSUME TypeOK, NEW t \in Threads, RegistryCall(t)
  PROVE  YoungerOnly /\ UNCHANGED <<raw, events>>
<1> USE DEF pollVars, fileVars
<1>0. gen \in [Handles -> Nat] /\ registrations_ \in [Handles -> Registration \cup {NoReg}]
  BY DEF TypeOK
<1>1. ASSUME NEW h \in Handles, NEW token \in Tokens, NEW interests \in InterestSets,
             AddEmplace(t, h, token, interests)
      PROVE  YoungerOnly /\ UNCHANGED <<raw, events>>
  BY <1>0, <1>1 DEF AddEmplace, Emplace, YoungerOnly
<1>2. ASSUME NEW h \in Handles, NEW token \in Tokens, NEW interests \in InterestSets,
             UpdateMap(t, h, token, interests)
      PROVE  YoungerOnly /\ UNCHANGED <<raw, events>>
  <2>1. registrations_[h] \in Registration
    BY <1>0, <1>2 DEF UpdateMap
  <2>2. registrations_'[h].file = registrations_[h].file
    BY <1>0, <1>2, <2>1 DEF UpdateMap, Registration
  <2>3. QED
    BY <1>0, <1>2, <2>2 DEF UpdateMap, YoungerOnly
<1>3. ASSUME NEW h \in Handles, RemoveErase(t, h)
      PROVE  YoungerOnly /\ UNCHANGED <<raw, events>>
  BY <1>0, <1>3 DEF RemoveErase, YoungerOnly
<1>4. ASSUME NEW h \in Handles, NEW token \in Tokens, WakerNew(t, h, token)
      PROVE  YoungerOnly /\ UNCHANGED <<raw, events>>
  <2>1. gen' = [gen EXCEPT ![h] = gen[h] + 1] /\ UNCHANGED <<raw, events>>
    BY <1>4 DEF WakerNew, OpenFile
  <2>2. \/ registrations_' = registrations_
        \/ \E reg : reg.file = gen[h] + 1 /\ registrations_' = [registrations_ EXCEPT ![h] = reg]
    <3>1. CASE registrations_' = registrations_
      BY <3>1
    <3>2. CASE Emplace(h, token, {"READABLE"}, TRUE, gen[h] + 1)
      <4> DEFINE reg == [token |-> token, interests |-> {"READABLE"}, auto_drain |-> TRUE,
                         file |-> gen[h] + 1]
      <4>1. reg.file = gen[h] + 1 /\ registrations_' = [registrations_ EXCEPT ![h] = reg]
        BY <3>2 DEF Emplace
      <4>2. QED
        BY Zenon, <4>1
    <3>3. QED
      BY Zenon, <1>4, <3>1, <3>2 DEF WakerNew
  <2>3. QED
    BY <1>0, <2>1, <2>2 DEF YoungerOnly
<1>5. ASSUME NEW h \in Handles, WakerDrop(t, h)
      PROVE  YoungerOnly /\ UNCHANGED <<raw, events>>
  BY <1>0, <1>5 DEF WakerDrop, YoungerOnly
<1>6. QED
  BY <1>1, <1>2, <1>3, <1>4, <1>5 DEF RegistryCall

LEMMA StepsYounger ==
  ASSUME TypeOK, (\E t \in Threads : RegistryStep(t)) \/ Environment
  PROVE  YoungerOnly /\ UNCHANGED <<raw, events>>
<1> USE DEF pollVars, fileVars, callVars
<1>0. gen \in [Handles -> Nat] /\ registrations_ \in [Handles -> Registration \cup {NoReg}]
  BY DEF TypeOK
<1>1. ASSUME NEW t \in Threads, RegistryStep(t)
      PROVE  YoungerOnly /\ UNCHANGED <<raw, events>>
  <2>1. CASE AddUndo(t)
    BY <1>0, <2>1 DEF AddUndo, YoungerOnly
  <2>2. CASE UNCHANGED <<registrations_, gen, raw, events>>
    BY <1>0, <2>2 DEF YoungerOnly
  <2>3. QED
    BY Zenon, <1>1, <2>1, <2>2 DEF RegistryStep, AddCtl, AddCtlFails, UpdateCtl, RemoveCtl,
                                   WakerClose, CloseFile
<1>2. CASE Environment
  <2>1. ASSUME NEW h \in Handles, OpenSource(h)
        PROVE  YoungerOnly /\ UNCHANGED <<raw, events>>
    BY <1>0, <2>1 DEF OpenSource, OpenFile, YoungerOnly
  <2>2. CASE UNCHANGED <<registrations_, gen, raw, events>>
    BY <1>0, <2>2 DEF YoungerOnly
  <2>3. QED
    BY Zenon, <1>2, <2>1, <2>2 DEF Environment, CloseSource, CloseFile, Wake, Arise, Cease
<1>3. QED
  BY <1>1, <1>2

\* Such a step leaves no Event and no raw event with too young a file.
LEMMA YoungerKeeps ==
  ASSUME TypeOK, TypeOK', TokenInv, YoungerOnly, UNCHANGED <<raw, events>>
  PROVE  TokenInv'
<1>0. /\ gen \in [Handles -> Nat] /\ gen' \in [Handles -> Nat]
      /\ raw \in SUBSET RawEvent /\ events \in SUBSET PushedEvent
      /\ registrations_ \in [Handles -> Registration \cup {NoReg}]
      /\ registrations_' \in [Handles -> Registration \cup {NoReg}]
  BY DEF TypeOK
<1>1. ASSUME NEW r \in raw
      PROVE  /\ r.file <= gen'[r.handle]
             /\ registrations_'[r.handle] # NoReg => r.file <= registrations_'[r.handle].file
  <2>1. r.handle \in Handles /\ r.file \in Nat
    BY <1>0 DEF RawEvent
  <2>2. /\ r.file <= gen[r.handle] /\ gen[r.handle] <= gen'[r.handle]
        /\ gen[r.handle] \in Nat /\ gen'[r.handle] \in Nat
    BY <1>0, <2>1 DEF TokenInv, YoungerOnly
  <2>3. ASSUME registrations_'[r.handle] # NoReg PROVE r.file <= registrations_'[r.handle].file
    <3>1. registrations_'[r.handle].file \in Nat
      BY <1>0, <2>1, <2>3 DEF Registration
    <3>2. QED
      BY <2>1, <2>2, <2>3, <3>1 DEF TokenInv, YoungerOnly
  <2>4. QED
    BY <2>1, <2>2, <2>3
<1>2. ASSUME NEW e \in events PROVE e.file <= e.owner /\ e.owner <= gen'[e.handle]
  <2>1. e.handle \in Handles /\ e.owner \in Nat
    BY <1>0 DEF PushedEvent
  <2>2. QED
    BY <1>0, <2>1 DEF TokenInv, NoStaleToken, YoungerOnly
<1>3. QED
  BY <1>1, <1>2 DEF TokenInv, NoStaleToken

\* What the kernel watches is the file its map entry was made for.
LEMMA WatchedFile ==
  ASSUME CallsInv, NEW h \in Handles, mask[h] # {}, registrations_[h] # NoReg
  PROVE  registrations_[h].file = gen[h]
<1>1. CASE ~InFlight(h)
  BY <1>1 DEF CallsInv, NoOrphanEntry
<1>2. CASE InFlight(h)
  <2>1. PICK t \in Threads : op[t].handle = h
    BY <1>2 DEF InFlight
  <2>2. EntryAt(op[t].step, op[t].interests, h) /\ op[t].step \in Steps
    BY <2>1, CallPhase
  <2>3. QED
    BY <2>2 DEF EntryAt, Steps
<1>3. QED
  BY <1>1, <1>2

LEMMA SelectTokens ==
  ASSUME CallsInv, TokenInv, Select
  PROVE  TokenInv'
<1> USE DEF pollVars, fileVars, callVars
<1>0. TypeOK /\ RawInv
  BY CallsInvByHandle DEF CallsInv
<1>1. UNCHANGED <<registrations_, gen>>
  BY Zenon DEF Select, SelectBegin, EpollWait, EpollWaitEmpty, Drain, SelectReturn, Dispatch,
         DispatchUnknown
<1>2. CASE SelectBegin
  BY <1>1, <1>2 DEF SelectBegin, TokenInv, NoStaleToken
<1>3. CASE EpollWait
  <2>1. PICK batch \in SUBSET Deliverable : raw' = {RawEventOf(h) : h \in batch}
    BY <1>3 DEF EpollWait
  <2>2. events' = events
    BY <1>3 DEF EpollWait
  <2>3. ASSUME NEW h \in batch
        PROVE  /\ RawEventOf(h).handle = h /\ RawEventOf(h).file = gen[h]
               /\ gen[h] <= gen[h]
               /\ registrations_[h] # NoReg => gen[h] <= registrations_[h].file
    <3>1. h \in Handles /\ mask[h] # {} /\ gen[h] \in Nat
      BY <1>0, <2>3 DEF Deliverable, Meets, TypeOK
    <3>2. registrations_[h] # NoReg => registrations_[h].file = gen[h]
      BY Zenon, <3>1, WatchedFile
    <3>3. RawEventOf(h).handle = h /\ RawEventOf(h).file = gen[h]
      BY Zenon DEF RawEventOf
    <3>4. gen[h] <= gen[h]
      BY ONLY <3>1
    <3>5. QED
      BY Zenon, <3>2, <3>3, <3>4
  <2>4. ASSUME NEW r \in raw'
        PROVE  /\ r.file <= gen[r.handle]
               /\ registrations_[r.handle] # NoReg => r.file <= registrations_[r.handle].file
    <3>1. PICK h \in batch : r = RawEventOf(h)
      BY <2>1
    <3>2. QED
      BY Zenon, <2>3, <3>1
  <2>5. NoStaleToken'
    BY Zenon, <1>1, <2>2 DEF TokenInv, NoStaleToken
  <2>6. QED
    BY <1>1, <2>4, <2>5 DEF TokenInv
<1>4. ASSUME NEW r \in raw, Dispatch(r) PROVE TokenInv'
  <2>1. raw' = raw \ {r} /\ events' = events \cup {Push(r)} /\ registrations_[r.handle] # NoReg
    BY Zenon, <1>4 DEF Dispatch
  <2>2. r.handle \in Handles
    BY <1>0 DEF TypeOK, RawEvent
  <2>3. /\ Push(r).handle = r.handle /\ Push(r).file = r.file
        /\ Push(r).owner = registrations_[r.handle].file
    BY Zenon DEF Push
  <2>4. registrations_[r.handle].file <= gen[r.handle]
    BY Zenon, <2>1, <2>2, FileKnown
  <2>5. QED
    BY Zenon, <1>1, <2>1, <2>3, <2>4 DEF TokenInv, NoStaleToken
<1>5. ASSUME NEW r \in raw, DispatchUnknown(r) PROVE TokenInv'
  BY Zenon, <1>1, <1>5 DEF DispatchUnknown, TokenInv, NoStaleToken
<1>6. CASE EpollWaitEmpty \/ Drain \/ SelectReturn
  BY Zenon, <1>1, <1>6 DEF EpollWaitEmpty, Drain, SelectReturn, TokenInv, NoStaleToken
<1>7. QED
  BY <1>2, <1>3, <1>4, <1>5, <1>6 DEF Select

\* NoStaleToken of EpollOwners: whatever is closed without deregister, reused or
\* registered anew meanwhile, no Event carries an earlier holder's token.
THEOREM TokensFresh ==
  ASSUME "exclusive" \in Discipline
  PROVE  Spec => []NoStaleToken
<1>1. Init => TokenInv
  BY Zenon DEF Init, TokenInv, NoStaleToken
<1>2. CallsInv /\ CallsInv' /\ TokenInv /\ [Next]_vars => TokenInv'
  <2> SUFFICES ASSUME CallsInv, CallsInv', TokenInv, [Next]_vars PROVE TokenInv'
    OBVIOUS
  <2>0. TypeOK /\ TypeOK'
    BY DEF CallsInv
  <2>1. ASSUME NEW t \in Threads, RegistryCall(t) PROVE TokenInv'
    BY <2>0, <2>1, CallsYounger, YoungerKeeps
  <2>2. CASE (\E t \in Threads : RegistryStep(t)) \/ Environment
    BY <2>0, <2>2, StepsYounger, YoungerKeeps
  <2>3. CASE Select
    BY <2>3, SelectTokens
  <2>4. CASE UNCHANGED vars
    BY Zenon, <2>4 DEF vars, callVars, pollVars, fileVars, TokenInv, NoStaleToken
  <2>5. QED
    BY <2>1, <2>2, <2>3, <2>4 DEF Next
<1>3. TokenInv => NoStaleToken
  BY DEF TokenInv
<1>4. QED
  BY <1>1, <1>2, <1>3, CallsSafe, PTL DEF Spec

------------------------------------------------------------------------------
\* Wakers

\* What holds of each descriptor number h while Wakers come and go only between two
\* polls.  Only an eventfd is written by wake(), and not before its constructor is
\* done; the calls on an eventfd are those of its Waker.  An entry of the map drains
\* itself exactly when it belongs to the open eventfd, and a Waker at rest has one.
WakerOwns(h) ==
  LET reg == registrations_[h]
  IN /\ h \in woken => open[h] = "eventfd"
     /\ \A t \in Threads : op[t].handle = h =>
          /\ op[t].waker <=> open[h] = "eventfd"
          /\ op[t].waker => ~At(t, "update_ctl")
          /\ At(t, "add_ctl") => h \notin woken
     /\ reg # NoReg =>
          /\ reg.auto_drain <=> open[h] = "eventfd" /\ reg.file = gen[h]
          /\ reg.auto_drain => reg.interests = {"READABLE"}
     /\ open[h] = "eventfd" /\ ~InFlight(h) => reg # NoReg /\ reg.auto_drain

\* A counter that is up has its edge on the ready list, among the raw events, or is
\* about to be drained; a wake() that found it up is not forgotten by a drain
\* because the drain comes after the push.
WakerCounts(h) ==
  /\ open[h] = "eventfd" => \A r \in raw : r.handle = h => "IN" \in r.flags
  /\ open[h] = "eventfd" /\ ~InFlight(h) /\ count[h] > 0 =>
       \/ h \in ready
       \/ \E r \in raw : r.handle = h
       \/ ppc = "drain" /\ draining = h
  /\ h \in woken /\ ~InFlight(h) =>
       count[h] > 0 \/ (ppc # "idle" /\ h \in Reported)
  /\ ppc = "drain" /\ draining = h => open[h] = "eventfd" /\ h \in Reported

\* Where the polling thread is.
WakerPoll ==
  /\ ppc = "wait" => events = {}
  /\ ppc = "drain" => draining \in Handles
  /\ ppc # "idle" => \A t \in Threads : ~op[t].waker

WakerInv ==
  /\ WakerPoll
  /\ \A h \in Handles : WakerOwns(h) /\ WakerCounts(h)

LEMMA ReportedBy ==
  ASSUME NEW h
  PROVE  h \in Reported <=> \E e \in events : e.handle = h /\ e.owner = gen[h]
  BY Zenon DEF Reported

\* What a step of the calls and of the kernel leaves alone when it is about g.
WakersKept(g) ==
  /\ OthersKept(g)
  /\ events' = events /\ draining' = draining
  /\ \A h \in Handles \ {g} : count'[h] = count[h] /\ (h \in woken' <=> h \in woken)

\* Such a step has to be examined at g only.
LEMMA LocalWaker ==
  ASSUME WakerInv, NEW g \in Handles, WakersKept(g), (WakerOwns(g) /\ WakerCounts(g))',
         (ppc # "idle" => \A t \in Threads : ~op[t].waker)'
  PROVE  WakerInv'
<1>1. WakerPoll'
  BY Zenon DEF WakerInv, WakerPoll, WakersKept, OthersKept, FilesKept
<1>2. ASSUME NEW h \in Handles \ {g} PROVE (WakerOwns(h) /\ WakerCounts(h))'
  <2>1. WakerOwns(h) /\ WakerCounts(h)
    BY DEF WakerInv
  <2>2. \A t \in Threads : op'[t].handle = h \/ op[t].handle = h => op'[t] = op[t]
    BY Zenon, NoHandleAssumption DEF WakersKept, OthersKept
  <2>3. InFlight(h)' <=> InFlight(h)
    BY Zenon, <2>2 DEF InFlight
  <2>4. /\ registrations_'[h] = registrations_[h] /\ open'[h] = open[h] /\ gen'[h] = gen[h]
        /\ count'[h] = count[h] /\ (h \in woken' <=> h \in woken) /\ (h \in ready' <=> h \in ready)
        /\ raw' = raw /\ ppc' = ppc /\ events' = events /\ draining' = draining
    BY Zenon DEF WakersKept, OthersKept, FilesKept
  <2>5. h \in Reported' <=> h \in Reported
    <3>1. h \in Reported' <=> \E e \in events' : e.handle = h /\ e.owner = gen'[h]
      BY Zenon, <2>4 DEF Reported
    <3>2. QED
      BY ZenonT(30), <2>4, <3>1, ReportedBy
  <2>6. WakerOwns(h)'
    BY ZenonT(30), <2>1, <2>2, <2>3, <2>4 DEF WakerOwns, At
  <2>7. WakerCounts(h)'
    BY Zenon, <2>1, <2>3, <2>4, <2>5 DEF WakerCounts
  <2>8. QED
    BY <2>6, <2>7
<1>3. QED
  BY <1>1, <1>2 DEF WakerInv

\* A step at a number that is no eventfd, before or after, changes nothing for wake()
\* and drain.
LEMMA SourceCounts ==
  ASSUME WakerInv, NEW h \in Handles, open[h] # "eventfd", (open[h] # "eventfd")',
         UNCHANGED <<ppc, draining>>, h \in woken' => h \in woken
  PROVE  WakerCounts(h)' /\ (h \notin woken)'
<1>1. WakerOwns(h) /\ WakerCounts(h)
  BY Zenon DEF WakerInv
<1>2. (h \notin woken)'
  BY Zenon, <1>1 DEF WakerOwns
<1>3. QED
  BY Zenon, <1>1, <1>2 DEF WakerCounts

\* While a Waker is made or taken down nothing is polled.
LEMMA CalmCounts ==
  ASSUME NEW h \in Handles, (ppc = "idle")', (raw = {})', InFlight(h)'
  PROVE  WakerCounts(h)'
  BY Zenon DEF WakerCounts

LEMMA CallOwner ==
  ASSUME CallsInv, WakerInv, NEW h \in Handles, NEW t \in Threads, op[t].handle = h
  PROVE  /\ op[t].waker <=> open[h] = "eventfd"
         /\ op[t].waker => ppc = "idle" /\ raw = {}
         /\ op[t].waker => op[t].step # "update_ctl"
         /\ op[t].step = "add_ctl" => h \notin woken
<1>1. WakerOwns(h) /\ WakerPoll
  BY DEF WakerInv
<1>2. op[t].waker <=> open[h] = "eventfd"
  BY Zenon, <1>1 DEF WakerOwns
<1>3. op[t] \in Op
  BY CallPhase
<1>4. op[t].waker => ppc = "idle"
  BY Zenon, <1>1 DEF WakerPoll
<1>5. ppc = "idle" => raw = {}
  BY DEF CallsInv, KernelLists
<1>6. QED
  BY Zenon, <1>1, <1>2, <1>4, <1>5 DEF WakerOwns, At

\* A call that a source's owner starts keeps its hands off Wakers.
LEMMA SourceCall ==
  ASSUME "exclusive" \in Discipline, CallsInv, WakerInv, NEW t \in Threads, NEW h \in Handles,
         NEW step, NEW interests, open[h] = "source",
         MayCall(t, h), Call(t, step, h, interests, FALSE),
         UNCHANGED <<pollVars, fileVars, epollVars, unseen, woken>>,
         \A g \in Handles \ {h} : registrations_'[g] = registrations_[g],
         registrations_'[h] # NoReg => registrations_'[h].auto_drain = FALSE
  PROVE  WakerInv'
<1> USE DEF pollVars, fileVars, epollVars
<1>1. op[t] = NoOp /\ \A u \in Threads : op[u].handle # h
  BY Zenon DEF MayCall, Keeps, InFlight
<1>2. /\ op'[t] = [step |-> step, handle |-> h, interests |-> interests, waker |-> FALSE]
      /\ \A u \in Threads \ {t} : op'[u] = op[u]
  BY Zenon DEF Call, CallsInv, TypeOK
<1>3. WakersKept(h)
  <2>1. FilesKept(h)
    BY Zenon, <1>1, <1>2 DEF FilesKept
  <2>2. \A u \in Threads :
          \/ op'[u] = op[u]
          \/ op[u].handle \in {h, NoHandle} /\ op'[u].handle \in {h, NoHandle}
    <3>1. op'[t].handle = h
      BY ONLY <1>2
    <3> QED
      BY Zenon, <1>1, <1>2, <3>1, RestingOp
  <2>3. /\ events' = events /\ draining' = draining
        /\ \A g \in Handles \ {h} : count'[g] = count[g] /\ (g \in woken' <=> g \in woken)
    BY Zenon, <1>1, <1>2
  <2> QED
    BY Zenon, <2>1, <2>2, <2>3 DEF WakersKept, OthersKept
<1>4. WakerCounts(h)' /\ (h \notin woken)'
  BY Zenon, SourceCounts
<1>5. op'[t].handle = h /\ op'[t].waker = FALSE
  BY ONLY <1>2
<1>6. WakerOwns(h)'
  <2>1. open'[h] # "eventfd" /\ h \notin woken'
    BY Zenon, <1>4
  <2>2. \A u \in Threads : op'[u].handle = h => op'[u].waker = FALSE
    BY Zenon, <1>1, <1>2, <1>5
  <2> QED
    BY Zenon, <2>1, <2>2 DEF WakerOwns
<1>7. (ppc # "idle" => \A u \in Threads : ~op[u].waker)'
  BY Zenon, <1>2, <1>5 DEF WakerInv, WakerPoll
<1>8. QED
  BY Zenon, <1>3, <1>4, <1>6, <1>7, LocalWaker

LEMMA NewWaker ==
  ASSUME "exclusive" \in Discipline, "steady_wakers" \in Discipline, CallsInv, WakerInv,
         NEW t \in Threads, NEW h \in Handles, NEW token \in Tokens, WakerNew(t, h, token)
  PROVE  WakerInv'
<1> USE DEF pollVars, epollVars
<1>0. TypeOK
  BY DEF CallsInv
<1>1. op[t] = NoOp /\ \A u \in Threads : op[u].handle # h
  BY Zenon DEF WakerNew, MayCall, Keeps, InFlight
<1>2. /\ ppc' = "idle" /\ raw' = {} /\ UNCHANGED <<pollVars, epollVars, unseen, woken>>
  <2>1. ppc = "idle" /\ UNCHANGED <<pollVars, epollVars, unseen, woken>>
    BY Zenon DEF WakerNew, Keeps
  <2>2. QED
    BY Zenon, <2>1 DEF CallsInv, KernelLists
<1>3. /\ open[h] = "closed" /\ open'[h] = "eventfd" /\ gen'[h] = gen[h] + 1 /\ gen[h] \in Nat
      /\ \A g \in Handles \ {h} : open'[g] = open[g] /\ gen'[g] = gen[g] /\ count'[g] = count[g]
  BY Zenon, <1>0 DEF WakerNew, OpenFile, TypeOK
<1>4. h \notin woken
  BY Zenon, <1>3 DEF WakerInv, WakerOwns
<1>5. /\ op'[t].handle = h /\ op'[t].waker = TRUE
      /\ op'[t].step # "update_ctl"
      /\ \A u \in Threads \ {t} : op'[u] = op[u]
  <2>1. PICK step \in Steps \ {"update_ctl"}, interests \in SUBSET Kinds : Call(t, step, h, interests, TRUE)
    <3>1. {"READABLE"} \in SUBSET Kinds /\ {} \in SUBSET Kinds
      BY DEF Kinds
    <3>2. QED
      BY Zenon, <3>1 DEF WakerNew, Steps
  <2>2. QED
    BY Zenon, <1>0, <2>1 DEF Call, TypeOK
<1>6. \A g \in Handles \ {h} : registrations_'[g] = registrations_[g]
  BY Zenon, <1>0 DEF WakerNew, Emplace, TypeOK
<1>7. WakersKept(h)
  <2>1. FilesKept(h)
    BY Zenon, <1>2, <1>3, <1>6 DEF FilesKept
  <2>2. \A u \in Threads :
          \/ op'[u] = op[u]
          \/ op[u].handle \in {h, NoHandle} /\ op'[u].handle \in {h, NoHandle}
    BY Zenon, <1>1, <1>5, RestingOp
  <2>3. /\ events' = events /\ draining' = draining
        /\ \A g \in Handles \ {h} : count'[g] = count[g] /\ (g \in woken' <=> g \in woken)
    BY Zenon, <1>2, <1>3, <1>6
  <2> QED
    BY Zenon, <2>1, <2>2, <2>3 DEF WakersKept, OthersKept
<1>8. InFlight(h)'
  BY Zenon, <1>5 DEF InFlight
<1>9. registrations_'[h] # NoReg =>
        /\ registrations_'[h].auto_drain <=> registrations_'[h].file = gen'[h]
        /\ registrations_'[h].auto_drain => registrations_'[h].interests = {"READABLE"}
  <2>1. CASE registrations_' = registrations_
    <3> SUFFICES ASSUME registrations_[h] # NoReg
                 PROVE  ~registrations_[h].auto_drain /\ registrations_[h].file # gen[h] + 1
      BY Zenon, <1>3, <2>1
    <3>1. ~registrations_[h].auto_drain
      BY Zenon, <1>3 DEF WakerInv, WakerOwns
    <3>2. registrations_[h].file \in Nat /\ registrations_[h].file <= gen[h]
      BY FileKnown
    <3>3. gen[h] \in Nat
      BY Zenon, <1>3
    <3>4. registrations_[h].file # gen[h] + 1
      BY ONLY <3>2, <3>3
    <3>5. QED
      BY Zenon, <3>1, <3>4
  <2>2. CASE Emplace(h, token, {"READABLE"}, TRUE, gen[h] + 1)
    <3>1. registrations_'[h] = [token |-> token, interests |-> {"READABLE"},
                                auto_drain |-> TRUE, file |-> gen[h] + 1]
      BY Zenon, <1>0, <2>2 DEF Emplace, TypeOK
    <3>2. /\ registrations_'[h].interests = {"READABLE"} /\ registrations_'[h].auto_drain = TRUE
          /\ registrations_'[h].file = gen[h] + 1
      <4>1. PICK o : o = registrations_'[h]
        BY Zenon
      <4>2. o = [token |-> token, interests |-> {"READABLE"}, auto_drain |-> TRUE, file |-> gen[h] + 1]
        BY Zenon, <3>1, <4>1
      <4>3. o.interests = {"READABLE"} /\ o.auto_drain = TRUE /\ o.file = gen[h] + 1
        BY Zenon, <4>2
      <4> QED
        BY Zenon, <4>1, <4>3
    <3>3. QED
      BY Zenon, <1>3, <3>2
  <2>3. QED
    BY Zenon, <2>1, <2>2 DEF WakerNew
<1>10. WakerOwns(h)'
  <2>1. \A u \in Threads : op'[u].handle = h => op'[u].waker = TRUE /\ op'[u].step # "update_ctl"
    BY Zenon, <1>1, <1>5
  <2>2. QED
    BY Zenon, <1>2, <1>3, <1>4, <1>8, <1>9, <2>1 DEF WakerOwns, At
<1>11. WakerCounts(h)'
  BY <1>2, <1>8, CalmCounts
<1>12. QED
  BY <1>2, <1>7, <1>10, <1>11, LocalWaker

LEMMA DropWaker ==
  ASSUME "exclusive" \in Discipline, "steady_wakers" \in Discipline, CallsInv, WakerInv,
         NEW t \in Threads, NEW h \in Handles, WakerDrop(t, h)
  PROVE  WakerInv'
<1> USE DEF pollVars, epollVars, fileVars
<1>0. TypeOK
  BY DEF CallsInv
<1>1. op[t] = NoOp /\ \A u \in Threads : op[u].handle # h
  BY Zenon DEF WakerDrop, MayCall, Keeps, InFlight
<1>2. /\ ppc' = "idle" /\ raw' = {} /\ UNCHANGED <<pollVars, fileVars, epollVars, unseen, woken>>
  <2>1. ppc = "idle" /\ UNCHANGED <<pollVars, fileVars, epollVars, unseen, woken>>
    BY Zenon DEF WakerDrop, Keeps
  <2>2. QED
    BY Zenon, <2>1 DEF CallsInv, KernelLists
<1>3. open[h] = "eventfd"
  BY Zenon DEF WakerDrop, WakerAlive
<1>4. /\ registrations_'[h] = NoReg
      /\ \A g \in Handles \ {h} : registrations_'[g] = registrations_[g]
  BY Zenon, <1>0 DEF WakerDrop, TypeOK
<1>5. /\ op'[t].handle = h /\ op'[t].waker = TRUE
      /\ op'[t].step \notin {"add_ctl", "update_ctl"}
      /\ \A u \in Threads \ {t} : op'[u] = op[u]
  <2>1. PICK step \in {"remove_ctl", "waker_close"} : Call(t, step, h, {}, TRUE)
    BY Zenon DEF WakerDrop
  <2>2. QED
    BY Zenon, <1>0, <2>1 DEF Call, TypeOK
<1>6. WakersKept(h)
  <2>1. FilesKept(h)
    BY Zenon, <1>2, <1>4 DEF FilesKept
  <2>2. \A u \in Threads :
          \/ op'[u] = op[u]
          \/ op[u].handle \in {h, NoHandle} /\ op'[u].handle \in {h, NoHandle}
    BY Zenon, <1>1, <1>5, RestingOp
  <2>3. /\ events' = events /\ draining' = draining
        /\ \A g \in Handles \ {h} : count'[g] = count[g] /\ (g \in woken' <=> g \in woken)
    BY Zenon, <1>2, <1>4
  <2> QED
    BY Zenon, <2>1, <2>2, <2>3 DEF WakersKept, OthersKept
<1>7. InFlight(h)'
  BY <1>5 DEF InFlight
<1>8. WakerOwns(h)'
  <2>1. \A u \in Threads : op'[u].handle = h => /\ op'[u].waker = TRUE
                                                /\ op'[u].step \notin {"add_ctl", "update_ctl"}
    BY <1>1, <1>5
  <2>2. QED
    BY Zenon, <1>2, <1>3, <1>4, <1>7, <2>1 DEF WakerOwns, At
<1>9. WakerCounts(h)'
  BY <1>2, <1>7, CalmCounts
<1>10. QED
  BY <1>2, <1>6, <1>8, <1>9, LocalWaker

\* The critical sections that start a call.
LEMMA CallWakers ==
  ASSUME "exclusive" \in Discipline, "steady_wakers" \in Discipline, CallsInv, WakerInv,
         NEW t \in Threads, RegistryCall(t)
  PROVE  WakerInv'
<1> USE DEF MayCallOn, Keeps
<1>0. TypeOK
  BY DEF CallsInv
<1>1. ASSUME NEW h \in Handles, NEW token \in Tokens, NEW interests \in InterestSets,
             AddEmplace(t, h, token, interests)
      PROVE  WakerInv'
  <2>1. /\ MayCall(t, h) /\ open[h] = "source" /\ Call(t, "add_ctl", h, interests, FALSE)
        /\ UNCHANGED <<pollVars, fileVars, epollVars, unseen, woken>>
    BY Zenon, <1>1 DEF AddEmplace
  <2>2. /\ \A g \in Handles \ {h} : registrations_'[g] = registrations_[g]
        /\ registrations_'[h].auto_drain = FALSE
    BY Zenon, <1>0, <1>1 DEF AddEmplace, Emplace, TypeOK
  <2>3. QED
    BY Zenon, <2>1, <2>2, SourceCall
<1>2. ASSUME NEW h \in Handles, NEW token \in Tokens, NEW interests \in InterestSets,
             UpdateMap(t, h, token, interests)
      PROVE  WakerInv'
  <2>1. /\ MayCall(t, h) /\ open[h] = "source" /\ Call(t, "update_ctl", h, interests, FALSE)
        /\ registrations_[h] # NoReg
        /\ UNCHANGED <<pollVars, fileVars, epollVars, unseen, woken>>
    BY Zenon, <1>2 DEF UpdateMap
  <2>2. registrations_[h] \in Registration /\ registrations_[h].auto_drain = FALSE
    <3>1. registrations_[h] \in Registration
      BY <1>0, <2>1 DEF TypeOK
    <3>2. ~registrations_[h].auto_drain
      BY Zenon, <2>1 DEF WakerInv, WakerOwns
    <3>3. registrations_[h].auto_drain \in BOOLEAN
      BY <3>1 DEF Registration
    <3>4. QED
      BY <3>1, <3>2, <3>3
  <2>3. /\ \A g \in Handles \ {h} : registrations_'[g] = registrations_[g]
        /\ registrations_'[h] = [registrations_[h] EXCEPT !.token = token, !.interests = interests]
    BY <1>0, <1>2 DEF UpdateMap, TypeOK
  <2>4. registrations_'[h].auto_drain = FALSE
    BY <2>2, <2>3 DEF Registration
  <2>5. QED
    BY Zenon, <2>1, <2>3, <2>4, SourceCall
<1>3. ASSUME NEW h \in Handles, RemoveErase(t, h) PROVE WakerInv'
  <2>1. /\ MayCall(t, h) /\ open[h] = "source" /\ Call(t, "remove_ctl", h, {}, FALSE)
        /\ UNCHANGED <<pollVars, fileVars, epollVars, unseen, woken>>
    BY Zenon, <1>3 DEF RemoveErase
  <2>2. /\ \A g \in Handles \ {h} : registrations_'[g] = registrations_[g]
        /\ registrations_'[h] = NoReg
    BY <1>0, <1>3 DEF RemoveErase, TypeOK
  <2>3. QED
    BY Zenon, <2>1, <2>2, SourceCall
<1>4. QED
  BY Zenon, <1>1, <1>2, <1>3, NewWaker, DropWaker DEF RegistryCall

\* The rest of a call.
LEMMA FinishWakers ==
  ASSUME CallsInv, WakerInv, NEW t \in Threads, RegistryStep(t)
  PROVE  WakerInv'
<1> USE DEF pollVars, fileVars, epollVars
<1>0. TypeOK
  BY DEF CallsInv
<1>1. op[t] \in Op
  BY <1>0 DEF TypeOK, Op, NoOp, RegistryStep, AddCtl, AddCtlFails, AddUndo, UpdateCtl,
              RemoveCtl, WakerClose, At
<1>2. PICK h \in Handles, interests \in SUBSET Kinds :
        op[t].handle = h /\ op[t].interests = interests
  BY <1>1 DEF Op
<1>3. /\ EntryAt(op[t].step, interests, h)
      /\ \A u \in Threads : op[u].handle = h => u = t
  BY <1>2, CallPhase
<1>4. /\ op[t].waker <=> open[h] = "eventfd"
      /\ op[t].waker => ppc = "idle" /\ raw = {}
      /\ op[t].waker => op[t].step # "update_ctl"
      /\ op[t].step = "add_ctl" => h \notin woken
  BY Zenon, <1>2, CallOwner
<1>5. /\ UNCHANGED <<ppc, raw, events, draining, gen>>
      /\ \A g \in Handles \ {h} :
           /\ registrations_'[g] = registrations_[g] /\ mask'[g] = mask[g]
           /\ open'[g] = open[g] /\ count'[g] = count[g]
           /\ g \in woken' <=> g \in woken
           /\ g \in ready' <=> g \in ready
           /\ g \in unseen' <=> g \in unseen
  <2>1. CASE AddCtl(t)
    BY Zenon, <1>0, <1>2, <2>1 DEF AddCtl, SetMask, TypeOK
  <2>2. CASE AddCtlFails(t)
    BY Zenon, <2>2 DEF AddCtlFails
  <2>3. CASE AddUndo(t)
    BY Zenon, <1>0, <1>2, <2>3 DEF AddUndo, TypeOK
  <2>4. CASE UpdateCtl(t)
    BY Zenon, <1>0, <1>2, <2>4 DEF UpdateCtl, SetMask, TypeOK
  <2>5. CASE RemoveCtl(t)
    BY Zenon, <1>0, <1>2, <2>5 DEF RemoveCtl, DropMask, TypeOK
  <2>6. CASE WakerClose(t)
    BY Zenon, <1>0, <1>2, <2>6 DEF WakerClose, CloseFile, DropMask, TypeOK
  <2>7. QED
    BY Zenon, <2>1, <2>2, <2>3, <2>4, <2>5, <2>6 DEF RegistryStep
<1>6. /\ \A u \in Threads \ {t} : op'[u] = op[u]
      /\ \/ op'[t] = NoOp
         \/ /\ op'[t].handle = h /\ op'[t].waker = op[t].waker
            /\ op'[t].step \notin {"add_ctl", "update_ctl"}
  <2>1. ASSUME NEW step \in {"add_undo", "waker_close"}
        PROVE  LET next == [op[t] EXCEPT !.step = step]
               IN next.handle = h /\ next.waker = op[t].waker /\ next.step = step
    BY <1>1, <1>2 DEF Op
  <2>2. CASE op' = [op EXCEPT ![t] = NoOp]
    BY <1>0, <2>2 DEF TypeOK
  <2>3. ASSUME NEW step \in {"add_undo", "waker_close"},
               op' = [op EXCEPT ![t] = [op[t] EXCEPT !.step = step]]
        PROVE  /\ \A u \in Threads \ {t} : op'[u] = op[u]
               /\ op'[t].handle = h /\ op'[t].waker = op[t].waker /\ op'[t].step = step
    BY <1>0, <2>1, <2>3 DEF TypeOK
  <2>4. \/ op' = [op EXCEPT ![t] = NoOp]
        \/ \E step \in {"add_undo", "waker_close"} :
             op' = [op EXCEPT ![t] = [op[t] EXCEPT !.step = step]]
    BY Zenon, <1>0 DEF RegistryStep, AddCtl, AddCtlFails, AddUndo, UpdateCtl, RemoveCtl,
                       WakerClose, Return, WakerThen, TypeOK
  <2>5. QED
    BY <2>2, <2>3, <2>4
<1>7. WakersKept(h)
  <2>1. FilesKept(h)
    BY Zenon, <1>5 DEF FilesKept
  <2>2. \A u \in Threads :
          \/ op'[u] = op[u]
          \/ op[u].handle \in {h, NoHandle} /\ op'[u].handle \in {h, NoHandle}
    BY Zenon, <1>2, <1>6, RestingOp
  <2>3. /\ events' = events /\ draining' = draining
        /\ \A g \in Handles \ {h} : count'[g] = count[g] /\ (g \in woken' <=> g \in woken)
    BY Zenon, <1>5
  <2> QED
    BY Zenon, <2>1, <2>2, <2>3 DEF WakersKept, OthersKept
<1>8. (ppc # "idle" => \A u \in Threads : ~op[u].waker)'
  <2>1. \A u \in Threads : op'[u].waker => op[u].waker
    BY Zenon, <1>6, RestingOp
  <2> QED
    BY Zenon, <1>5, <2>1 DEF WakerInv, WakerPoll
<1>9. WakerOwns(h)
  BY DEF WakerInv
<1>10. \A u \in Threads : op'[u].handle = h =>
         op'[u].waker = op[t].waker /\ op'[u].step \notin {"add_ctl", "update_ctl"}
  BY Zenon, <1>3, <1>6, RestingOp
<1>11. CASE open[h] # "eventfd"
  <2>1. /\ open'[h] # "eventfd" /\ (h \in woken' => h \in woken)
        /\ registrations_'[h] = registrations_[h] \/ registrations_'[h] = NoReg
    BY <1>0, <1>2, <1>11 DEF RegistryStep, AddCtl, AddCtlFails, AddUndo, UpdateCtl, RemoveCtl,
                             WakerClose, CloseFile, TypeOK
  <2>2. WakerCounts(h)' /\ (h \notin woken)'
    BY Zenon, <1>5, <1>11, <2>1, SourceCounts
  <2>3. WakerOwns(h)'
    BY Zenon, <1>4, <1>5, <1>9, <1>10, <1>11, <2>1, <2>2 DEF WakerOwns
  <2>4. QED
    BY <1>7, <1>8, <2>2, <2>3, LocalWaker
<1>12. CASE open[h] = "eventfd"
  <2>0. op[t].waker /\ ppc' = "idle" /\ raw' = {} /\ op[t].step # "update_ctl"
    BY Zenon, <1>4, <1>5, <1>12
  <2>1. ASSUME InFlight(h)', open'[h] = "eventfd",
               registrations_'[h] = registrations_[h] \/ registrations_'[h] = NoReg
        PROVE  WakerInv'
    <3>1. WakerCounts(h)'
      BY <2>0, <2>1, CalmCounts
    <3>2. WakerOwns(h)'
      BY Zenon, <1>5, <1>9, <1>10, <1>12, <2>0, <2>1 DEF WakerOwns, At
    <3>3. QED
      BY <1>7, <1>8, <3>1, <3>2, LocalWaker
  <2>2. CASE AddCtl(t)
    <3>1. /\ op'[t] = NoOp /\ op[t].step = "add_ctl"
          /\ UNCHANGED <<registrations_, open, gen, count, woken>>
          /\ SetMask(h, to_epoll_events(interests))
      BY Zenon, <1>0, <1>2, <2>2 DEF AddCtl, Return, At, TypeOK
    <3>2. /\ registrations_[h] # NoReg /\ registrations_[h].auto_drain
          /\ interests = {"READABLE"} /\ h \notin woken
      BY Zenon, <1>3, <1>4, <1>9, <1>12, <3>1 DEF EntryAt, WakerOwns
    <3>3. count[h] > 0 => h \in ready'
      <4>1. "IN" \in to_epoll_events(interests)
        BY <3>2 DEF to_epoll_events, When
      <4>2. count[h] > 0 => Meets(Level(h), to_epoll_events(interests))
        BY <1>12, <4>1 DEF Level, When, Meets
      <4>3. QED
        BY Zenon, <3>1, <4>2 DEF SetMask
    <3>4. WakerCounts(h)'
      BY Zenon, <2>0, <3>1, <3>2, <3>3 DEF WakerCounts
    <3>5. \A u \in Threads : op'[u].handle # h
      BY Zenon, <1>3, <1>6, <3>1, RestingOp
    <3>6. WakerOwns(h)'
      BY Zenon, <1>9, <1>12, <3>1, <3>2, <3>5 DEF WakerOwns
    <3>7. QED
      BY <1>7, <1>8, <3>4, <3>6, LocalWaker
  <2>3. CASE AddCtlFails(t) \/ AddUndo(t) \/ RemoveCtl(t)
    <3>1. op'[t].handle = h
      <4>1. PICK step \in {"add_undo", "waker_close"} :
              op' = [op EXCEPT ![t] = [op[t] EXCEPT !.step = step]]
        BY Zenon, <1>0, <2>0, <2>3 DEF AddCtlFails, AddUndo, RemoveCtl, WakerThen, TypeOK
      <4>2. [op[t] EXCEPT !.step = step].handle = h
        BY <1>1, <1>2 DEF Op
      <4>3. QED
        BY <1>0, <4>1, <4>2 DEF TypeOK
    <3>2. InFlight(h)'
      BY <3>1 DEF InFlight
    <3>3. open' = open /\ (registrations_'[h] = registrations_[h] \/ registrations_'[h] = NoReg)
      BY Zenon, <1>0, <1>2, <2>3 DEF AddCtlFails, AddUndo, RemoveCtl, TypeOK
    <3>4. QED
      BY <1>12, <2>1, <3>2, <3>3
  <2>4. CASE WakerClose(t)
    <3>1. /\ op'[t] = NoOp /\ op[t].step = "waker_close" /\ UNCHANGED <<registrations_, gen>>
          /\ open'[h] = "closed" /\ h \notin woken'
      BY Zenon, <1>0, <1>2, <2>4 DEF WakerClose, CloseFile, Return, At, TypeOK
    <3>2. registrations_[h] # NoReg => ~registrations_[h].auto_drain
      BY Zenon, <1>3, <1>9, <3>1 DEF EntryAt, WakerOwns
    <3>3. \A u \in Threads : op'[u].handle # h
      BY Zenon, <1>3, <1>6, <3>1, RestingOp
    <3>4. WakerOwns(h)'
      BY Zenon, <3>1, <3>2, <3>3 DEF WakerOwns
    <3>5. WakerCounts(h)'
      BY Zenon, <2>0, <3>1 DEF WakerCounts
    <3>6. QED
      BY <1>7, <1>8, <3>4, <3>5, LocalWaker
  <2>5. ~UpdateCtl(t)
    BY Zenon, <2>0 DEF UpdateCtl, At
  <2>6. QED
    BY <2>2, <2>3, <2>4, <2>5 DEF RegistryStep
<1>13. QED
  BY <1>11, <1>12

\* epoll_wait, find() and drain_descriptor.
LEMMA SelectWakers ==
  ASSUME "steady_wakers" \in Discipline, CallsInv, WakerInv, Select
  PROVE  WakerInv'
<1> USE DEF pollVars, fileVars, epollVars, callVars
<1>0. /\ TypeOK /\ RawInv
      /\ WakerPoll /\ \A h \in Handles : WakerOwns(h) /\ WakerCounts(h)
  BY CallsInvByHandle DEF CallsInv, WakerInv
<1>1. UNCHANGED <<registrations_, op, open, gen>> /\ woken' \subseteq woken
  BY Zenon DEF Select, SelectBegin, EpollWait, EpollWaitEmpty, Drain, SelectReturn, Dispatch,
         DispatchUnknown
<1>2. \A h \in Handles : WakerOwns(h)'
  BY Zenon, <1>0, <1>1 DEF WakerOwns, InFlight, At
<1>3. \A h \in Handles : InFlight(h)' <=> InFlight(h)
  BY <1>1 DEF InFlight
<1>4. \A h : h \in Reported' <=> \E e \in events' : e.handle = h /\ e.owner = gen[h]
  BY Zenon, <1>1 DEF Reported
<1>5. SUFFICES WakerPoll' /\ \A h \in Handles : WakerCounts(h)'
  BY <1>2 DEF WakerInv
<1>6. CASE SelectBegin
  <2>1. /\ ppc = "idle" /\ ppc' \in {"idle", "wait"} /\ events' = {}
        /\ UNCHANGED <<raw, draining, count, ready, woken>>
        /\ \A t \in Threads : ~op[t].waker
    BY <1>6 DEF SelectBegin, Keeps
  <2>2. WakerPoll'
    BY <1>1, <2>1 DEF WakerPoll
  <2>3. \A h \in Handles : WakerCounts(h)'
    BY Zenon, <1>0, <1>1, <1>3, <2>1 DEF WakerCounts
  <2>4. QED
    BY <2>2, <2>3
<1>7. CASE EpollWait
  <2>1. PICK batch \in SUBSET Deliverable :
          raw' = {RawEventOf(h) : h \in batch} /\ ready' = ready \ batch
    BY <1>7 DEF EpollWait
  <2>2. /\ ppc = "wait" /\ raw = {} /\ ppc' = "dispatch"
        /\ UNCHANGED <<events, draining, count, woken>>
    BY Zenon, <1>0, <1>7 DEF EpollWait, RawInv
  <2>3. WakerPoll'
    BY <1>0, <1>1, <2>2 DEF WakerPoll
  <2>4. ASSUME NEW h \in Handles PROVE WakerCounts(h)'
    <3>1. h \in batch => \E r \in raw' : r.handle = h
      <4>1. h \in batch => RawEventOf(h) \in raw' /\ RawEventOf(h).handle = h
        BY Zenon, <2>1 DEF RawEventOf
      <4>2. QED
        BY <4>1
    <3>2. open[h] = "eventfd" => \A r \in raw' : r.handle = h => "IN" \in r.flags
      <4> SUFFICES ASSUME open[h] = "eventfd", NEW r \in raw', r.handle = h
                   PROVE  "IN" \in r.flags
        BY Zenon
      <4>1. r = RawEventOf(h) /\ h \in Deliverable
        <5>1. PICK g \in batch : r = RawEventOf(g)
          BY Zenon, <2>1
        <5>2. RawEventOf(g).handle = g
          BY Zenon DEF RawEventOf
        <5> QED
          BY Zenon, <2>1, <5>1, <5>2
      <4>2. Meets(Level(h), mask[h]) /\ Level(h) \subseteq {"IN"}
        BY <4>1 DEF Deliverable, Level, When
      <4>3. RawEventOf(h).flags = Level(h) \cap mask[h]
        BY Zenon DEF RawEventOf
      <4>4. Level(h) \cap mask[h] # {}
        BY Zenon, <4>2 DEF Meets
      <4>5. QED
        BY Zenon, <4>1, <4>2, <4>3, <4>4
    <3>3. h \in Reported' <=> h \in Reported
      BY <1>4, <2>2, ReportedBy
    <3>4. WakerCounts(h) /\ h \notin {r.handle : r \in raw}
      BY <1>0, <2>2
    <3>5. QED
      BY Zenon, <1>1, <1>3, <2>1, <2>2, <3>1, <3>2, <3>3, <3>4 DEF WakerCounts
  <2>5. QED
    BY <2>3, <2>4
<1>8. CASE EpollWaitEmpty
  <2>1. /\ ppc = "wait" /\ ppc' = "idle" /\ events = {}
        /\ UNCHANGED <<raw, events, draining, count, ready, woken>>
    BY <1>0, <1>8 DEF EpollWaitEmpty, WakerPoll
  <2>2. WakerPoll'
    BY <2>1 DEF WakerPoll
  <2>3. \A h : h \notin Reported
    BY <2>1, ReportedBy
  <2>4. \A h \in Handles : WakerCounts(h)'
    BY Zenon, <1>0, <1>1, <1>3, <2>1, <2>3 DEF WakerCounts
  <2>5. QED
    BY <2>2, <2>4
<1>9. CASE Drain
  <2>1. /\ ppc = "drain" /\ ppc' = "dispatch" /\ draining \in Handles
        /\ UNCHANGED <<raw, events, ready, woken>>
        /\ count'[draining] = 0
        /\ \A h \in Handles \ {draining} : count'[h] = count[h]
    BY Zenon, <1>0, <1>9 DEF Drain, WakerPoll, TypeOK
  <2>2. WakerPoll'
    BY Zenon, <1>0, <1>1, <2>1 DEF WakerPoll
  <2>3. \A h : h \in Reported' <=> h \in Reported
    BY Zenon, <1>4, <2>1, ReportedBy
  <2>4. ASSUME NEW h \in Handles PROVE WakerCounts(h)'
    <3>1. WakerCounts(h)
      BY <1>0
    <3>2. CASE h = draining
      <4>1. h \in Reported /\ count'[h] = 0 /\ ppc' # "drain" /\ ppc' # "idle"
        BY Zenon, <2>1, <3>1, <3>2 DEF WakerCounts
      <4>2. ~(count'[h] > 0)
        BY ONLY <4>1
      <4> QED
        BY Zenon, <1>1, <2>1, <2>3, <3>1, <4>1, <4>2 DEF WakerCounts
    <3>3. CASE h # draining
      BY Zenon, <1>1, <1>3, <2>1, <2>3, <3>1, <3>3 DEF WakerCounts
    <3>4. QED
      BY <3>2, <3>3
  <2>5. QED
    BY <2>2, <2>4
<1>10. CASE SelectReturn
  <2>1. /\ ppc = "dispatch" /\ ppc' = "idle" /\ raw = {} /\ woken' = woken \ Reported
        /\ UNCHANGED <<raw, events, draining, count, ready>>
    BY <1>10 DEF SelectReturn
  <2>2. WakerPoll'
    BY <2>1 DEF WakerPoll
  <2>3. \A h \in Handles : WakerCounts(h)'
    BY Zenon, <1>0, <1>1, <1>3, <2>1 DEF WakerCounts
  <2>4. QED
    BY <2>2, <2>3
<1>11. ASSUME NEW r \in raw, Dispatch(r) PROVE WakerPoll' /\ \A h \in Handles : WakerCounts(h)'
  <2>1. /\ ppc = "dispatch" /\ registrations_[r.handle] # NoReg
        /\ raw' = raw \ {r} /\ events' = events \cup {Push(r)}
        /\ UNCHANGED <<count, ready, woken>>
        /\ IF registrations_[r.handle].auto_drain /\ "IN" \in r.flags
             THEN ppc' = "drain" /\ draining' = r.handle
             ELSE ppc' = "dispatch" /\ draining' = draining
    BY Zenon, <1>11 DEF Dispatch
  <2>2. r.handle \in Handles
    BY <1>0 DEF TypeOK, RawEvent
  <2>3. WakerPoll'
    BY Zenon, <1>0, <1>1, <2>1, <2>2 DEF WakerPoll
  <2>4. \A h : h \in Reported => h \in Reported'
    BY Zenon, <1>4, <2>1, ReportedBy
  <2>5. Push(r).handle = r.handle /\ Push(r).owner = registrations_[r.handle].file
    BY Zenon DEF Push
  <2>6. registrations_[r.handle].auto_drain => open[r.handle] = "eventfd" /\ r.handle \in Reported'
    <3>1. registrations_[r.handle].auto_drain =>
            open[r.handle] = "eventfd" /\ registrations_[r.handle].file = gen[r.handle]
      BY Zenon, <1>0, <2>1, <2>2 DEF WakerOwns
    <3>2. Push(r) \in events'
      BY Zenon, <2>1
    <3>3. ASSUME registrations_[r.handle].auto_drain
          PROVE  \E e \in events' : e.handle = r.handle /\ e.owner = gen[r.handle]
      BY Zenon, <2>5, <3>1, <3>2, <3>3
    <3> QED
      BY Zenon, <1>4, <3>1, <3>3
  <2>7. ASSUME NEW h \in Handles PROVE WakerCounts(h)'
    <3>1. WakerOwns(h) /\ WakerCounts(h)
      BY <1>0
    <3>2. ppc' # "idle"
      BY Zenon, <2>1
    <3>3. ppc' = "drain" /\ draining' = h => open[h] = "eventfd" /\ h \in Reported'
      BY Zenon, <2>1, <2>6
    <3>4. open[h] = "eventfd" /\ ~InFlight(h) /\ h = r.handle => ppc' = "drain" /\ draining' = h
      BY Zenon, <2>1, <3>1 DEF WakerOwns, WakerCounts
    <3>5. QED
      BY Zenon, <1>1, <1>3, <2>1, <2>4, <3>1, <3>2, <3>3, <3>4 DEF WakerCounts
  <2>8. QED
    BY <2>3, <2>7
<1>12. ASSUME NEW r \in raw, DispatchUnknown(r)
       PROVE  WakerPoll' /\ \A h \in Handles : WakerCounts(h)'
  <2>1. /\ ppc = "dispatch" /\ registrations_[r.handle] = NoReg /\ raw' = raw \ {r}
        /\ UNCHANGED <<ppc, events, draining, count, ready, woken>>
    BY Zenon, <1>12 DEF DispatchUnknown
  <2>2. WakerPoll'
    BY <1>0, <1>1, <2>1 DEF WakerPoll
  <2>3. \A h : h \in Reported' <=> h \in Reported
    BY <1>4, <2>1, ReportedBy
  <2>4. ASSUME NEW h \in Handles PROVE WakerCounts(h)'
    <3>1. WakerOwns(h) /\ WakerCounts(h)
      BY <1>0
    <3>2. open[h] = "eventfd" /\ ~InFlight(h) => h # r.handle
      BY Zenon, <2>1, <3>1 DEF WakerOwns
    <3>3. QED
      BY Zenon, <1>1, <1>3, <2>1, <2>3, <3>1, <3>2 DEF WakerCounts
  <2>5. QED
    BY <2>2, <2>4
<1>13. QED
  BY Zenon, <1>6, <1>7, <1>8, <1>9, <1>10, <1>11, <1>12 DEF Select

\* Steps that touch none of the variables WakerInv speaks of.
LEMMA SameWakers ==
  ASSUME WakerInv,
         UNCHANGED <<registrations_, op, ppc, raw, events, draining, open, gen, count, ready, woken>>
  PROVE  WakerInv'
<1>1. WakerPoll'
  BY DEF WakerInv, WakerPoll
<1>2. ASSUME NEW h \in Handles PROVE WakerOwns(h)'
  BY Zenon DEF WakerInv, WakerOwns, InFlight, At
<1>3. ASSUME NEW h \in Handles PROVE WakerCounts(h)'
  BY Zenon DEF WakerInv, WakerCounts, InFlight, Reported
<1>4. QED
  BY <1>1, <1>2, <1>3 DEF WakerInv

\* Files are opened and closed, and wake() writes to an eventfd.
LEMMA EnvironmentWakers ==
  ASSUME "exclusive" \in Discipline, CallsInv, WakerInv, Environment
  PROVE  WakerInv'
<1> USE DEF pollVars, fileVars, epollVars, callVars
<1>0. TypeOK /\ WakerPoll /\ \A h \in Handles : WakerOwns(h) /\ WakerCounts(h)
  BY DEF CallsInv, WakerInv
<1>2. ASSUME NEW h \in Handles, OpenSource(h) PROVE WakerInv'
  <2>1. /\ UNCHANGED <<registrations_, op, ppc, raw, events, draining, mask, ready, unseen, woken>>
        /\ open[h] = "closed" /\ open'[h] = "source"
        /\ \A g \in Handles \ {h} : open'[g] = open[g] /\ gen'[g] = gen[g] /\ count'[g] = count[g]
    BY Zenon, <1>0, <1>2 DEF OpenSource, OpenFile, TypeOK
  <2>2. WakersKept(h)
    BY Zenon, <2>1 DEF WakersKept, OthersKept, FilesKept
  <2>3. \A t \in Threads : op[t].handle # h
    BY Zenon, <2>1, CallPhase DEF EntryAt
  <2>4. WakerCounts(h)' /\ (h \notin woken)'
    BY Zenon, <2>1, SourceCounts
  <2>5. WakerOwns(h)'
    BY Zenon, <1>0, <2>1, <2>3, <2>4 DEF WakerOwns
  <2>6. QED
    BY Zenon, <1>0, <2>1, <2>2, <2>4, <2>5, LocalWaker DEF WakerPoll
<1>3. ASSUME NEW h \in Handles, CloseSource(h) PROVE WakerInv'
  <2>1. /\ UNCHANGED <<registrations_, op, ppc, raw, events, draining, gen>>
        /\ open[h] = "source" /\ open'[h] = "closed" /\ woken' = woken \ {h}
        /\ \A t \in Threads : op[t].handle # h
    BY Zenon, <1>0, <1>3 DEF CloseSource, CloseFile, TypeOK, Keeps, InFlight
  <2>2. WakersKept(h)
    BY Zenon, <1>0, <1>3, <2>1 DEF CloseSource, CloseFile, DropMask, WakersKept, OthersKept, FilesKept,
                            TypeOK
  <2>3. WakerCounts(h)' /\ (h \notin woken)'
    BY <2>1, SourceCounts
  <2>4. WakerOwns(h)'
    BY Zenon, <1>0, <2>1, <2>3 DEF WakerOwns
  <2>5. QED
    BY Zenon, <1>0, <2>1, <2>2, <2>3, <2>4, LocalWaker DEF WakerPoll
<1>4. ASSUME NEW h \in Handles, Wake(h) PROVE WakerInv'
  <2>1. /\ UNCHANGED <<registrations_, op, ppc, raw, events, draining, open, gen, mask>>
        /\ open[h] = "eventfd" /\ woken' = woken \cup {h}
        /\ \A g \in Handles \ {h} :
             /\ count'[g] = count[g]
             /\ g \in ready' <=> g \in ready
             /\ g \in unseen' <=> g \in unseen
    BY Zenon, <1>0, <1>4 DEF Wake, WakerAlive, Edge, TypeOK
  <2>2. WakersKept(h)
    BY Zenon, <2>1 DEF WakersKept, OthersKept, FilesKept
  <2>3. \A t \in Threads : op[t].handle # h
    BY Zenon, <1>0, <1>4 DEF Wake, WakerAlive, WakerOwns
  <2>4. /\ registrations_[h] # NoReg /\ registrations_[h].auto_drain
        /\ registrations_[h].file = gen[h] /\ registrations_[h].interests = {"READABLE"}
    BY Zenon, <1>0, <2>1, <2>3 DEF WakerOwns, InFlight
  <2>5. "IN" \in mask[h]
    <3>1. mask[h] = to_epoll_events({"READABLE"})
      BY Zenon, <2>1, <2>3, <2>4 DEF CallsInv, RegistrationsArmed, InFlight
    <3>2. QED
      BY <3>1 DEF to_epoll_events, When
  <2>6. count'[h] > 0
    BY SMTT(20), <1>0, <1>4, BoundsAssumption DEF Wake, TypeOK
  <2>7. h \in ready' \/ (ready' = ready /\ count'[h] = count[h])
    BY Zenon, <1>0, <1>4, <2>5 DEF Wake, Edge, TypeOK
  <2>8. WakerOwns(h)'
    BY Zenon, <1>0, <2>1, <2>3, <2>4 DEF WakerOwns
  <2>9. WakerCounts(h)'
    <3>1. WakerCounts(h) /\ ~InFlight(h)
      BY <1>0, <2>3 DEF InFlight
    <3>2. h \in Reported' <=> h \in Reported
      BY Zenon, <2>1 DEF Reported
    <3>3. QED
      BY Zenon, <2>1, <2>6, <2>7, <3>1, <3>2 DEF WakerCounts
  <2>10. QED
    BY Zenon, <1>0, <2>1, <2>2, <2>8, <2>9, LocalWaker DEF WakerPoll
<1>5. ASSUME NEW h \in Handles, NEW flag \in Conditions, Arise(h, flag) PROVE WakerInv'
  <2>1. /\ UNCHANGED <<registrations_, op, ppc, raw, events, draining, open, gen, count, mask, woken>>
        /\ open[h] = "source"
        /\ \A g \in Handles \ {h} : (g \in ready' <=> g \in ready) /\ (g \in unseen' <=> g \in unseen)
    BY Zenon, <1>5 DEF Arise, Edge
  <2>2. WakersKept(h)
    BY Zenon, <2>1 DEF WakersKept, OthersKept, FilesKept
  <2>3. WakerCounts(h)' /\ (h \notin woken)'
    BY <2>1, SourceCounts
  <2>4. WakerOwns(h)'
    BY Zenon, <1>0, <2>1, <2>3 DEF WakerOwns, At
  <2>5. QED
    BY <1>0, <2>1, <2>2, <2>3, <2>4, LocalWaker DEF WakerPoll
<1>6. ASSUME NEW h \in Handles, NEW flag \in Conditions, Cease(h, flag) PROVE WakerInv'
  BY <1>6, SameWakers DEF Cease
<1>7. QED
  BY <1>2, <1>3, <1>4, <1>5, <1>6 DEF Environment

\* The calls, the kernel and the polling thread keep the Wakers' counters and edges
\* together as long as no Waker is made or destroyed during a poll.
THEOREM WakersSafe ==
  ASSUME "exclusive" \in Discipline, "steady_wakers" \in Discipline
  PROVE  Spec => []WakerInv
<1>1. Init => WakerInv
  <2> SUFFICES ASSUME Init PROVE WakerInv
    OBVIOUS
  <2>1. /\ ppc = "idle" /\ raw = {} /\ woken = {}
        /\ \A h \in Handles : registrations_[h] = NoReg /\ open[h] = "closed"
        /\ \A t \in Threads : op[t].handle = NoHandle
    BY Zenon, RestingOp DEF Init
  <2>2. \A t \in Threads, h \in Handles : op[t].handle # h
    BY Zenon, <2>1, RestingOp
  <2>3. \A h \in Handles : WakerOwns(h)
    BY Zenon, <2>1, <2>2 DEF WakerOwns
  <2>4. \A h \in Handles : WakerCounts(h)
    BY Zenon, <2>1 DEF WakerCounts
  <2> QED
    BY Zenon, <2>1, <2>3, <2>4 DEF WakerInv, WakerPoll
<1>2. CallsInv /\ WakerInv /\ [Next]_vars => WakerInv'
  <2> SUFFICES ASSUME CallsInv, WakerInv, [Next]_vars PROVE WakerInv'
    OBVIOUS
  <2>1. CASE UNCHANGED vars
    BY <2>1, SameWakers DEF vars, callVars, pollVars, fileVars, epollVars
  <2>2. QED
    BY <2>1, CallWakers, FinishWakers, SelectWakers, EnvironmentWakers DEF Next
<1>3. QED
  BY <1>1, <1>2, CallsSafe, PTL DEF Spec

\* WakeNotLost of EpollWaker: between wake() and the poll that returns the token,
\* the counter is up with its edge on the way, or the token is already pushed.
THEOREM WakesKept ==
  ASSUME "exclusive" \in Discipline, "steady_wakers" \in Discipline
  PROVE  Spec => []WakeNotLost
<1>1. CallsInv /\ WakerInv => WakeNotLost
  <2> SUFFICES ASSUME CallsInv, WakerInv, NEW h \in woken, WakerAlive(h)
               PROVE  \/ /\ count[h] > 0
                         /\ h \in ready \/ \E r \in raw : r.handle = h
                      \/ ppc # "idle" /\ h \in Reported
    BY DEF WakeNotLost
  <2>1. h \in Handles /\ WakerOwns(h) /\ WakerCounts(h)
    BY DEF CallsInv, TypeOK, WakerInv
  <2>2. open[h] = "eventfd" /\ ~InFlight(h)
    BY Zenon, <2>1 DEF WakerAlive, WakerOwns, InFlight
  <2>3. QED
    BY <2>1, <2>2 DEF WakerCounts
<1>2. QED
  BY <1>1, CallsSafe, WakersSafe, PTL

\* An entry of the map that drains itself is that of the open eventfd: it is erased
\* before the eventfd is closed, and no other call changes a Waker's entry.
DrainEntry(h) ==
  registrations_[h] # NoReg /\ registrations_[h].auto_drain =>
    open[h] = "eventfd" /\ registrations_[h].file = gen[h]

DrainEntries == \A h \in Handles : DrainEntry(h)

LEMMA DrainEntryAt ==
  ASSUME DrainEntries, NEW g \in Handles, DrainEntry(g)',
         \A h \in Handles \ {g} : /\ registrations_'[h] = registrations_[h]
                                 /\ open'[h] = open[h] /\ gen'[h] = gen[h]
  PROVE  DrainEntries'
<1>1. ASSUME NEW h \in Handles \ {g} PROVE DrainEntry(h)'
  BY Zenon, <1>1 DEF DrainEntries, DrainEntry
<1> QED
  BY Zenon, <1>1 DEF DrainEntries

LEMMA DrainEntryCalls ==
  ASSUME "exclusive" \in Discipline, CallsInv, DrainEntries, NEW t \in Threads,
         RegistryCall(t) \/ RegistryStep(t)
  PROVE  DrainEntries'
<1>0. /\ registrations_ \in [Handles -> Registration \cup {NoReg}]
      /\ open \in [Handles -> {"closed", "source", "eventfd"}] /\ gen \in [Handles -> Nat]
      /\ op \in [Threads -> Op \cup {NoOp}]
  BY Zenon DEF CallsInv, TypeOK
<1>1. ASSUME NEW h \in Handles, NEW reg, registrations_' = [registrations_ EXCEPT ![h] = reg],
             reg = NoReg \/ ~reg.auto_drain, UNCHANGED <<open, gen>>
      PROVE  DrainEntries'
  <2>1. registrations_'[h] = reg /\ \A g \in Handles \ {h} : registrations_'[g] = registrations_[g]
    BY Zenon, <1>0, <1>1
  <2>2. DrainEntry(h)'
    BY Zenon, <1>1, <2>1 DEF DrainEntry
  <2> QED
    BY Zenon, <1>1, <2>1, <2>2, DrainEntryAt
<1>2. ASSUME NEW h \in Handles, NEW token \in Tokens, NEW interests \in InterestSets,
             AddEmplace(t, h, token, interests)
      PROVE  DrainEntries'
  <2>1. PICK reg : reg = [token |-> token, interests |-> interests, auto_drain |-> FALSE, file |-> gen[h]]
    BY Zenon
  <2>2. ~reg.auto_drain
    BY <2>1
  <2> QED
    BY Zenon, <1>1, <1>2, <2>1, <2>2 DEF AddEmplace, Emplace, fileVars
<1>3. ASSUME NEW h \in Handles, NEW token \in Tokens, NEW interests \in InterestSets,
             UpdateMap(t, h, token, interests)
      PROVE  DrainEntries'
  <2>1. /\ open[h] = "source" /\ registrations_[h] # NoReg /\ UNCHANGED <<open, gen>>
        /\ registrations_' = [registrations_ EXCEPT
                                ![h] = [@ EXCEPT !.token = token, !.interests = interests]]
    BY Zenon, <1>3 DEF UpdateMap, MayCallOn, Keeps, fileVars
  <2>2. registrations_[h] \in Registration /\ ~registrations_[h].auto_drain
    <3>1. open[h] # "eventfd"
      BY <2>1
    <3>2. registrations_[h].auto_drain \in BOOLEAN
      BY <1>0, <2>1 DEF Registration
    <3> QED
      BY Zenon, <1>0, <2>1, <3>1, <3>2 DEF DrainEntries, DrainEntry
  <2>3. PICK reg : reg = [registrations_[h] EXCEPT !.token = token, !.interests = interests]
    BY Zenon
  <2>4. ~reg.auto_drain
    BY <2>2, <2>3 DEF Registration
  <2>5. registrations_' = [registrations_ EXCEPT ![h] = reg]
    BY Zenon, <1>0, <2>1, <2>3
  <2> QED
    BY Zenon, <1>1, <2>1, <2>4, <2>5
<1>4. ASSUME NEW h \in Handles, RemoveErase(t, h) \/ WakerDrop(t, h) PROVE DrainEntries'
  BY Zenon, <1>1, <1>4 DEF RemoveErase, WakerDrop, fileVars
<1>5. ASSUME NEW h \in Handles, NEW token \in Tokens, WakerNew(t, h, token) PROVE DrainEntries'
  <2>1. /\ open[h] = "closed" /\ open' = [open EXCEPT ![h] = "eventfd"]
        /\ gen' = [gen EXCEPT ![h] = gen[h] + 1]
    BY Zenon, <1>5 DEF WakerNew, OpenFile
  <2>2. /\ open'[h] = "eventfd" /\ gen'[h] = gen[h] + 1
        /\ \A g \in Handles \ {h} : open'[g] = open[g] /\ gen'[g] = gen[g]
    BY Zenon, <1>0, <2>1
  <2>3. CASE UNCHANGED registrations_
    <3>1. open[h] # "eventfd"
      BY <2>1
    <3>2. DrainEntry(h)'
      BY Zenon, <2>3, <3>1 DEF DrainEntries, DrainEntry
    <3> QED
      BY Zenon, <2>2, <2>3, <3>2, DrainEntryAt
  <2>4. CASE Emplace(h, token, {"READABLE"}, TRUE, gen[h] + 1)
    <3>1. PICK reg : reg = [token |-> token, interests |-> {"READABLE"}, auto_drain |-> TRUE,
                            file |-> gen[h] + 1]
      BY Zenon
    <3>2. reg.file = gen[h] + 1
      BY <3>1
    <3>3. registrations_' = [registrations_ EXCEPT ![h] = reg]
      BY Zenon, <2>4, <3>1 DEF Emplace
    <3>4. registrations_'[h] = reg /\ \A g \in Handles \ {h} : registrations_'[g] = registrations_[g]
      BY Zenon, <1>0, <3>3
    <3>5. DrainEntry(h)'
      BY ZenonT(30), <2>2, <3>2, <3>4 DEF DrainEntry
    <3> QED
      BY Zenon, <2>2, <3>4, <3>5, DrainEntryAt
  <2> QED
    BY Zenon, <1>5, <2>3, <2>4 DEF WakerNew
<1>6. ASSUME At(t, "add_ctl") \/ At(t, "add_undo") \/ At(t, "update_ctl") \/ At(t, "remove_ctl")
             \/ At(t, "waker_close")
      PROVE  op[t].handle \in Handles
  <2>1. op[t].step # "idle"
    BY <1>6 DEF At
  <2>2. op[t] \in Op
    BY Zenon, <1>0, <2>1, RestingOp
  <2> QED
    BY Zenon, <2>2 DEF Op
<1>7. CASE AddCtl(t) \/ AddCtlFails(t) \/ UpdateCtl(t) \/ RemoveCtl(t)
  <2>1. UNCHANGED <<registrations_, open, gen>>
    BY Zenon, <1>7 DEF AddCtl, AddCtlFails, UpdateCtl, RemoveCtl, fileVars
  <2> QED
    BY Zenon, <2>1 DEF DrainEntries, DrainEntry
<1>8. CASE AddUndo(t)
  BY Zenon, <1>1, <1>6, <1>8 DEF AddUndo, fileVars
<1>9. CASE WakerClose(t)
  <2>1. PICK h \in Handles : h = op[t].handle
    BY Zenon, <1>6, <1>9 DEF WakerClose
  <2>2. /\ UNCHANGED <<registrations_, gen>> /\ op[t].step = "waker_close"
        /\ open' = [open EXCEPT ![h] = "closed"]
    BY Zenon, <1>9, <2>1 DEF WakerClose, CloseFile, At
  <2>3. registrations_[h] # NoReg => registrations_[h].file # gen[h]
    BY Zenon, <2>1, <2>2 DEF CallsInv, CallPhases, Phase, EntryAt
  <2>4. DrainEntry(h)'
    BY Zenon, <2>2, <2>3 DEF DrainEntries, DrainEntry
  <2>5. \A g \in Handles \ {h} : open'[g] = open[g]
    BY Zenon, <1>0, <2>2
  <2> QED
    BY Zenon, <2>2, <2>4, <2>5, DrainEntryAt
<1> QED
  BY Zenon, <1>2, <1>3, <1>4, <1>5, <1>7, <1>8, <1>9 DEF RegistryCall, RegistryStep

LEMMA DrainEntryRest ==
  ASSUME CallsInv, DrainEntries, Select \/ Environment
  PROVE  DrainEntries'
<1>0. open \in [Handles -> {"closed", "source", "eventfd"}] /\ gen \in [Handles -> Nat]
  BY Zenon DEF CallsInv, TypeOK
<1>1. ASSUME UNCHANGED <<registrations_, open, gen>> PROVE DrainEntries'
  BY Zenon, <1>1 DEF DrainEntries, DrainEntry
<1>2. ASSUME NEW h \in Handles, OpenSource(h) \/ CloseSource(h) PROVE DrainEntries'
  <2>1. /\ open[h] \in {"closed", "source"} /\ UNCHANGED registrations_
        /\ \E kind : open' = [open EXCEPT ![h] = kind]
        /\ \E n : gen' = [gen EXCEPT ![h] = n]
    <3>1. CASE OpenSource(h)
      BY Zenon, <3>1 DEF OpenSource, OpenFile, callVars
    <3>2. CASE CloseSource(h)
      <4>1. open[h] = "source" /\ UNCHANGED registrations_ /\ CloseFile(h)
        BY Zenon, <3>2 DEF CloseSource, callVars
      <4>2. gen' = [gen EXCEPT ![h] = gen[h]]
        BY Zenon, <1>0, <4>1 DEF CloseFile
      <4> QED
        BY Zenon, <4>1, <4>2 DEF CloseFile
    <3> QED
      BY Zenon, <1>2, <3>1, <3>2
  <2>2. \A g \in Handles \ {h} : open'[g] = open[g] /\ gen'[g] = gen[g]
    BY Zenon, <1>0, <2>1
  <2>3. open[h] # "eventfd"
    BY <2>1
  <2>4. DrainEntry(h)'
    BY Zenon, <2>1, <2>3 DEF DrainEntries, DrainEntry
  <2> QED
    BY Zenon, <2>1, <2>2, <2>4, DrainEntryAt
<1>3. CASE Select
  BY Zenon, <1>1, <1>3 DEF Select, SelectBegin, EpollWait, EpollWaitEmpty, Drain, SelectReturn, Dispatch,
       DispatchUnknown, callVars, fileVars
<1>4. CASE Environment
  BY Zenon, <1>1, <1>2, <1>4 DEF Environment, Wake, Arise, Cease, callVars
<1> QED
  BY <1>3, <1>4

\* DrainsOwnWaker of EpollOwners, with Wakers made and destroyed at any time: what
\* find() has the poll drain is the eventfd of the Waker whose token was pushed.
THEOREM DrainsOwn ==
  ASSUME "exclusive" \in Discipline
  PROVE  Spec => DrainsOwnWaker
<1>1. Init => DrainEntries
  BY Zenon DEF Init, DrainEntries, DrainEntry
<1>2. CallsInv /\ DrainEntries /\ [Next]_vars => DrainEntries'
  <2> SUFFICES ASSUME CallsInv, DrainEntries, [Next]_vars PROVE DrainEntries'
    OBVIOUS
  <2>1. CASE UNCHANGED vars
    BY Zenon, <2>1 DEF vars, callVars, fileVars, DrainEntries, DrainEntry
  <2> QED
    BY <2>1, DrainEntryCalls, DrainEntryRest DEF Next
<1>3. CallsInv /\ DrainEntries /\ [Next]_vars =>
        [ppc # "drain" /\ ppc' = "drain" =>
           open'[draining'] = "eventfd" /\ draining' \in Reported']_vars
  <2> SUFFICES ASSUME CallsInv, DrainEntries, Next, ppc # "drain", ppc' = "drain"
               PROVE  open'[draining'] = "eventfd" /\ draining' \in Reported'
    BY Zenon DEF vars, pollVars
  <2>1. ASSUME NEW t \in Threads, RegistryCall(t) \/ RegistryStep(t) PROVE UNCHANGED ppc
    BY Zenon, <2>1 DEF RegistryCall, RegistryStep, AddEmplace, UpdateMap, RemoveErase, WakerNew, WakerDrop,
         AddCtl, AddCtlFails, AddUndo, UpdateCtl, RemoveCtl, WakerClose, pollVars
  <2>2. CASE Environment
    <3>1. UNCHANGED ppc
      BY Zenon, <2>2 DEF Environment, OpenSource, CloseSource, Wake, Arise, Cease, pollVars
    <3> QED
      BY <3>1
  <2>3. CASE Select
    <3>1. ASSUME SelectBegin \/ EpollWait \/ EpollWaitEmpty \/ Drain \/ SelectReturn
          PROVE  ppc' # "drain"
      BY Zenon, <3>1 DEF SelectBegin, EpollWait, EpollWaitEmpty, Drain, SelectReturn
    <3>2. ASSUME NEW r \in raw, Dispatch(r) \/ DispatchUnknown(r)
          PROVE  open'[draining'] = "eventfd" /\ draining' \in Reported'
      <4>1. /\ Dispatch(r) /\ registrations_[r.handle] # NoReg /\ registrations_[r.handle].auto_drain
            /\ draining' = r.handle /\ events' = events \cup {Push(r)} /\ UNCHANGED <<open, gen>>
        BY <3>2 DEF Dispatch, DispatchUnknown, fileVars
      <4>2. r.handle \in Handles
        BY DEF CallsInv, TypeOK, RawEvent
      <4>3. open[r.handle] = "eventfd" /\ registrations_[r.handle].file = gen[r.handle]
        BY ZenonT(30), <4>1, <4>2 DEF DrainEntries, DrainEntry
      <4>4. Push(r).handle = r.handle /\ Push(r).owner = registrations_[r.handle].file
        BY Zenon DEF Push
      <4>5. draining' \in Reported'
        BY Zenon, <4>1, <4>3, <4>4 DEF Reported
      <4> QED
        BY Zenon, <4>1, <4>3, <4>5
    <3> QED
      BY ZenonT(30), <2>3, <3>1, <3>2 DEF Select
  <2> QED
    BY Zenon, <2>1, <2>2, <2>3 DEF Next
<1> QED
  BY <1>1, <1>2, <1>3, CallsSafe, PTL DEF Spec, DrainsOwnWaker

------------------------------------------------------------------------------
\* SelectorContract

Adding(h) == \E t \in Threads : op[t].handle = h /\ op[t].step \in {"add_ctl", "add_undo"}

ReadyAt(h) == ContractRegistered[h] # NoReg /\ Meets(Level(h), mask[h])

DueAt(h) ==
  /\ h \in unseen /\ ContractRegistered[h] # NoReg
  /\ Meets(Level(h), mask[h]) \/ \E r \in raw : r.handle = h

\* A handle is registered from the end of add to the beginning of remove.
LEMMA ContractEntry ==
  TypeOK => \A h \in Handles :
              /\ ContractRegistered[h] # NoReg => ContractRegistered[h] \in Contract!Entry
              /\ ContractRegistered[h] # NoReg <=> registrations_[h] # NoReg /\ ~Adding(h)
<1> SUFFICES ASSUME TypeOK, NEW h \in Handles
             PROVE  /\ ContractRegistered[h] # NoReg => ContractRegistered[h] \in Contract!Entry
                    /\ ContractRegistered[h] # NoReg <=> registrations_[h] # NoReg /\ ~Adding(h)
  OBVIOUS
<1>1. ContractRegistered[h] = IF registrations_[h] = NoReg \/ Adding(h) THEN NoReg
                              ELSE [token |-> registrations_[h].token,
                                    interests |-> registrations_[h].interests]
  BY Zenon DEF ContractRegistered, Adding
<1>2. ASSUME registrations_[h] # NoReg
      PROVE  [token |-> registrations_[h].token, interests |-> registrations_[h].interests]
               \in [token : Tokens, interests : InterestSets \cup {{"READABLE"}}]
  <2>1. registrations_[h] \in Registration
    BY <1>2 DEF TypeOK
  <2> QED
    BY <2>1 DEF Registration
<1> QED
  BY Zenon, <1>1, <1>2, NoRegAssumption DEF Contract!Entry

LEMMA ContractSets ==
  /\ ContractRegistered = [h \in Handles |-> ContractRegistered[h]]
  /\ ContractReady = {h \in Handles : ReadyAt(h)} \X {"edge"}
  /\ unseen \subseteq Handles => ContractDue = {h \in Handles : DueAt(h)} \X {"edge"}
<1>1. ContractReady = {h \in Handles : ReadyAt(h)} \X {"edge"}
  BY DEF ContractReady, ReadyAt
<1>2. ASSUME unseen \subseteq Handles
      PROVE  ContractDue = {h \in Handles : DueAt(h)} \X {"edge"}
  <2>1. {h \in unseen :
           /\ ContractRegistered[h] # NoReg
           /\ Meets(Level(h), mask[h]) \/ \E r \in raw : r.handle = h} = {h \in Handles : DueAt(h)}
    BY <1>2 DEF DueAt
  <2> QED
    BY <2>1 DEF ContractDue
<1>3. ContractRegistered = [h \in Handles |-> ContractRegistered[h]]
  BY DEF ContractRegistered
<1> QED
  BY <1>1, <1>2, <1>3

LEMMA ContractSetsNext ==
  ASSUME TypeOK'
  PROVE  /\ ContractReady' = {h \in Handles : ReadyAt(h)}' \X {"edge"}
         /\ ContractDue' = {h \in Handles : DueAt(h)}' \X {"edge"}
<1>1. (/\ ContractRegistered = [h \in Handles |-> ContractRegistered[h]]
       /\ ContractReady = {h \in Handles : ReadyAt(h)} \X {"edge"}
       /\ unseen \subseteq Handles => ContractDue = {h \in Handles : DueAt(h)} \X {"edge"})'
  BY ContractSets, PTL
<1> QED
  BY Zenon, <1>1 DEF TypeOK

\* Sets of reports that differ at one handle.
LEMMA ReportSets ==
  ASSUME NEW S, NEW T, NEW g, \A h : h # g => (h \in S <=> h \in T)
  PROVE  (T \X {"edge"}) \ ({g} \X {"edge"}) = (S \X {"edge"}) \ ({g} \X {"edge"})
OBVIOUS

\* A step that concerns one handle is a step of the contract if, at this handle,
\* what becomes due is ready and what is due stays so while it is ready.
LEMMA ContractStep ==
  ASSUME TypeOK, TypeOK', NEW g \in Handles, UNCHANGED events,
         \A h \in Handles \ {g} : /\ ContractRegistered'[h] = ContractRegistered[h]
                                  /\ ReadyAt(h)' <=> ReadyAt(h)
                                  /\ DueAt(h)' <=> DueAt(h),
         DueAt(g)' => DueAt(g) \/ ReadyAt(g)',
         DueAt(g) /\ ReadyAt(g)' => DueAt(g)'
  PROVE  Contract!Next
<1> DEFINE R == {h \in Handles : ReadyAt(h)}
           D == {h \in Handles : DueAt(h)}
<1>1. ContractReady = R \X {"edge"} /\ ContractDue = D \X {"edge"}
  BY Zenon, ContractSets DEF TypeOK
<1>2. ContractReady' = R' \X {"edge"} /\ ContractDue' = D' \X {"edge"}
  BY Zenon, ContractSetsNext
<1>3. \A h : h # g => (h \in R <=> h \in R') /\ (h \in D <=> h \in D')
  BY Zenon
<1>4. g \in D' => g \in D \/ g \in R'
  BY Zenon
<1>5. g \in D /\ g \in R' => g \in D'
  BY Zenon
<1>6. ContractRegistered' = [ContractRegistered EXCEPT ![g] = ContractRegistered'[g]]
  <2>1. PICK f : f = ContractRegistered /\ f = [h \in Handles |-> f[h]]
    BY ContractSets
  <2>2. PICK e : e = ContractRegistered' /\ e = [h \in Handles |-> e[h]]
    BY Zenon DEF ContractRegistered
  <2>3. \A h \in Handles \ {g} : e[h] = f[h]
    BY <2>1, <2>2
  <2>4. e = [f EXCEPT ![g] = e[g]]
    BY ONLY <2>1, <2>2, <2>3
  <2> QED
    BY <2>1, <2>2, <2>4
<1>7. ContractRegistered'[g] = NoReg => g \notin R' /\ g \notin D'
  BY Zenon DEF ReadyAt, DueAt
<1>8. ContractRegistered'[g] # NoReg => ContractRegistered'[g] \in Contract!Entry
  <2>1. (TypeOK => \A h \in Handles :
                     /\ ContractRegistered[h] # NoReg => ContractRegistered[h] \in Contract!Entry
                     /\ ContractRegistered[h] # NoReg <=> registrations_[h] # NoReg /\ ~Adding(h))'
    BY ContractEntry, PTL
  <2> QED
    BY Zenon, <2>1 DEF Contract!Entry
<1> HIDE DEF R, D
<1>9. Contract!OnlyOf(g)
  <2>1. (R' \X {"edge"}) \ ({g} \X {"edge"}) = (R \X {"edge"}) \ ({g} \X {"edge"})
    BY Zenon, <1>3, ReportSets
  <2>2. (D' \X {"edge"}) \ ({g} \X {"edge"}) = (D \X {"edge"}) \ ({g} \X {"edge"})
    BY Zenon, <1>3, ReportSets
  <2> QED
    BY Zenon, <1>1, <1>2, <2>1, <2>2 DEF Contract!OnlyOf, Contract!Of
<1>10. Contract!Follows(g)
  <2>1. D' \X {"edge"} \subseteq (D \X {"edge"}) \cup (R' \X {"edge"})
    BY Zenon, <1>3, <1>4
  <2>2. (D \X {"edge"}) \cap (R' \X {"edge"}) \subseteq D' \X {"edge"}
    BY Zenon, <1>3, <1>5
  <2> QED
    BY Zenon, <1>1, <1>2, <1>9, <2>1, <2>2 DEF Contract!Follows
<1>11. CASE ContractRegistered'[g] = NoReg
  <2>1. R' \X {"edge"} = (R \X {"edge"}) \ ({g} \X {"edge"})
    BY Zenon, <1>3, <1>7, <1>11
  <2>2. D' \X {"edge"} = (D \X {"edge"}) \ ({g} \X {"edge"})
    BY Zenon, <1>3, <1>7, <1>11
  <2>3. Contract!Deregister(g)
    BY Zenon, <1>1, <1>2, <1>6, <1>11, <2>1, <2>2 DEF Contract!Deregister, Contract!Of
  <2> QED
    BY Zenon, <2>3 DEF Contract!Next
<1>12. CASE ContractRegistered'[g] # NoReg
  <2>1. Contract!Set(g, ContractRegistered'[g])
    BY Zenon, <1>6, <1>10 DEF Contract!Set
  <2>2. PICK entry \in Contract!Entry : entry = ContractRegistered'[g]
    BY Zenon, <1>8, <1>12
  <2>3. Contract!Register(g, entry) \/ Contract!Reregister(g, entry)
    BY Zenon, <2>1, <2>2 DEF Contract!Register, Contract!Reregister
  <2> QED
    BY Zenon, <2>3 DEF Contract!Next
<1> QED
  BY Zenon, <1>11, <1>12


\* What a step about g leaves alone.
Elsewhere(g) ==
  /\ raw' = raw /\ events' = events
  /\ \A h \in Handles \ {g} :
       /\ registrations_'[h] = registrations_[h]
       /\ mask'[h] = mask[h] /\ Level(h)' = Level(h)
       /\ h \in unseen' <=> h \in unseen
  /\ \A t \in Threads :
       \/ op'[t] = op[t]
       \/ op[t].handle \in {g, NoHandle} /\ op'[t].handle \in {g, NoHandle}

LEMMA ContractElsewhere ==
  ASSUME TypeOK, TypeOK', NEW g \in Handles, Elsewhere(g), NEW h \in Handles \ {g}
  PROVE  /\ ContractRegistered'[h] = ContractRegistered[h]
         /\ ReadyAt(h)' <=> ReadyAt(h)
         /\ DueAt(h)' <=> DueAt(h)
<1>1. /\ registrations_'[h] = registrations_[h]
      /\ mask'[h] = mask[h] /\ Level(h)' = Level(h)
      /\ h \in unseen' <=> h \in unseen
      /\ raw' = raw
  BY Zenon DEF Elsewhere
<1>2. \A t \in Threads : op'[t] = op[t] \/ (op[t].handle # h /\ op'[t].handle # h)
  BY Zenon, NoHandleAssumption DEF Elsewhere
<1>3. Adding(h)' <=> Adding(h)
  BY Zenon, <1>2 DEF Adding
<1>4. ContractRegistered'[h] = ContractRegistered[h]
  <2>1. ContractRegistered[h] = IF registrations_[h] = NoReg \/ Adding(h) THEN NoReg
                                ELSE [token |-> registrations_[h].token,
                                      interests |-> registrations_[h].interests]
    BY Zenon DEF ContractRegistered, Adding
  <2>2. ContractRegistered'[h] = IF registrations_'[h] = NoReg \/ Adding(h)' THEN NoReg
                                 ELSE [token |-> registrations_'[h].token,
                                       interests |-> registrations_'[h].interests]
    BY Zenon DEF ContractRegistered, Adding
  <2> QED
    BY Zenon, <1>1, <1>3, <2>1, <2>2
<1>5. Meets(Level(h), mask[h])' <=> Meets(Level(h), mask[h])
  BY Zenon, <1>1 DEF Meets
<1> QED
  BY Zenon, <1>1, <1>4, <1>5 DEF ReadyAt, DueAt

\* The calls' steps that leave the handle unregistered.
LEMMA ContractGone ==
  ASSUME TypeOK, TypeOK', NEW g \in Handles, Elsewhere(g),
         registrations_'[g] = NoReg \/ Adding(g)'
  PROVE  Contract!Next
<1>1. ContractRegistered'[g] = NoReg
  BY Zenon DEF ContractRegistered, Adding
<1>2. ~ReadyAt(g)' /\ ~DueAt(g)'
  BY Zenon, <1>1 DEF ReadyAt, DueAt
<1>3. UNCHANGED events
  BY Zenon DEF Elsewhere
<1> QED
  BY Zenon, <1>2, <1>3, ContractElsewhere, ContractStep

\* The steps that leave it registered, or due to nothing.
LEMMA ContractStays ==
  ASSUME TypeOK, TypeOK', NEW g \in Handles, Elsewhere(g),
         g \in unseen' => g \in unseen \/ Meets(Level(g), mask[g])',
         g \in unseen /\ Meets(Level(g), mask[g])' => g \in unseen',
         g \in unseen /\ registrations_'[g] # NoReg /\ ~Adding(g)' =>
           registrations_[g] # NoReg /\ ~Adding(g)
  PROVE  Contract!Next
<1>1. ContractRegistered[g] # NoReg <=> registrations_[g] # NoReg /\ ~Adding(g)
  BY Zenon, ContractEntry
<1>2. ContractRegistered'[g] # NoReg => registrations_'[g] # NoReg /\ ~Adding(g)'
  BY Zenon DEF ContractRegistered, Adding
<1>3. raw' = raw /\ UNCHANGED events
  BY Zenon DEF Elsewhere
<1>4. DueAt(g)' => DueAt(g) \/ ReadyAt(g)'
  BY Zenon, <1>1, <1>2, <1>3 DEF DueAt, ReadyAt
<1>5. DueAt(g) /\ ReadyAt(g)' => DueAt(g)'
  BY Zenon DEF DueAt, ReadyAt
<1> QED
  BY Zenon, <1>3, <1>4, <1>5, ContractElsewhere, ContractStep


LEMMA CallElsewhere ==
  ASSUME "exclusive" \in Discipline, TypeOK, NEW t \in Threads, NEW h \in Handles,
         NEW step, NEW interests, NEW waker, MayCall(t, h), Call(t, step, h, interests, waker),
         UNCHANGED <<raw, events, mask, unseen>>,
         \A g \in Handles \ {h} :
           registrations_'[g] = registrations_[g] /\ Level(g)' = Level(g)
  PROVE  /\ Elsewhere(h)
         /\ ~Adding(h)
         /\ op'[t].handle = h /\ op'[t].step = step
         /\ \A u \in Threads : op'[u].handle = h => u = t
<1>1. op[t] = NoOp /\ \A u \in Threads : op[u].handle # h
  BY Zenon DEF MayCall, Keeps, InFlight
<1>2. /\ op'[t] = [step |-> step, handle |-> h, interests |-> interests, waker |-> waker]
      /\ \A u \in Threads \ {t} : op'[u] = op[u]
  BY Zenon DEF Call, TypeOK
<1>3. op'[t].handle = h /\ op'[t].step = step
  <2>1. PICK o : o = op'[t]
    BY Zenon
  <2>2. o = [step |-> step, handle |-> h, interests |-> interests, waker |-> waker]
    BY Zenon, <1>2, <2>1
  <2>3. o.step = step /\ o.handle = h
    BY Zenon, <2>2
  <2> QED
    BY Zenon, <2>1, <2>3
<1>4. Elsewhere(h)
  BY Zenon, <1>1, <1>2, <1>3, RestingOp DEF Elsewhere
<1>5. ~Adding(h) /\ \A u \in Threads : op'[u].handle = h => u = t
  BY Zenon, <1>1, <1>2 DEF Adding
<1> QED
  BY Zenon, <1>3, <1>4, <1>5

\* The critical sections that start a call.
LEMMA CallContract ==
  ASSUME "exclusive" \in Discipline, CallsInv, TypeOK', NEW t \in Threads, RegistryCall(t)
  PROVE  Contract!Next
<1> USE DEF pollVars, fileVars, epollVars
<1>0. TypeOK /\ registrations_ \in [Handles -> Registration \cup {NoReg}]
  BY Zenon DEF CallsInv, TypeOK
<1>1. ASSUME NEW h \in Handles, NEW token \in Tokens, NEW interests \in InterestSets,
             AddEmplace(t, h, token, interests)
      PROVE  Contract!Next
  <2>1. /\ MayCall(t, h) /\ Call(t, "add_ctl", h, interests, FALSE)
        /\ UNCHANGED <<raw, events, mask, unseen, open, level, count>>
    BY Zenon, <1>1 DEF AddEmplace, MayCallOn
  <2>2. \A g \in Handles \ {h} : registrations_'[g] = registrations_[g] /\ Level(g)' = Level(g)
    BY Zenon, <1>0, <1>1, <2>1 DEF AddEmplace, Emplace, Level, When
  <2>3. Elsewhere(h) /\ op'[t].handle = h /\ op'[t].step = "add_ctl"
    BY Zenon, <1>0, <2>1, <2>2, CallElsewhere
  <2>4. Adding(h)'
    BY Zenon, <2>3 DEF Adding
  <2> QED
    BY Zenon, <1>0, <2>3, <2>4, ContractGone
<1>2. ASSUME NEW h \in Handles, NEW token \in Tokens, NEW interests \in InterestSets,
             UpdateMap(t, h, token, interests)
      PROVE  Contract!Next
  <2>1. /\ MayCall(t, h) /\ Call(t, "update_ctl", h, interests, FALSE)
        /\ UNCHANGED <<raw, events, mask, unseen, open, level, count>>
        /\ registrations_[h] # NoReg
    BY Zenon, <1>2 DEF UpdateMap, MayCallOn
  <2>2. \A g \in Handles \ {h} : registrations_'[g] = registrations_[g] /\ Level(g)' = Level(g)
    BY Zenon, <1>0, <1>2, <2>1 DEF UpdateMap, Level, When
  <2>3. Elsewhere(h) /\ ~Adding(h)
    BY Zenon, <1>0, <2>1, <2>2, CallElsewhere
  <2> QED
    BY Zenon, <1>0, <2>1, <2>3, ContractStays
<1>3. ASSUME NEW h \in Handles, RemoveErase(t, h)
      PROVE  Contract!Next
  <2>1. /\ MayCall(t, h) /\ Call(t, "remove_ctl", h, {}, FALSE)
        /\ UNCHANGED <<raw, events, mask, unseen, open, level, count>>
    BY Zenon, <1>3 DEF RemoveErase, MayCallOn
  <2>2. /\ registrations_'[h] = NoReg
        /\ \A g \in Handles \ {h} : registrations_'[g] = registrations_[g] /\ Level(g)' = Level(g)
    BY Zenon, <1>0, <1>3, <2>1 DEF RemoveErase, Level, When
  <2>3. Elsewhere(h)
    BY Zenon, <1>0, <2>1, <2>2, CallElsewhere
  <2> QED
    BY Zenon, <1>0, <2>2, <2>3, ContractGone
<1>4. ASSUME NEW h \in Handles, NEW token \in Tokens, WakerNew(t, h, token)
      PROVE  Contract!Next
  <2>1. /\ MayCall(t, h) /\ OpenFile(h, "eventfd")
        /\ UNCHANGED <<raw, events, mask, unseen>>
    BY Zenon, <1>4 DEF WakerNew
  <2>2. \A g \in Handles \ {h} : Level(g)' = Level(g)
    <3>1. \A g \in Handles \ {h} : open'[g] = open[g] /\ level'[g] = level[g] /\ count'[g] = count[g]
      BY Zenon, <1>0, <2>1 DEF OpenFile, TypeOK
    <3> QED
      BY Zenon, <3>1 DEF Level, When
  <2>3. h \notin unseen
    BY Zenon, <2>1, WatchedOpen DEF OpenFile
  <2>4. CASE /\ registrations_[h] = NoReg
             /\ Emplace(h, token, {"READABLE"}, TRUE, gen[h] + 1)
             /\ Call(t, "add_ctl", h, {"READABLE"}, TRUE)
    <3>1. \A g \in Handles \ {h} : registrations_'[g] = registrations_[g] /\ Level(g)' = Level(g)
      BY Zenon, <1>0, <2>2, <2>4 DEF Emplace
    <3>2. Elsewhere(h) /\ op'[t].handle = h /\ op'[t].step = "add_ctl"
      BY Zenon, <1>0, <2>1, <2>4, <3>1, CallElsewhere
    <3>3. Adding(h)'
      BY Zenon, <3>2 DEF Adding
    <3> QED
      BY Zenon, <1>0, <3>2, <3>3, ContractGone
  <2>5. CASE Call(t, "waker_close", h, {}, TRUE) /\ UNCHANGED registrations_
    <3>1. \A g \in Handles \ {h} : registrations_'[g] = registrations_[g] /\ Level(g)' = Level(g)
      BY Zenon, <2>2, <2>5
    <3>2. Elsewhere(h)
      BY Zenon, <1>0, <2>1, <2>5, <3>1, CallElsewhere
    <3> QED
      BY Zenon, <1>0, <2>1, <2>3, <3>2, ContractStays
  <2> QED
    BY Zenon, <1>4, <2>4, <2>5 DEF WakerNew
<1>5. ASSUME NEW h \in Handles, WakerDrop(t, h)
      PROVE  Contract!Next
  <2>1. PICK step : Call(t, step, h, {}, TRUE)
    BY Zenon, <1>5 DEF WakerDrop
  <2>2. MayCall(t, h) /\ UNCHANGED <<raw, events, mask, unseen, open, level, count>>
    BY Zenon, <1>5 DEF WakerDrop
  <2>3. /\ registrations_'[h] = NoReg
        /\ \A g \in Handles \ {h} : registrations_'[g] = registrations_[g] /\ Level(g)' = Level(g)
    BY Zenon, <1>0, <1>5, <2>2 DEF WakerDrop, Level, When
  <2>4. Elsewhere(h)
    BY Zenon, <1>0, <2>1, <2>2, <2>3, CallElsewhere
  <2> QED
    BY Zenon, <1>0, <2>3, <2>4, ContractGone
<1> QED
  BY Zenon, <1>1, <1>2, <1>3, <1>4, <1>5 DEF RegistryCall

\* A step of a call in progress has the handle to itself.
LEMMA FinishElsewhere ==
  ASSUME CallsInv, NEW t \in Threads, NEW h \in Handles, op[t].handle = h,
         \A u \in Threads \ {t} : op'[u] = op[u],
         op'[t].handle \in {h, NoHandle},
         UNCHANGED <<raw, events>>,
         \A g \in Handles \ {h} :
           /\ registrations_'[g] = registrations_[g]
           /\ mask'[g] = mask[g] /\ Level(g)' = Level(g)
           /\ g \in unseen' <=> g \in unseen
  PROVE  Elsewhere(h)
<1>1. \A u \in Threads :
        \/ op'[u] = op[u]
        \/ op[u].handle \in {h, NoHandle} /\ op'[u].handle \in {h, NoHandle}
  BY Zenon
<1> QED
  BY Zenon, <1>1 DEF Elsewhere

\* The steps after the first critical section.
LEMMA FinishContract ==
  ASSUME CallsInv, TypeOK', NEW t \in Threads, RegistryStep(t)
  PROVE  Contract!Next
<1> USE DEF pollVars, fileVars, epollVars
<1>0. /\ TypeOK /\ registrations_ \in [Handles -> Registration \cup {NoReg}]
      /\ op \in [Threads -> Op \cup {NoOp}]
  BY Zenon DEF CallsInv, TypeOK
<1>1. op[t].step \in Steps
  BY Zenon DEF RegistryStep, AddCtl, AddCtlFails, AddUndo, UpdateCtl, RemoveCtl, WakerClose, At, Steps
<1>2. op[t] \in Op
  BY <1>0, <1>1 DEF NoOp, Steps
<1>3. PICK h \in Handles : op[t].handle = h
  BY <1>2 DEF Op
<1>4. /\ EntryAt(op[t].step, op[t].interests, h)
      /\ \A u \in Threads : op[u].handle = h => u = t
  BY Zenon, <1>3, CallPhase
<1>5. ASSUME UNCHANGED <<open, level, count>>
      PROVE  \A g \in Handles : Level(g)' = Level(g)
  BY Zenon, <1>5 DEF Level, When
<1>6. ASSUME Return(t)
      PROVE  (\A u \in Threads \ {t} : op'[u] = op[u]) /\ op'[t].handle = NoHandle
  BY Zenon, <1>0, <1>6, RestingOp DEF Return
<1>7. ASSUME NEW step, WakerThen(t, step)
      PROVE  (\A u \in Threads \ {t} : op'[u] = op[u]) /\ op'[t].handle \in {h, NoHandle}
  <2>1. \/ op' = [op EXCEPT ![t] = NoOp]
        \/ op' = [op EXCEPT ![t] = [op[t] EXCEPT !.step = step]]
    BY Zenon, <1>7 DEF WakerThen
  <2>2. [op[t] EXCEPT !.step = step].handle = h
    BY <1>2, <1>3 DEF Op
  <2> QED
    BY Zenon, <1>0, <2>1, <2>2, RestingOp
<1>8. CASE AddCtl(t)
  <2>1. /\ op[t].step = "add_ctl" /\ Return(t) /\ SetMask(h, to_epoll_events(op[t].interests))
        /\ UNCHANGED <<registrations_, raw, events, open, level, count>>
    BY Zenon, <1>3, <1>8 DEF AddCtl, At
  <2>2. mask[h] = {} /\ h \notin unseen
    BY Zenon, <1>4, <2>1, WatchedOpen DEF EntryAt
  <2>3. \A g \in Handles \ {h} : mask'[g] = mask[g] /\ (g \in unseen' <=> g \in unseen)
    BY Zenon, <1>0, <2>1 DEF SetMask, TypeOK
  <2>4. Elsewhere(h)
    BY Zenon, <1>3, <1>5, <1>6, <2>1, <2>3, FinishElsewhere
  <2>5. h \in unseen' => Meets(Level(h), mask[h])'
    <3>1. mask'[h] = to_epoll_events(op[t].interests) /\ Level(h)' = Level(h)
      BY Zenon, <1>0, <1>5, <2>1 DEF SetMask, TypeOK
    <3> QED
      BY Zenon, <2>1, <2>2, <3>1 DEF SetMask, Meets
  <2> QED
    BY Zenon, <1>0, <2>2, <2>4, <2>5, ContractStays
<1>9. CASE AddCtlFails(t)
  <2>1. /\ op' = [op EXCEPT ![t].step = "add_undo"]
        /\ UNCHANGED <<registrations_, raw, events, mask, unseen, open, level, count>>
    BY Zenon, <1>9 DEF AddCtlFails
  <2>2. op'[t].handle = h /\ op'[t].step = "add_undo" /\ \A u \in Threads \ {t} : op'[u] = op[u]
    BY <1>0, <1>2, <1>3, <2>1 DEF Op
  <2>3. Elsewhere(h)
    BY Zenon, <1>3, <1>5, <2>1, <2>2, FinishElsewhere
  <2>4. Adding(h)'
    BY Zenon, <2>2 DEF Adding
  <2> QED
    BY Zenon, <1>0, <2>3, <2>4, ContractGone
<1>10. CASE AddUndo(t)
  <2>1. /\ registrations_' = [registrations_ EXCEPT ![h] = NoReg] /\ WakerThen(t, "waker_close")
        /\ UNCHANGED <<raw, events, mask, unseen, open, level, count>>
    BY Zenon, <1>3, <1>10 DEF AddUndo
  <2>2. registrations_'[h] = NoReg /\ \A g \in Handles \ {h} : registrations_'[g] = registrations_[g]
    BY Zenon, <1>0, <2>1
  <2>3. Elsewhere(h)
    BY Zenon, <1>3, <1>5, <1>7, <2>1, <2>2, FinishElsewhere
  <2> QED
    BY Zenon, <1>0, <2>2, <2>3, ContractGone
<1>11. CASE UpdateCtl(t)
  <2>1. /\ op[t].step = "update_ctl" /\ Return(t)
        /\ \/ SetMask(h, to_epoll_events(op[t].interests))
           \/ UNCHANGED <<mask, ready, unseen>>
        /\ UNCHANGED <<registrations_, raw, events, open, level, count>>
    BY Zenon, <1>3, <1>11 DEF UpdateCtl, At
  <2>2. registrations_[h] # NoReg /\ ~Adding(h)
    BY Zenon, <1>3, <1>4, <2>1 DEF EntryAt, Adding
  <2>3. \A g \in Handles \ {h} : mask'[g] = mask[g] /\ (g \in unseen' <=> g \in unseen)
    BY Zenon, <1>0, <2>1 DEF SetMask, TypeOK
  <2>4. Elsewhere(h)
    BY Zenon, <1>3, <1>5, <1>6, <2>1, <2>3, FinishElsewhere
  <2>5. /\ h \in unseen' => h \in unseen \/ Meets(Level(h), mask[h])'
        /\ h \in unseen => h \in unseen'
    <3>1. CASE SetMask(h, to_epoll_events(op[t].interests))
      <4>1. mask'[h] = to_epoll_events(op[t].interests) /\ Level(h)' = Level(h)
        BY Zenon, <1>0, <1>5, <2>1, <3>1 DEF SetMask, TypeOK
      <4> QED
        BY Zenon, <3>1, <4>1 DEF SetMask, Meets
    <3> QED
      BY Zenon, <2>1, <3>1
  <2> QED
    BY Zenon, <1>0, <2>2, <2>4, <2>5, ContractStays
<1>12. CASE RemoveCtl(t)
  <2>1. /\ op[t].step = "remove_ctl" /\ DropMask(h) /\ WakerThen(t, "waker_close")
        /\ UNCHANGED <<registrations_, raw, events, open, level, count>>
    BY Zenon, <1>3, <1>12 DEF RemoveCtl, At
  <2>2. registrations_'[h] = NoReg
    BY Zenon, <1>4, <2>1 DEF EntryAt
  <2>3. \A g \in Handles \ {h} : mask'[g] = mask[g] /\ (g \in unseen' <=> g \in unseen)
    BY Zenon, <1>0, <2>1 DEF DropMask, TypeOK
  <2>4. Elsewhere(h)
    BY Zenon, <1>3, <1>5, <1>7, <2>1, <2>3, FinishElsewhere
  <2> QED
    BY Zenon, <1>0, <2>2, <2>4, ContractGone
<1>13. CASE WakerClose(t)
  <2>1. /\ op[t].step = "waker_close" /\ CloseFile(h) /\ Return(t)
        /\ UNCHANGED <<registrations_, raw, events>>
    BY Zenon, <1>3, <1>13 DEF WakerClose, At
  <2>2. h \notin unseen /\ h \notin unseen'
    BY Zenon, <1>4, <2>1, WatchedOpen DEF EntryAt, CloseFile, DropMask
  <2>3. \A g \in Handles \ {h} : /\ mask'[g] = mask[g] /\ (g \in unseen' <=> g \in unseen)
                                 /\ open'[g] = open[g] /\ level'[g] = level[g] /\ count'[g] = count[g]
    BY Zenon, <1>0, <2>1 DEF CloseFile, DropMask, TypeOK
  <2>4. \A g \in Handles \ {h} : Level(g)' = Level(g)
    BY Zenon, <2>3 DEF Level, When
  <2>5. Elsewhere(h)
    BY Zenon, <1>3, <1>6, <2>1, <2>3, <2>4, FinishElsewhere
  <2> QED
    BY Zenon, <1>0, <2>2, <2>5, ContractStays
<1> QED
  BY Zenon, <1>8, <1>9, <1>10, <1>11, <1>12, <1>13 DEF RegistryStep

\* Files are opened and closed, become ready, and cease to be.
LEMMA EnvironmentContract ==
  ASSUME CallsInv, TypeOK', Environment
  PROVE  Contract!Next
<1> USE DEF callVars, pollVars, fileVars, epollVars
<1>0. /\ TypeOK /\ open \in [Handles -> {"closed", "source", "eventfd"}]
      /\ level \in [Handles -> SUBSET EpollFlags] /\ count \in [Handles -> 0..MaxCount]
      /\ mask \in [Handles -> SUBSET EpollFlags]
  BY Zenon DEF CallsInv, TypeOK
<1>1. ASSUME NEW h \in Handles, UNCHANGED <<registrations_, op, raw, events>>,
             \A g \in Handles \ {h} :
               /\ mask'[g] = mask[g] /\ (g \in unseen' <=> g \in unseen)
               /\ open'[g] = open[g] /\ level'[g] = level[g] /\ count'[g] = count[g],
             h \in unseen' => h \in unseen \/ Meets(Level(h), mask[h])',
             h \in unseen /\ Meets(Level(h), mask[h])' => h \in unseen'
      PROVE  Contract!Next
  <2>1. \A g \in Handles \ {h} : Level(g)' = Level(g)
    BY Zenon, <1>1 DEF Level, When
  <2>2. Elsewhere(h)
    BY Zenon, <1>1, <2>1 DEF Elsewhere
  <2>3. registrations_'[h] # NoReg /\ ~Adding(h)' => registrations_[h] # NoReg /\ ~Adding(h)
    BY Zenon, <1>1 DEF Adding
  <2> QED
    BY Zenon, <1>0, <1>1, <2>2, <2>3, ContractStays
<1>2. ASSUME NEW h \in Handles, OpenSource(h) PROVE Contract!Next
  <2>1. /\ open[h] = "closed" /\ UNCHANGED <<registrations_, op, raw, events, mask, unseen>>
        /\ \A g \in Handles \ {h} : open'[g] = open[g] /\ level'[g] = level[g] /\ count'[g] = count[g]
    BY Zenon, <1>0, <1>2 DEF OpenSource, OpenFile
  <2>2. h \notin unseen
    BY Zenon, <2>1, WatchedOpen
  <2> QED
    BY Zenon, <1>1, <2>1, <2>2
<1>3. ASSUME NEW h \in Handles, CloseSource(h) PROVE Contract!Next
  <2>1. /\ UNCHANGED <<registrations_, op, raw, events>> /\ h \notin unseen' /\ mask'[h] = {}
        /\ \A g \in Handles \ {h} :
             /\ mask'[g] = mask[g] /\ (g \in unseen' <=> g \in unseen)
             /\ open'[g] = open[g] /\ level'[g] = level[g] /\ count'[g] = count[g]
    BY Zenon, <1>0, <1>3 DEF CloseSource, CloseFile, DropMask
  <2>2. ~Meets(Level(h), mask[h])'
    BY Zenon, <2>1 DEF Meets
  <2> QED
    BY Zenon, <1>1, <2>1, <2>2
<1>4. ASSUME NEW h \in Handles, NEW flag, Edge(h, flag), flag \in Level(h)',
             UNCHANGED <<registrations_, op, raw, events>>,
             \A g \in Handles \ {h} :
               open'[g] = open[g] /\ level'[g] = level[g] /\ count'[g] = count[g]
      PROVE  Contract!Next
  <2>1. /\ h \in unseen => h \in unseen'
        /\ h \in unseen' => h \in unseen \/ flag \in mask'[h]
        /\ \A g \in Handles \ {h} : mask'[g] = mask[g] /\ (g \in unseen' <=> g \in unseen)
    BY Zenon, <1>4 DEF Edge
  <2>2. flag \in mask'[h] => Meets(Level(h), mask[h])'
    BY Zenon, <1>4 DEF Meets
  <2> QED
    BY Zenon, <1>1, <1>4, <2>1, <2>2
<1>5. ASSUME NEW h \in Handles, Wake(h) PROVE Contract!Next
  <2>1. /\ open[h] = "eventfd" /\ UNCHANGED <<registrations_, op, raw, events, open, level>>
    BY Zenon, <1>5 DEF Wake, WakerAlive
  <2>2. CASE count' = [count EXCEPT ![h] = @ + 1] /\ Edge(h, "IN")
    <3>1. count'[h] = count[h] + 1 /\ count[h] \in 0..MaxCount
      BY Zenon, <1>0, <2>2
    <3>2. count'[h] > 0
      BY <3>1, BoundsAssumption
    <3>3. "IN" \in Level(h)'
      BY <2>1, <3>2 DEF Level, When
    <3>4. \A g \in Handles \ {h} : count'[g] = count[g]
      BY Zenon, <1>0, <2>2
    <3> QED
      BY Zenon, <1>4, <2>1, <2>2, <3>3, <3>4
  <2>3. CASE UNCHANGED <<count, mask, ready, unseen>>
    BY Zenon, <1>1, <2>1, <2>3
  <2> QED
    BY Zenon, <1>5, <2>2, <2>3 DEF Wake
<1>6. ASSUME NEW h \in Handles, NEW flag \in Conditions, Arise(h, flag) PROVE Contract!Next
  <2>1. /\ open[h] = "source" /\ Edge(h, flag) /\ level' = [level EXCEPT ![h] = @ \cup {flag}]
        /\ UNCHANGED <<registrations_, op, raw, events, open, count>>
    BY Zenon, <1>6 DEF Arise
  <2>2. level'[h] = level[h] \cup {flag} /\ \A g \in Handles \ {h} : level'[g] = level[g]
    BY Zenon, <1>0, <2>1
  <2>3. flag \in Level(h)'
    BY <2>1, <2>2 DEF Level
  <2> QED
    BY Zenon, <1>4, <2>1, <2>2, <2>3
<1>7. ASSUME NEW h \in Handles, NEW flag \in Conditions, Cease(h, flag) PROVE Contract!Next
  <2>1. /\ level' = [level EXCEPT ![h] = @ \ {flag}]
        /\ UNCHANGED <<registrations_, op, raw, events, open, count, mask, unseen>>
    BY Zenon, <1>7 DEF Cease
  <2>2. \A g \in Handles \ {h} : level'[g] = level[g]
    BY Zenon, <1>0, <2>1
  <2> QED
    BY Zenon, <1>1, <2>1, <2>2
<1> QED
  BY Zenon, <1>2, <1>3, <1>5, <1>6, <1>7 DEF Environment

\* What the polling thread leaves alone.
LEMMA ContractSame ==
  ASSUME TypeOK, TypeOK', UNCHANGED <<registrations_, op>>,
         \A h \in Handles : Meets(Level(h), mask[h])' <=> Meets(Level(h), mask[h])
  PROVE  /\ ContractRegistered' = ContractRegistered
         /\ ContractReady' = ContractReady
         /\ (\A h \in Handles : DueAt(h)' <=> DueAt(h)) => ContractDue' = ContractDue
<1>1. ContractRegistered' = ContractRegistered
  BY Zenon DEF ContractRegistered
<1>2. \A h \in Handles : ReadyAt(h)' <=> ReadyAt(h)
  BY Zenon, <1>1 DEF ReadyAt
<1>3. ContractReady' = ContractReady
  <2>1. {h \in Handles : ReadyAt(h)}' = {h \in Handles : ReadyAt(h)}
    BY Zenon, <1>2
  <2>2. ContractReady = {h \in Handles : ReadyAt(h)} \X {"edge"}
    BY Zenon, ContractSets
  <2>3. ContractReady' = {h \in Handles : ReadyAt(h)}' \X {"edge"}
    BY Zenon DEF ContractReady, ReadyAt
  <2> QED
    BY Zenon, <2>1, <2>2, <2>3
<1>4. ASSUME \A h \in Handles : DueAt(h)' <=> DueAt(h) PROVE ContractDue' = ContractDue
  <2>1. {h \in Handles : DueAt(h)}' = {h \in Handles : DueAt(h)}
    BY Zenon, <1>4
  <2>2. ContractDue = {h \in Handles : DueAt(h)} \X {"edge"}
    BY Zenon, ContractSets DEF TypeOK
  <2>3. ContractDue' = {h \in Handles : DueAt(h)}' \X {"edge"}
    BY Zenon, ContractSetsNext
  <2> QED
    BY Zenon, <2>1, <2>2, <2>3
<1> QED
  BY Zenon, <1>1, <1>3, <1>4

\* select_epoll: find() and push are the report; an Event of a handle that is not
\* due is late.
LEMMA DispatchContract ==
  ASSUME CallsInv, TypeOK', NEW r \in raw, Dispatch(r)
  PROVE  Contract!Next
<1>0. TypeOK /\ unseen \subseteq Handles
  BY Zenon DEF CallsInv, TypeOK
<1>1. PICK h \in Handles : r.handle = h
  BY Zenon, <1>0 DEF TypeOK, RawEvent
<1>2. /\ raw' = raw \ {r} /\ events' = events \cup {Push(r)} /\ unseen' = unseen \ {h}
      /\ UNCHANGED <<registrations_, op, open, level, count, mask>>
  BY Zenon, <1>1 DEF Dispatch, callVars, fileVars, epollVars
<1>3. \A g \in Handles : Meets(Level(g), mask[g])' <=> Meets(Level(g), mask[g])
  BY Zenon, <1>2 DEF Meets, Level, When
<1>4. ContractRegistered' = ContractRegistered /\ ContractReady' = ContractReady
  BY Zenon, <1>0, <1>2, <1>3, ContractSame
<1>5. ~DueAt(h)'
  BY Zenon, <1>2 DEF DueAt
<1>6. \A g \in Handles \ {h} : DueAt(g)' <=> DueAt(g)
  <2>1. \A g \in Handles \ {h} : (\E x \in raw' : x.handle = g) <=> (\E x \in raw : x.handle = g)
    BY Zenon, <1>1, <1>2
  <2>2. \A g \in Handles \ {h} : g \in unseen' <=> g \in unseen
    BY Zenon, <1>2
  <2> QED
    BY Zenon, <1>3, <1>4, <2>1, <2>2 DEF DueAt
<1>7. {e.handle : e \in events}' = {e.handle : e \in events} \cup {h}
  <2>1. Push(r).handle = h
    BY Zenon, <1>1 DEF Push
  <2> QED
    BY Zenon, <1>2, <2>1
<1>8. CASE DueAt(h)
  <2>1. ContractDue = {g \in Handles : DueAt(g)} \X {"edge"}
    BY Zenon, <1>0, ContractSets
  <2>2. ContractDue' = {g \in Handles : DueAt(g)}' \X {"edge"}
    BY Zenon, ContractSetsNext
  <2>3. {g \in Handles : DueAt(g)}' = {g \in Handles : DueAt(g)} \ {h}
    BY <1>5, <1>6
  <2>4. PICK D : D = {g \in Handles : DueAt(g)}
    BY Zenon
  <2>5. h \in D
    BY <1>8, <2>4
  <2>6. ContractDue = D \X {"edge"} /\ ContractDue' = (D \ {h}) \X {"edge"}
    BY Zenon, <2>1, <2>2, <2>3, <2>4
  <2>7. ContractDue' = ContractDue \ {<<h, "edge">>} /\ <<h, "edge">> \in ContractDue
    BY ONLY <2>5, <2>6
  <2>8. {<<h, "edge">>} \in SUBSET (ContractDue \cap ({h} \X {"edge"}))
    BY <2>7
  <2>9. Contract!Report(h, "edge")
    BY Zenon, <1>4, <1>7, <2>7, <2>8 DEF Contract!Report, Contract!Of
  <2> QED
    BY <2>9 DEF Contract!Next
<1>9. CASE ~DueAt(h)
  <2>1. ContractDue' = ContractDue
    BY Zenon, <1>0, <1>2, <1>3, <1>5, <1>6, <1>9, ContractSame
  <2>2. Contract!Late(h)
    BY Zenon, <1>4, <1>7, <2>1 DEF Contract!Late
  <2> QED
    BY <2>2 DEF Contract!Next
<1> QED
  BY <1>8, <1>9

LEMMA SelectContract ==
  ASSUME CallsInv, TypeOK', Select
  PROVE  [Contract!Next]_(Contract!vars)
<1> USE DEF callVars, pollVars, fileVars, epollVars
<1>0. /\ TypeOK /\ RawInv /\ unseen \subseteq Handles
      /\ level \in [Handles -> SUBSET EpollFlags] /\ count \in [Handles -> 0..MaxCount]
  BY Zenon, CallsInvByHandle DEF CallsInv, TypeOK
<1>1. ASSUME UNCHANGED <<registrations_, op, open, level, count, mask>>,
             \A h \in Handles : DueAt(h)' <=> DueAt(h)
      PROVE  UNCHANGED <<ContractRegistered, ContractReady, ContractDue>>
  <2>1. \A h \in Handles : Meets(Level(h), mask[h])' <=> Meets(Level(h), mask[h])
    BY Zenon, <1>1 DEF Meets, Level, When
  <2> QED
    BY Zenon, <1>0, <1>1, <2>1, ContractSame
<1>2. ASSUME UNCHANGED <<registrations_, op, open, level, count, mask, unseen>>
      PROVE  /\ \A h \in Handles : ContractRegistered'[h] = ContractRegistered[h]
             /\ \A h \in Handles : Meets(Level(h), mask[h])' <=> Meets(Level(h), mask[h])
  <2>1. ContractRegistered' = ContractRegistered
    BY Zenon, <1>2 DEF ContractRegistered
  <2> QED
    BY Zenon, <1>2, <2>1 DEF Meets, Level, When
<1>3. CASE SelectBegin
  <2>1. /\ UNCHANGED <<registrations_, op, open, level, count, mask, unseen, raw>>
        /\ events' = {}
    BY Zenon, <1>3 DEF SelectBegin
  <2>2. \A h \in Handles : DueAt(h)' <=> DueAt(h)
    BY Zenon, <1>2, <2>1 DEF DueAt
  <2>3. {e.handle : e \in events}' = {}
    BY <2>1
  <2>4. Contract!PollEnds
    BY Zenon, <1>1, <2>1, <2>2, <2>3 DEF Contract!PollEnds
  <2> QED
    BY <2>4 DEF Contract!Next
<1>4. ASSUME UNCHANGED <<registrations_, op, open, level, count, mask, unseen, events>>,
             \A h \in Handles : DueAt(h)' <=> DueAt(h)
      PROVE  UNCHANGED Contract!vars
  <2>1. {e.handle : e \in events}' = {e.handle : e \in events}
    BY <1>4
  <2> QED
    BY Zenon, <1>1, <1>4, <2>1 DEF Contract!vars
<1>5. CASE EpollWait
  <2>1. PICK batch \in SUBSET Deliverable : raw' = {RawEventOf(h) : h \in batch}
    BY Zenon, <1>5 DEF EpollWait
  <2>2. /\ UNCHANGED <<registrations_, op, open, level, count, mask, unseen, events>>
        /\ raw = {}
    BY Zenon, <1>0, <1>5 DEF EpollWait, RawInv
  <2>3. \A r \in raw' : Meets(Level(r.handle), mask[r.handle])
    <3>1. \A h : RawEventOf(h).handle = h
      BY Zenon DEF RawEventOf
    <3> QED
      BY Zenon, <2>1, <3>1 DEF Deliverable
  <2>4. ASSUME NEW h \in Handles PROVE DueAt(h)' <=> DueAt(h)
    BY Zenon, <1>2, <2>2, <2>3 DEF DueAt
  <2> QED
    BY Zenon, <1>4, <2>2, <2>4
<1>6. CASE EpollWaitEmpty \/ SelectReturn
  <2>1. UNCHANGED <<registrations_, op, open, level, count, mask, unseen, events, raw>>
    BY Zenon, <1>6 DEF EpollWaitEmpty, SelectReturn
  <2>2. \A h \in Handles : DueAt(h)' <=> DueAt(h)
    BY Zenon, <1>2, <2>1 DEF DueAt
  <2> QED
    BY Zenon, <1>4, <2>1, <2>2
<1>7. ASSUME NEW r \in raw, DispatchUnknown(r) PROVE UNCHANGED Contract!vars
  <2>1. /\ UNCHANGED <<registrations_, op, open, level, count, mask, unseen, events>>
        /\ raw' = raw \ {r} /\ registrations_[r.handle] = NoReg
    BY Zenon, <1>7 DEF DispatchUnknown
  <2>2. ASSUME NEW h \in Handles PROVE DueAt(h)' <=> DueAt(h)
    <3>1. CASE r.handle = h
      <4>1. ContractRegistered[h] = NoReg
        BY Zenon, <1>0, <2>1, <3>1, ContractEntry
      <4> QED
        BY Zenon, <1>2, <2>1, <4>1 DEF DueAt
    <3>2. CASE r.handle # h
      <4>1. (\E x \in raw' : x.handle = h) <=> (\E x \in raw : x.handle = h)
        BY Zenon, <2>1, <3>2
      <4> QED
        BY Zenon, <1>2, <2>1, <4>1 DEF DueAt
    <3> QED
      BY <3>1, <3>2
  <2> QED
    BY Zenon, <1>4, <2>1, <2>2
<1>8. CASE Drain
  <2>1. /\ count' = [count EXCEPT ![draining] = 0]
        /\ level' = [level EXCEPT ![draining] = @ \ {"IN"}]
        /\ UNCHANGED <<registrations_, op, raw, events, open, mask, unseen>>
    BY Zenon, <1>8 DEF Drain
  <2>2. \A g \in Handles \ {draining} : Level(g)' = Level(g)
    <3>1. \A g \in Handles \ {draining} : count'[g] = count[g] /\ level'[g] = level[g]
      BY Zenon, <1>0, <2>1
    <3> QED
      BY Zenon, <2>1, <3>1 DEF Level, When
  <2>3. CASE draining \in Handles
    <3>1. PICK d \in Handles : d = draining
      BY <2>3
    <3>2. Elsewhere(d)
      BY Zenon, <2>1, <2>2, <3>1 DEF Elsewhere
    <3>3. registrations_'[d] # NoReg /\ ~Adding(d)' => registrations_[d] # NoReg /\ ~Adding(d)
      BY Zenon, <2>1 DEF Adding
    <3> QED
      BY Zenon, <1>0, <2>1, <3>2, <3>3, ContractStays
  <2>4. CASE draining \notin Handles
    <3>1. \A g \in Handles : Level(g)' = Level(g)
      BY Zenon, <2>2, <2>4
    <3>2. \A g \in Handles : Meets(Level(g), mask[g])' <=> Meets(Level(g), mask[g])
      BY Zenon, <2>1, <3>1 DEF Meets
    <3>3. ContractRegistered' = ContractRegistered
      BY Zenon, <1>0, <2>1, <3>2, ContractSame
    <3>4. \A g \in Handles : DueAt(g)' <=> DueAt(g)
      BY Zenon, <2>1, <3>2, <3>3 DEF DueAt
    <3>5. UNCHANGED <<ContractRegistered, ContractReady, ContractDue>>
      BY Zenon, <1>0, <2>1, <3>2, <3>4, ContractSame
    <3>6. {e.handle : e \in events}' = {e.handle : e \in events}
      BY <2>1
    <3> QED
      BY Zenon, <3>5, <3>6 DEF Contract!vars
  <2> QED
    BY <2>3, <2>4
<1> QED
  BY Zenon, <1>3, <1>5, <1>6, <1>7, <1>8, DispatchContract DEF Select

\* The safety part of ImplementsContract: for any number of handles, threads and
\* tokens, every step of the map, the interest list and select_epoll is a step of
\* the atomic registry of SelectorContract, provided that no two calls on one
\* handle overlap.
THEOREM ContractKept ==
  ASSUME "exclusive" \in Discipline
  PROVE  Spec => Contract!Safety
<1>1. Init => Contract!Init
  <2> SUFFICES ASSUME Init PROVE Contract!Init
    OBVIOUS
  <2>1. ContractRegistered = [h \in Handles |-> NoReg]
    BY Zenon DEF ContractRegistered, Init
  <2>2. ContractReady = {} /\ ContractDue = {}
    BY Zenon, <2>1 DEF ContractReady, ContractDue, Init
  <2>3. {e.handle : e \in events} = {}
    BY Zenon DEF Init
  <2> QED
    BY <2>1, <2>2, <2>3 DEF Contract!Init
<1>2. CallsInv /\ CallsInv' /\ [Next]_vars => [Contract!Next]_(Contract!vars)
  <2> SUFFICES ASSUME CallsInv, CallsInv', [Next]_vars PROVE [Contract!Next]_(Contract!vars)
    OBVIOUS
  <2>1. TypeOK'
    BY DEF CallsInv
  <2>2. CASE UNCHANGED vars
    <3>1. UNCHANGED <<registrations_, op, raw, events, unseen, mask, open, level, count>>
      BY <2>2 DEF vars, callVars, pollVars, fileVars, epollVars
    <3>2. ContractRegistered' = ContractRegistered
      BY Zenon, <3>1 DEF ContractRegistered
    <3>3. \A h : Level(h)' = Level(h)
      BY Zenon, <3>1 DEF Level, When
    <3>4. ContractReady' = ContractReady /\ ContractDue' = ContractDue
      BY Zenon, <3>1, <3>2, <3>3 DEF ContractReady, ContractDue, Meets
    <3>5. {e.handle : e \in events}' = {e.handle : e \in events}
      BY <3>1
    <3> QED
      BY <3>2, <3>4, <3>5 DEF Contract!vars
  <2> QED
    BY <2>1, <2>2, CallContract, FinishContract, SelectContract, EnvironmentContract DEF Next
<1>3. Spec => []CallsInv
  BY CallsSafe
<1> QED
  BY <1>1, <1>2, <1>3, PTL DEF Spec, Contract!Safety

\* A due event is never lost: a step that takes it off what is due has pushed an
\* Event of its handle, or its readiness has gone with the file or the entry.
THEOREM DueKept ==
  ASSUME "exclusive" \in Discipline
  PROVE  Spec => Contract!NothingLost
<1> DEFINE reported == {e.handle : e \in events}
           Kept == \A d \in ContractDue \ ContractDue' : d[1] \in reported' \/ d \notin ContractReady'
<1>1. Contract!Next => Kept
  <2> SUFFICES ASSUME Contract!Next, NEW d \in ContractDue \ ContractDue'
               PROVE  d[1] \in reported' \/ d \notin ContractReady'
    OBVIOUS
  <2>1. ASSUME NEW h \in Handles, Contract!Follows(h) PROVE d \notin ContractReady'
    BY <2>1 DEF Contract!Follows
  <2>2. ASSUME NEW h \in Handles, Contract!Deregister(h) PROVE d \notin ContractReady'
    BY <2>2 DEF Contract!Deregister
  <2>3. ASSUME NEW h \in Handles, NEW what \in {"edge"}, Contract!Report(h, what)
        PROVE  d[1] \in reported'
    <3>1. d \in {h} \X {"edge"} /\ reported' = reported \cup {h}
      BY <2>3 DEF Contract!Report, Contract!Of
    <3> QED
      BY <3>1
  <2>4. ContractDue' # ContractDue
    OBVIOUS
  <2> HIDE DEF reported
  <2> QED
    BY Zenon, <2>1, <2>2, <2>3, <2>4
       DEF Contract!Next, Contract!Register, Contract!Reregister, Contract!Set,
           Contract!ReadinessChanges, Contract!Late, Contract!PollEnds
<1>2. [Contract!Next]_(Contract!vars) => [Kept]_(Contract!vars)
  BY Zenon, <1>1
<1> QED
  BY <1>2, ContractKept, PTL DEF Contract!Safety, Contract!NothingLost

==============================================================================
