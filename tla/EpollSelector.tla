---------------------------- MODULE EpollSelector ----------------------------
(***************************************************************************)
(* The epoll Selector: the map registrations_ guarded by mutex_, the       *)
(* kernel's interest list, the Registry calls of several threads, the one  *)
(* thread that polls, and the Wakers.                                      *)
(*                                                                         *)
(* A Registry call is split where the code releases mutex_: the map is     *)
(* changed in one critical section, epoll_ctl runs after it, and a failed  *)
(* ADD is undone in a second critical section.  select_epoll is split at   *)
(* epoll_wait, at each find() and at each drain_descriptor().              *)
(***************************************************************************)
EXTENDS Readiness, Naturals, FiniteSets

CONSTANTS
  Handles,     \* file descriptor numbers
  Threads,     \* threads that call the Registry and own Wakers
  Tokens,
  InterestSets,\* the Interests callers use
  Conditions,  \* epoll flags that may arise on a source
  Capacity,    \* Events::capacity()
  MaxOpens,    \* bound: how often one descriptor number is opened
  MaxCount,    \* bound: the largest value of an eventfd counter (2^64 - 2)
  Discipline,  \* what the program around the library sticks to
  NoReg,       \* no registration
  NoHandle     \* invalid_native_handle

ASSUME BoundsAssumption ==
  /\ Capacity \in Nat
  /\ MaxOpens \in Nat
  /\ MaxCount \in Nat \ {0}

\* exclusive:        at most one Registry call per handle is in progress, and the
\*                   caller owns the open source it names
\* deregister_first: a source is closed only when it is not registered
\* steady_wakers:    Wakers are constructed and destroyed only between two polls
Disciplines == {"exclusive", "deregister_first", "steady_wakers"}

ASSUME DisciplineAssumption == Discipline \subseteq Disciplines

ASSUME InterestAssumption ==
  /\ InterestSets \subseteq ValidInterests
  /\ Conditions \subseteq EpollFlags \ {"ET"}

ASSUME NoHandleAssumption == NoHandle \notin Handles

VARIABLES
  registrations_,\* handle -> Registration, or NoReg
  op,            \* thread -> the Registry call in progress
  \* select_epoll
  ppc,           \* where the polling thread is
  raw,           \* epoll_events not looked at yet
  events,        \* Events of the current or last poll
  draining,      \* descriptor about to be drained, or NoHandle
  \* kernel
  open,          \* handle -> "closed", "source" or "eventfd"
  gen,           \* handle -> how often it was opened: names the open file
  level,         \* handle -> flags that hold of an open source
  count,         \* handle -> counter of an open eventfd
  mask,          \* handle -> events of its entry in the interest list, {} if none
  ready,         \* handles on the ready list
  \* history
  unseen,        \* handles with an edge that no Event has reported
  woken          \* eventfds written by a wake() that no poll has returned

callVars == <<registrations_, op>>
pollVars == <<ppc, raw, events, draining>>
fileVars == <<open, gen, level, count>>
epollVars == <<mask, ready>>
vars == <<callVars, pollVars, fileVars, epollVars, unseen, woken>>

\* What the map holds for a handle; file is history: the open file the caller
\* registered.
Registration ==
  [token : Tokens, interests : InterestSets \cup {{"READABLE"}},
   auto_drain : BOOLEAN, file : Nat]

ASSUME NoRegAssumption ==
  /\ NoReg \notin Registration
  /\ NoReg \notin [token : Tokens, interests : InterestSets \cup {{"READABLE"}}]

Steps == {"add_ctl", "add_undo", "update_ctl", "remove_ctl", "waker_close"}

Op == [step : Steps, handle : Handles, interests : SUBSET Kinds, waker : BOOLEAN]

NoOp == [step |-> "idle", handle |-> NoHandle, interests |-> {}, waker |-> FALSE]

RawEvent == [handle : Handles, flags : SUBSET EpollFlags, file : Nat]

\* An Event with, as history, its handle, the file whose readiness it reports
\* and the file its token was given for.
PushedEvent ==
  [handle : Handles, token : Tokens, readiness : SUBSET Kinds, error : BOOLEAN,
   read_closed : BOOLEAN, write_closed : BOOLEAN, file : Nat, owner : Nat]

------------------------------------------------------------------------------
\* Kernel (external).

Level(h) ==
  CASE open[h] = "source"  -> level[h]
    [] open[h] = "eventfd" -> When(count[h] > 0, {"IN"})
    [] OTHER               -> {}

Deliverable == {h \in ready : Meets(Level(h), mask[h])}

\* ADD and MOD look at the file at once and queue the entry if it is ready.
SetMask(h, events_) ==
  /\ mask' = [mask EXCEPT ![h] = events_]
  /\ ready' = IF Meets(Level(h), events_) THEN ready \cup {h} ELSE ready
  /\ unseen' = IF Meets(Level(h), events_) THEN unseen \cup {h} ELSE unseen

DropMask(h) ==
  /\ mask' = [mask EXCEPT ![h] = {}]
  /\ ready' = ready \ {h}
  /\ unseen' = unseen \ {h}

\* Something happened on h that shows as flag: an edge for a matching entry.
Edge(h, flag) ==
  /\ ready' = IF flag \in mask[h] THEN ready \cup {h} ELSE ready
  /\ unseen' = IF flag \in mask[h] THEN unseen \cup {h} ELSE unseen
  /\ UNCHANGED mask

OpenFile(h, kind) ==
  /\ open[h] = "closed"
  /\ gen[h] < MaxOpens
  /\ open' = [open EXCEPT ![h] = kind]
  /\ gen' = [gen EXCEPT ![h] = @ + 1]
  /\ level' = [level EXCEPT ![h] = {}]
  /\ count' = [count EXCEPT ![h] = 0]

\* Closing the last descriptor of a file takes it off every interest list.
CloseFile(h) ==
  /\ open' = [open EXCEPT ![h] = "closed"]
  /\ level' = [level EXCEPT ![h] = {}]
  /\ count' = [count EXCEPT ![h] = 0]
  /\ UNCHANGED gen
  /\ DropMask(h)
  /\ woken' = woken \ {h}

------------------------------------------------------------------------------
\* Who may call what, when.

InFlight(h) == \E t \in Threads : op[t].handle = h

Keeps(rule, condition) == rule \in Discipline => condition

MayCall(t, h) ==
  /\ op[t] = NoOp
  /\ Keeps("exclusive", ~InFlight(h))

MayCallOn(t, h) ==
  /\ MayCall(t, h)
  /\ Keeps("exclusive", open[h] = "source")

Call(t, step, h, interests, waker) ==
  op' = [op EXCEPT ![t] = [step |-> step, handle |-> h,
                           interests |-> interests, waker |-> waker]]

\* The call goes on at step if it serves a Waker, and returns otherwise.
WakerThen(t, step) ==
  op' = [op EXCEPT ![t] = IF @.waker THEN [@ EXCEPT !.step = step] ELSE NoOp]

Return(t) == op' = [op EXCEPT ![t] = NoOp]

At(t, step) == op[t].step = step

------------------------------------------------------------------------------
\* Sources (external).

OpenSource(h) ==
  /\ OpenFile(h, "source")
  /\ UNCHANGED <<callVars, pollVars, epollVars, unseen, woken>>

CloseSource(h) ==
  /\ open[h] = "source"
  /\ Keeps("exclusive", ~InFlight(h))
  /\ Keeps("deregister_first", registrations_[h] = NoReg)
  /\ CloseFile(h)
  /\ UNCHANGED <<callVars, pollVars>>

Arise(h, flag) ==
  /\ open[h] = "source"
  /\ level' = [level EXCEPT ![h] = @ \cup {flag}]
  /\ Edge(h, flag)
  /\ UNCHANGED <<callVars, pollVars, open, gen, count, woken>>

Cease(h, flag) ==
  /\ flag \in level[h]
  /\ level' = [level EXCEPT ![h] = @ \ {flag}]
  /\ UNCHANGED <<callVars, pollVars, open, gen, count, epollVars, unseen, woken>>

------------------------------------------------------------------------------
\* Selector::add

Emplace(h, token, interests, auto_drain, file) ==
  registrations_' =
    [registrations_ EXCEPT ![h] = [token |-> token, interests |-> interests,
                                   auto_drain |-> auto_drain, file |-> file]]

\* Variants of add, each one mistake away from the code: an empty Interest gets
\* past validate; the result of emplace is ignored; ADD comes before the map.
AddEmplace_unvalidated(t, h, token, interests) ==
  /\ MayCallOn(t, h)
  /\ registrations_[h] = NoReg
  /\ Emplace(h, token, {}, FALSE, gen[h])
  /\ Call(t, "add_ctl", h, {}, FALSE)
  /\ UNCHANGED <<pollVars, fileVars, epollVars, unseen, woken>>

AddEmplace_unchecked(t, h, token, interests) ==
  /\ MayCallOn(t, h)
  /\ IF registrations_[h] = NoReg THEN Emplace(h, token, interests, FALSE, gen[h])
                                  ELSE UNCHANGED registrations_
  /\ Call(t, "add_ctl", h, interests, FALSE)
  /\ UNCHANGED <<pollVars, fileVars, epollVars, unseen, woken>>

AddEmplace_ctl_first(t, h, token, interests) ==
  /\ MayCallOn(t, h)
  /\ registrations_[h] = NoReg
  /\ SetMask(h, to_epoll_events(interests))
  /\ Call(t, "add_ctl", h, interests, FALSE)
  /\ UNCHANGED <<registrations_, pollVars, fileVars, woken>>

AddEmplace(t, h, token, interests) ==
  /\ MayCallOn(t, h)
  /\ registrations_[h] = NoReg
  /\ Emplace(h, token, interests, FALSE, gen[h])
  /\ Call(t, "add_ctl", h, interests, FALSE)
  /\ UNCHANGED <<pollVars, fileVars, epollVars, unseen, woken>>

AddCtl(t) ==
  LET h == op[t].handle
  IN /\ At(t, "add_ctl")
     /\ open[h] # "closed"
     /\ mask[h] = {}
     /\ SetMask(h, to_epoll_events(op[t].interests))
     /\ Return(t)
     /\ UNCHANGED <<registrations_, pollVars, fileVars, woken>>

\* EBADF, EEXIST, ENOSPC or ENOMEM: the last two can strike at any time.
AddCtlFails(t) ==
  /\ At(t, "add_ctl")
  /\ op' = [op EXCEPT ![t].step = "add_undo"]
  /\ UNCHANGED <<registrations_, pollVars, fileVars, epollVars, unseen, woken>>

\* A variant of the rollback that leaves the map alone.
AddUndo_no_erase(t) ==
  /\ At(t, "add_undo")
  /\ WakerThen(t, "waker_close")
  /\ UNCHANGED <<registrations_, pollVars, fileVars, epollVars, unseen, woken>>

AddUndo(t) ==
  /\ At(t, "add_undo")
  /\ registrations_' = [registrations_ EXCEPT ![op[t].handle] = NoReg]
  /\ WakerThen(t, "waker_close")
  /\ UNCHANGED <<pollVars, fileVars, epollVars, unseen, woken>>

------------------------------------------------------------------------------
\* Selector::update

UpdateMap(t, h, token, interests) ==
  /\ MayCallOn(t, h)
  /\ registrations_[h] # NoReg
  /\ registrations_' = [registrations_ EXCEPT
                          ![h] = [@ EXCEPT !.token = token, !.interests = interests]]
  /\ Call(t, "update_ctl", h, interests, FALSE)
  /\ UNCHANGED <<pollVars, fileVars, epollVars, unseen, woken>>

\* A variant that forgets EPOLL_CTL_MOD.
UpdateCtl_no_mod(t) ==
  /\ At(t, "update_ctl")
  /\ Return(t)
  /\ UNCHANGED <<registrations_, pollVars, fileVars, epollVars, unseen, woken>>

\* ENOENT or EBADF when the kernel has no entry: the call fails, the map stays.
UpdateCtl(t) ==
  LET h == op[t].handle
  IN /\ At(t, "update_ctl")
     /\ \/ /\ mask[h] # {}
           /\ SetMask(h, to_epoll_events(op[t].interests))
        \/ /\ mask[h] = {}
           /\ UNCHANGED <<epollVars, unseen>>
     /\ Return(t)
     /\ UNCHANGED <<registrations_, pollVars, fileVars, woken>>

------------------------------------------------------------------------------
\* Selector::remove

RemoveErase(t, h) ==
  /\ MayCallOn(t, h)
  /\ registrations_[h] # NoReg
  /\ registrations_' = [registrations_ EXCEPT ![h] = NoReg]
  /\ Call(t, "remove_ctl", h, {}, FALSE)
  /\ UNCHANGED <<pollVars, fileVars, epollVars, unseen, woken>>

\* A variant that forgets EPOLL_CTL_DEL.
RemoveCtl_no_del(t) ==
  /\ At(t, "remove_ctl")
  /\ WakerThen(t, "waker_close")
  /\ UNCHANGED <<registrations_, pollVars, fileVars, epollVars, unseen, woken>>

RemoveCtl(t) ==
  /\ At(t, "remove_ctl")
  /\ DropMask(op[t].handle)
  /\ WakerThen(t, "waker_close")
  /\ UNCHANGED <<registrations_, pollVars, fileVars, woken>>

------------------------------------------------------------------------------
\* WakerState

\* The constructor: an eventfd, then add_waker.  If the map already has the
\* number, add throws and the eventfd is closed again.
WakerNew(t, h, token) ==
  /\ MayCall(t, h)
  /\ Keeps("steady_wakers", ppc = "idle")
  /\ OpenFile(h, "eventfd")
  /\ \/ /\ registrations_[h] = NoReg
        /\ Emplace(h, token, {"READABLE"}, TRUE, gen[h] + 1)
        /\ Call(t, "add_ctl", h, {"READABLE"}, TRUE)
     \/ /\ registrations_[h] # NoReg
        /\ Call(t, "waker_close", h, {}, TRUE)
        /\ UNCHANGED registrations_
  /\ UNCHANGED <<pollVars, epollVars, unseen, woken>>

\* Constructed, and not being destroyed.
WakerAlive(h) ==
  /\ open[h] = "eventfd"
  /\ \A t \in Threads : ~(op[t].handle = h /\ op[t].waker)

\* The destructor: remove_waker, which swallows the error of a failed remove;
\* the eventfd is closed last.
WakerDrop(t, h) ==
  /\ MayCall(t, h)
  /\ WakerAlive(h)
  /\ Keeps("steady_wakers", ppc = "idle")
  /\ registrations_' = [registrations_ EXCEPT ![h] = NoReg]
  /\ Call(t, IF registrations_[h] # NoReg THEN "remove_ctl" ELSE "waker_close",
          h, {}, TRUE)
  /\ UNCHANGED <<pollVars, fileVars, epollVars, unseen, woken>>

WakerClose(t) ==
  /\ At(t, "waker_close")
  /\ CloseFile(op[t].handle)
  /\ Return(t)
  /\ UNCHANGED <<registrations_, pollVars>>

\* wake(): EAGAIN from a full counter is ignored.
Wake(h) ==
  /\ WakerAlive(h)
  /\ woken' = woken \cup {h}
  /\ \/ /\ count[h] < MaxCount
        /\ count' = [count EXCEPT ![h] = @ + 1]
        /\ Edge(h, "IN")
     \/ /\ count[h] = MaxCount
        /\ UNCHANGED <<count, epollVars, unseen>>
  /\ UNCHANGED <<callVars, pollVars, open, gen, level>>

------------------------------------------------------------------------------
\* Selector::select and select_epoll

SelectBegin ==
  /\ ppc = "idle"
  /\ Keeps("steady_wakers", \A t \in Threads : ~op[t].waker)
  /\ ppc' = IF Capacity = 0 THEN "idle" ELSE "wait"
  /\ events' = {}
  /\ UNCHANGED <<callVars, raw, draining, fileVars, epollVars, unseen, woken>>

RawEventOf(h) ==
  [handle |-> h, flags |-> Level(h) \cap mask[h], file |-> gen[h]]

\* epoll_wait returns as many entries as fit and takes them off the ready list.
EpollWait ==
  /\ ppc = "wait"
  /\ \E batch \in SUBSET Deliverable :
       /\ batch # {}
       /\ Cardinality(batch) <= Capacity
       /\ batch # Deliverable => Cardinality(batch) = Capacity
       /\ raw' = {RawEventOf(h) : h \in batch}
       /\ ready' = ready \ batch
  /\ ppc' = "dispatch"
  /\ UNCHANGED <<callVars, events, draining, fileVars, mask, unseen, woken>>

\* The timeout expires or a signal interrupts the wait.
EpollWaitEmpty ==
  /\ ppc = "wait"
  /\ Deliverable = {}
  /\ ppc' = "idle"
  /\ UNCHANGED <<callVars, raw, events, draining, fileVars, epollVars, unseen, woken>>

Push(r) ==
  LET reg == registrations_[r.handle]
      e == EpollEvent(r.flags)
  IN [handle |-> r.handle, token |-> reg.token, readiness |-> e.readiness,
      error |-> e.error, read_closed |-> e.read_closed,
      write_closed |-> e.write_closed, file |-> r.file, owner |-> reg.file]

\* find() fails: the event is dropped.
DispatchUnknown(r) ==
  /\ ppc = "dispatch"
  /\ registrations_[r.handle] = NoReg
  /\ raw' = raw \ {r}
  /\ UNCHANGED <<callVars, ppc, events, draining, fileVars, epollVars, unseen, woken>>

\* Variants that drain without looking at auto_drain, and that keep a Waker's
\* event to themselves.
Dispatch_drains_all(r) ==
  /\ ppc = "dispatch"
  /\ registrations_[r.handle] # NoReg
  /\ raw' = raw \ {r}
  /\ events' = events \cup {Push(r)}
  /\ unseen' = unseen \ {r.handle}
  /\ ppc' = "drain" /\ draining' = r.handle
  /\ UNCHANGED <<callVars, fileVars, epollVars, woken>>

Dispatch_hides_waker(r) ==
  /\ ppc = "dispatch"
  /\ registrations_[r.handle] # NoReg
  /\ raw' = raw \ {r}
  /\ unseen' = unseen \ {r.handle}
  /\ IF registrations_[r.handle].auto_drain
       THEN ppc' = "drain" /\ draining' = r.handle /\ UNCHANGED events
       ELSE events' = events \cup {Push(r)} /\ UNCHANGED <<ppc, draining>>
  /\ UNCHANGED <<callVars, fileVars, epollVars, woken>>

Dispatch(r) ==
  /\ ppc = "dispatch"
  /\ registrations_[r.handle] # NoReg
  /\ raw' = raw \ {r}
  /\ events' = events \cup {Push(r)}
  /\ unseen' = unseen \ {r.handle}
  /\ IF registrations_[r.handle].auto_drain /\ "IN" \in r.flags
       THEN ppc' = "drain" /\ draining' = r.handle
       ELSE UNCHANGED <<ppc, draining>>
  /\ UNCHANGED <<callVars, fileVars, epollVars, woken>>

\* drain_descriptor reads whatever file the number names by now.
Drain ==
  /\ ppc = "drain"
  /\ count' = [count EXCEPT ![draining] = 0]
  /\ level' = [level EXCEPT ![draining] = @ \ {"IN"}]
  /\ ppc' = "dispatch"
  /\ draining' = NoHandle
  /\ UNCHANGED <<callVars, raw, events, open, gen, epollVars, unseen, woken>>

\* Wakers whose Event this poll hands to the program.
Reported == {e.handle : e \in {x \in events : x.owner = gen[x.handle]}}

\* A variant that leaves the loop over the epoll_events early.
SelectReturn_early ==
  /\ ppc = "dispatch"
  /\ ppc' = "idle"
  /\ raw' = {}
  /\ UNCHANGED <<callVars, events, draining, fileVars, epollVars, unseen, woken>>

SelectReturn ==
  /\ ppc = "dispatch"
  /\ raw = {}
  /\ ppc' = "idle"
  /\ woken' = woken \ Reported
  /\ UNCHANGED <<callVars, raw, events, draining, fileVars, epollVars, unseen>>

------------------------------------------------------------------------------
Init ==
  /\ registrations_ = [h \in Handles |-> NoReg]
  /\ op = [t \in Threads |-> NoOp]
  /\ ppc = "idle" /\ raw = {} /\ events = {} /\ draining = NoHandle
  /\ open = [h \in Handles |-> "closed"]
  /\ gen = [h \in Handles |-> 0]
  /\ level = [h \in Handles |-> {}]
  /\ count = [h \in Handles |-> 0]
  /\ mask = [h \in Handles |-> {}]
  /\ ready = {} /\ unseen = {} /\ woken = {}

RegistryCall(t) ==
  \/ \E h \in Handles, token \in Tokens, interests \in InterestSets :
       AddEmplace(t, h, token, interests) \/ UpdateMap(t, h, token, interests)
  \/ \E h \in Handles : RemoveErase(t, h)
  \/ \E h \in Handles, token \in Tokens : WakerNew(t, h, token)
  \/ \E h \in Handles : WakerDrop(t, h)

RegistryStep(t) ==
  AddCtl(t) \/ AddCtlFails(t) \/ AddUndo(t) \/ UpdateCtl(t) \/ RemoveCtl(t) \/ WakerClose(t)

Select ==
  \/ SelectBegin \/ EpollWait \/ EpollWaitEmpty \/ Drain \/ SelectReturn
  \/ \E r \in raw : Dispatch(r) \/ DispatchUnknown(r)

Environment ==
  \/ \E h \in Handles : OpenSource(h) \/ CloseSource(h) \/ Wake(h)
  \/ \E h \in Handles, flag \in Conditions : Arise(h, flag) \/ Cease(h, flag)

Next ==
  \/ \E t \in Threads : RegistryCall(t) \/ RegistryStep(t)
  \/ Select
  \/ Environment

Spec == Init /\ [][Next]_vars

\* The program keeps polling, calls run to their end, and epoll_wait serves the
\* ready list round robin, so no deliverable entry is passed over for ever.
Fairness ==
  /\ SF_vars(SelectBegin)
  /\ WF_vars(Drain \/ SelectReturn \/ \E r \in raw : Dispatch(r) \/ DispatchUnknown(r))
  /\ \A h \in Handles : SF_vars(EpollWait /\ \E r \in raw' : r.handle = h)
  /\ \A t \in Threads : WF_vars(RegistryStep(t))

FairSpec == Spec /\ Fairness

------------------------------------------------------------------------------
\* Every variable has its type: the map holds validated interests of known tokens,
\* the eventfd counter stays within its range.
TypeOK ==
  /\ registrations_ \in [Handles -> Registration \cup {NoReg}]
  /\ op \in [Threads -> Op \cup {NoOp}]
  /\ ppc \in {"idle", "wait", "dispatch", "drain"}
  /\ raw \in SUBSET RawEvent
  /\ events \in SUBSET PushedEvent
  /\ draining \in Handles \cup {NoHandle}
  /\ open \in [Handles -> {"closed", "source", "eventfd"}]
  /\ gen \in [Handles -> Nat]
  /\ level \in [Handles -> SUBSET EpollFlags]
  /\ count \in [Handles -> 0..MaxCount]
  /\ mask \in [Handles -> SUBSET EpollFlags]
  /\ ready \in SUBSET Handles
  /\ unseen \in SUBSET Handles
  /\ woken \in SUBSET Handles

\* With one call per handle at a time, whatever the kernel watches is in the map
\* with the same interests once no call is in progress: add's rollback and
\* remove's late EPOLL_CTL_DEL leave no entry behind that events could come
\* from without find() knowing them.
NoOrphanEntry ==
  \A h \in Handles :
    mask[h] # {} /\ ~InFlight(h) =>
      /\ registrations_[h] # NoReg
      /\ registrations_[h].file = gen[h]
      /\ mask[h] = to_epoll_events(registrations_[h].interests)

\* Conversely, as long as the file that was registered is open it is watched for
\* what the map says: events will come for it.  The file can be closed while it
\* is registered; the number then stays in the map without a watch.
RegistrationsArmed ==
  \A h \in Handles :
    /\ registrations_[h] # NoReg
    /\ registrations_[h].file = gen[h]
    /\ open[h] # "closed"
    /\ ~InFlight(h)
    => mask[h] = to_epoll_events(registrations_[h].interests)

\* An edge the kernel has seen for a watched handle is never lost between
\* epoll_wait and find(), although edge-triggered epoll reports it once: add
\* fills the map before it calls EPOLL_CTL_ADD, so find() misses only handles
\* that are being removed.
NoLostEdge ==
  \A h \in unseen :
    \/ h \in ready
    \/ \E r \in raw : r.handle = h
    \/ \E t \in Threads : op[t].handle = h /\ At(t, "remove_ctl")

\* What an unfinished call on h can rely on between the critical section it has
\* left and its epoll_ctl: nobody else has touched the entry of its handle.
EntryAt(step, interests, h) ==
  LET reg == registrations_[h]
  IN /\ open[h] # "closed"
     /\ step \in {"add_ctl", "add_undo"} =>
          /\ reg # NoReg /\ reg.file = gen[h]
          /\ interests = reg.interests
          /\ mask[h] = {}
     /\ step = "update_ctl" =>
          /\ reg # NoReg
          /\ interests = reg.interests
          /\ mask[h] # {} <=> reg.file = gen[h]
     /\ step = "remove_ctl" => reg = NoReg
     /\ step = "waker_close" =>
          /\ mask[h] = {}
          /\ reg # NoReg => reg.file # gen[h]

Phase(t, h) ==
  /\ \A u \in Threads : op[u].handle = h => u = t
  /\ EntryAt(op[t].step, op[t].interests, h)

CallPhases == \A t \in Threads, h \in Handles : op[t].handle = h => Phase(t, h)

\* The kernel watches open files only, has edges for watched files only, and the
\* polling thread looks at all it got from epoll_wait before it waits again.
KernelLists ==
  /\ \A h \in Handles : mask[h] # {} => open[h] # "closed"
  /\ \A h \in unseen : mask[h] # {}
  /\ \A h \in Handles : registrations_[h] # NoReg => registrations_[h].file <= gen[h]
  /\ ppc \in {"idle", "wait"} => raw = {}

\* The inductive invariant behind NoOrphanEntry, RegistrationsArmed and
\* NoLostEdge.
CallsInv ==
  /\ TypeOK
  /\ CallPhases
  /\ KernelLists
  /\ NoOrphanEntry
  /\ RegistrationsArmed
  /\ NoLostEdge

\* No call to wake() is forgotten, also when it falls between the push of the
\* Waker's event and the drain, or meets a full counter: until a poll returns
\* the Waker's token, either the counter is up and its edge is still on its way,
\* or the token is in the Events of the poll in progress.
WakeNotLost ==
  \A h \in woken :
    WakerAlive(h) =>
      \/ /\ count[h] > 0
         /\ h \in ready \/ \E r \in raw : r.handle = h
      \/ ppc # "idle" /\ h \in Reported

\* When find() makes the poll drain a number, that number is at this moment the open
\* eventfd of a Waker, and the token just pushed is that Waker's own: neither a source
\* nor a Waker that is gone is drained for an entry left in the map.  mutex_ is not
\* held from here to drain_descriptor; a Waker destroyed in between has its number
\* read whatever it names by then (Drain).
DrainsOwnWaker ==
  [][ppc # "drain" /\ ppc' = "drain" =>
       open'[draining'] = "eventfd" /\ draining' \in Reported']_vars

\* README: "We can use the token we previously provided to `register_source` to
\* determine for which socket the event is."  The readiness an Event carries is
\* that of the file its token was given for.
EventFromItsSource == \A e \in events : e.file = e.owner

\* With one call per handle at a time an Event never carries the token of an
\* earlier holder of its descriptor number: a source closed without deregister
\* leaves its token in the map, but the file that gets the number next is not
\* watched under it.  A later holder's token needs a file opened and registered
\* after epoll_wait returned; a loop that does both between polls never sees it.
NoStaleToken == \A e \in events : e.file <= e.owner /\ e.owner <= gen[e.handle]

\* A wake() is answered by a poll that returns the Waker's token.
WakeAnswered == \A h \in Handles : h \in woken ~> h \notin woken

------------------------------------------------------------------------------
\* The promise of SelectorContract.  A handle counts as registered when add has
\* succeeded and until remove has erased it.

ContractRegistered ==
  [h \in Handles |->
     IF \/ registrations_[h] = NoReg
        \/ \E t \in Threads : op[t].handle = h /\ op[t].step \in {"add_ctl", "add_undo"}
     THEN NoReg
     ELSE [token |-> registrations_[h].token, interests |-> registrations_[h].interests]]

\* What the kernel watches and finds on a registered handle.
ContractReady ==
  {h \in Handles : ContractRegistered[h] # NoReg /\ Meets(Level(h), mask[h])} \X {"edge"}

ContractDue ==
  {h \in unseen :
     /\ ContractRegistered[h] # NoReg
     /\ Meets(Level(h), mask[h]) \/ \E r \in raw : r.handle = h} \X {"edge"}

Contract == INSTANCE SelectorContract
              WITH registered <- ContractRegistered, ready <- ContractReady,
                   due <- ContractDue, reported <- {e.handle : e \in events},
                   What <- {"edge"}, InterestSets <- InterestSets \cup {{"READABLE"}}

\* With one call per handle at a time, the map, the kernel's interest list and
\* the polling thread together behave as the atomic registry of
\* SelectorContract, and every event that is due is reported.
ImplementsContract == Contract!Spec

==============================================================================
