------------------------------- MODULE Signals -------------------------------
(***************************************************************************)
(* Signals on Linux: a signalfd, the set of signals it reads, the blocked  *)
(* signals of the threads that called it, and its way into a Poll.         *)
(*                                                                         *)
(* A step is one system call.  add and remove change the mask of the       *)
(* calling thread and then that of the signalfd, the destructor closes the *)
(* signalfd first, pending reads one signal at a time.  A Signals object   *)
(* has no lock: one call on it at a time.  signalfd and sigprocmask do not *)
(* fail on the arguments they get here once the object has been made.      *)
(***************************************************************************)
EXTENDS FiniteSets

CONSTANTS
  Sigs,      \* signals whose default action ends the process
  Objects,   \* Signals objects, each with the descriptor number it gets
  Workers,   \* threads other than main
  main,      \* the thread that runs the Poll loop
  NoFd,      \* the object does not exist or has no signalfd
  Careful    \* the program keeps to CarefulAdd and CarefulRemove below

ASSUME CarefulAssumption == Careful \in BOOLEAN

Threads == Workers \cup {main}

VARIABLES
  \* Signals and Registry
  mask,          \* object -> Impl::mask
  call,          \* thread -> the call in progress
  registrations_,\* objects whose descriptor is in the Selector's map
  todo,          \* objects with an Event the program has not looked at
  \* kernel
  watch,         \* object -> signals its signalfd reads, or NoFd
  epolled,       \* objects whose signalfd is in epoll's interest list
  ready,         \* objects in epoll's ready list
  started,       \* threads running
  blocked,       \* thread -> its signal mask
  pendingOf,     \* thread -> signals sent to it alone
  pendingAll,    \* signals sent to the process
  process,       \* "runs", "killed" by a signal, or ended by std::terminate
  \* history
  caught,        \* object -> signals that add has blocked and whose remove has not begun
  owed           \* signals raised while caught and not yet returned by pending

objectVars == <<mask, call, registrations_, todo>>
epollVars == <<watch, epolled, ready>>
signalVars == <<started, blocked, pendingOf, pendingAll, process>>
vars == <<objectVars, epollVars, signalVars, caught, owed>>

NoCall == [op |-> "none"]

Calls == [op : {"add", "remove", "drop", "pending"}, object : Objects,
          sig : SUBSET Sigs, got : SUBSET Sigs]

Running == process = "runs"

------------------------------------------------------------------------------
\* Kernel (external).

Pending(t) == pendingOf[t] \cup pendingAll

Readable(i, t) == watch[i] # NoFd /\ Pending(t) \cap watch[i] # {}

\* Every signalfd that reads a signal sent to the process wakes its epoll.
Woken(s) == {i \in epolled : watch[i] # NoFd /\ s \in watch[i]}

\* Threads that would take a signal sent to the process.
Takers(s, masks) == {t \in started : s \notin masks[t]}

\* The mask of t becomes m: what waited for that is delivered and kills.
SetMask(t, m) ==
  LET delivered == (Pending(t) \ m)
  IN /\ blocked' = [blocked EXCEPT ![t] = m]
     /\ pendingOf' = [pendingOf EXCEPT ![t] = @ \ delivered]
     /\ pendingAll' = pendingAll \ delivered
     /\ process' = IF delivered = {} THEN process ELSE "killed"

Owes(s) == IF \E i \in Objects : s \in caught[i] THEN owed \cup {s} ELSE owed

\* kill: the signal goes to any thread that does not block it.
SendToProcess(s) ==
  /\ Running
  /\ IF Takers(s, blocked) = {}
     THEN /\ pendingAll' = pendingAll \cup {s}
          /\ ready' = ready \cup Woken(s)
          /\ UNCHANGED process
     ELSE process' = "killed" /\ UNCHANGED <<pendingAll, ready>>
  /\ owed' = Owes(s)
  /\ UNCHANGED <<objectVars, watch, epolled, started, blocked, pendingOf, caught>>

\* raise, pthread_kill: one thread only.
SendToThread(t, s) ==
  /\ Running /\ t \in started
  /\ IF s \in blocked[t]
     THEN /\ pendingOf' = [pendingOf EXCEPT ![t] = @ \cup {s}]
          /\ ready' = ready \cup Woken(s)
          /\ UNCHANGED process
     ELSE process' = "killed" /\ UNCHANGED <<pendingOf, ready>>
  /\ owed' = IF t = main THEN Owes(s) ELSE owed
  /\ UNCHANGED <<objectVars, watch, epolled, started, blocked, pendingAll, caught>>

\* A thread inherits the mask of the thread that starts it.
StartThread(t, by) ==
  /\ Running /\ t \notin started /\ by \in started
  /\ started' = started \cup {t}
  /\ blocked' = [blocked EXCEPT ![t] = blocked[by]]
  /\ UNCHANGED <<objectVars, epollVars, pendingOf, pendingAll, process, caught, owed>>

------------------------------------------------------------------------------
\* Signals::Impl

\* One call per thread and per object.
Free(t, i) ==
  /\ Running /\ t \in started /\ call[t] = NoCall
  /\ \A u \in Threads : call[u] # NoCall => call[u].object # i

Begin(t, name, i, sigs) ==
  call' = [call EXCEPT ![t] = [op |-> name, object |-> i, sig |-> sigs, got |-> {}]]

In(t, name) == Running /\ call[t].op = name

\* main is between the two system calls of add.
Adding(i) == call[main].op = "add" /\ call[main].object = i

Return(t) == call' = [call EXCEPT ![t] = NoCall]

\* What a careful program keeps to: main makes all calls, it adds signals before
\* it starts threads and each to one object, and it empties an object of a signal
\* before it takes the signal out.
CarefulAdd(t, i, s) ==
  Careful => t = main /\ started = {main} /\ \A j \in Objects \ {i} : s \notin mask[j]

CarefulRemove(t, i, sigs) ==
  Careful => t = main /\ sigs \subseteq mask[i] /\ sigs \cap Pending(t) = {}

New(t, i) ==
  /\ Free(t, i) /\ watch[i] = NoFd
  /\ watch' = [watch EXCEPT ![i] = {}]
  /\ mask' = [mask EXCEPT ![i] = {}]
  /\ UNCHANGED <<call, registrations_, todo, epolled, ready, signalVars, caught, owed>>

\* The object catches s from here on, until its remove or destructor begins.
Catches(i, s) == caught' = [caught EXCEPT ![i] = @ \cup {s}]

\* A variant that leaves the signals unblocked.
AddBlock_no_block(t, i, s) ==
  /\ Free(t, i) /\ watch[i] # NoFd
  /\ CarefulAdd(t, i, s)
  /\ mask' = [mask EXCEPT ![i] = @ \cup {s}]
  /\ Catches(i, s)
  /\ Begin(t, "add", i, {s})
  /\ UNCHANGED <<registrations_, todo, epollVars, signalVars, owed>>

\* add: sigprocmask blocks all of the object's signals, then signalfd.
AddBlock(t, i, s) ==
  /\ Free(t, i) /\ watch[i] # NoFd
  /\ CarefulAdd(t, i, s)
  /\ mask' = [mask EXCEPT ![i] = @ \cup {s}]
  /\ SetMask(t, blocked[t] \cup mask'[i])
  /\ Catches(i, s)
  /\ Begin(t, "add", i, {s})
  /\ UNCHANGED <<registrations_, todo, epollVars, started, owed>>

\* signalfd gives the descriptor the object's mask and wakes its epoll.
SetFd(i, m) ==
  /\ watch' = [watch EXCEPT ![i] = m]
  /\ ready' = ready \cup ({i} \cap epolled)
  /\ UNCHANGED epolled

AddFd(t) ==
  LET i == call[t].object
  IN /\ In(t, "add")
     /\ SetFd(i, mask[i])
     /\ Return(t)
     /\ UNCHANGED <<mask, registrations_, todo, signalVars, caught, owed>>

RemoveUnblock(t, i, s) ==
  /\ Free(t, i) /\ watch[i] # NoFd
  /\ CarefulRemove(t, i, {s})
  /\ SetMask(t, blocked[t] \ {s})
  /\ caught' = [caught EXCEPT ![i] = @ \ {s}]
  /\ Begin(t, "remove", i, {s})
  /\ UNCHANGED <<mask, registrations_, todo, epollVars, started, owed>>

RemoveFd(t) ==
  LET i == call[t].object
  IN /\ In(t, "remove")
     /\ mask' = [mask EXCEPT ![i] = @ \ call[t].sig]
     /\ SetFd(i, mask'[i])
     /\ Return(t)
     /\ UNCHANGED <<registrations_, todo, signalVars, caught, owed>>

\* The destructor.  close takes the signalfd out of epoll, not out of the map.
DropClose(t, i) ==
  /\ Free(t, i) /\ watch[i] # NoFd
  /\ CarefulRemove(t, i, mask[i])
  /\ watch' = [watch EXCEPT ![i] = NoFd]
  /\ epolled' = epolled \ {i}
  /\ ready' = ready \ {i}
  /\ todo' = todo \ {i}
  /\ caught' = [caught EXCEPT ![i] = {}]
  /\ Begin(t, "drop", i, {})
  /\ UNCHANGED <<mask, registrations_, signalVars, owed>>

\* A variant that only closes.
DropUnblock_closes_only(t) ==
  /\ In(t, "drop")
  /\ mask' = [mask EXCEPT ![call[t].object] = {}]
  /\ Return(t)
  /\ UNCHANGED <<registrations_, todo, epollVars, signalVars, caught, owed>>

DropUnblock(t) ==
  LET i == call[t].object
  IN /\ In(t, "drop")
     /\ SetMask(t, blocked[t] \ mask[i])
     /\ mask' = [mask EXCEPT ![i] = {}]
     /\ Return(t)
     /\ UNCHANGED <<registrations_, todo, epollVars, started, caught, owed>>

\* pending: read until there is nothing to read.
PendingBegin(t, i) ==
  /\ Free(t, i) /\ watch[i] # NoFd
  /\ Careful => t = main
  /\ todo' = todo \ {i}
  /\ Begin(t, "pending", i, {})
  /\ UNCHANGED <<mask, registrations_, epollVars, signalVars, caught, owed>>

PendingRead(t, s) ==
  /\ In(t, "pending")
  /\ s \in Pending(t) \cap watch[call[t].object]
  /\ call' = [call EXCEPT ![t].got = @ \cup {s}]
  /\ IF s \in pendingOf[t]
     THEN pendingOf' = [pendingOf EXCEPT ![t] = @ \ {s}] /\ UNCHANGED pendingAll
     ELSE pendingAll' = pendingAll \ {s} /\ UNCHANGED pendingOf
  /\ UNCHANGED <<mask, registrations_, todo, epollVars, started, blocked, process,
                 caught, owed>>

\* A variant that reads one signal per call.
PendingReturn_one(t) ==
  /\ In(t, "pending")
  /\ call[t].got # {} \/ ~Readable(call[t].object, t)
  /\ owed' = owed \ (call[t].got \ Pending(main))
  /\ Return(t)
  /\ UNCHANGED <<mask, registrations_, todo, epollVars, signalVars, caught>>

PendingReturn(t) ==
  /\ In(t, "pending")
  /\ ~Readable(call[t].object, t)
  /\ owed' = owed \ (call[t].got \ Pending(main))
  /\ Return(t)
  /\ UNCHANGED <<mask, registrations_, todo, epollVars, signalVars, caught>>

------------------------------------------------------------------------------
\* The way into a Poll

\* Selector::add and update as seen from here: the map, then epoll_ctl, which
\* looks at once whether the descriptor is readable.
Adds(i) ==
  /\ i \notin registrations_
  /\ registrations_' = registrations_ \cup {i}
  /\ epolled' = epolled \cup {i}
  /\ ready' = ready \cup {i}

\* register_handle with native_handle(); with ec set when the map has the number.
RegisterHandle(i) ==
  /\ Free(main, i) /\ watch[i] # NoFd
  /\ Adds(i)
  /\ UNCHANGED <<mask, call, todo, watch, signalVars, caught, owed>>

\* register_source: register_handle succeeds, then on_registered calls
\* register_handle again, whose file_exists leaves a noexcept function.
RegisterSource(i) ==
  /\ Free(main, i) /\ watch[i] # NoFd
  /\ Adds(i)
  /\ process' = "terminated"
  /\ UNCHANGED <<mask, call, todo, watch, started, blocked, pendingOf, pendingAll,
                 caught, owed>>

\* reregister: on_reregistered repeats it, to no effect.
ReregisterSource(i) ==
  /\ Free(main, i) /\ watch[i] # NoFd
  /\ i \in registrations_ /\ i \in epolled
  /\ ready' = ready \cup {i}
  /\ UNCHANGED <<objectVars, watch, epolled, signalVars, caught, owed>>

\* A variant that leaves epoll alone.
Deletes_map_only(i) ==
  /\ i \in registrations_
  /\ registrations_' = registrations_ \ {i}
  /\ UNCHANGED <<epolled, ready>>

Deletes(i) ==
  /\ i \in registrations_
  /\ registrations_' = registrations_ \ {i}
  /\ epolled' = epolled \ {i}
  /\ ready' = ready \ {i}

\* deregister_handle, also for an object that is gone.
DeregisterHandle(i) ==
  /\ Free(main, i)
  /\ Deletes(i)
  /\ UNCHANGED <<mask, call, todo, watch, signalVars, caught, owed>>

\* deregister: on_deregistered deregisters again and throws likewise.
DeregisterSource(i) ==
  /\ Free(main, i) /\ watch[i] # NoFd
  /\ Deletes(i)
  /\ process' = "terminated"
  /\ UNCHANGED <<mask, call, todo, watch, started, blocked, pendingOf, pendingAll,
                 caught, owed>>

\* main polls: epoll_wait looks again whether the descriptor is readable.
PollReport(i) ==
  /\ Free(main, i) /\ i \in ready
  /\ ready' = ready \ {i}
  /\ todo' = IF Readable(i, main) THEN todo \cup {i} ELSE todo
  /\ UNCHANGED <<mask, call, registrations_, watch, epolled, signalVars, caught, owed>>

------------------------------------------------------------------------------
InitAs(running) ==
  /\ mask = [i \in Objects |-> {}]
  /\ call = [t \in Threads |-> NoCall]
  /\ registrations_ = {} /\ todo = {} /\ epolled = {} /\ ready = {}
  /\ watch = [i \in Objects |-> NoFd]
  /\ started = {main}
  /\ blocked = [t \in Threads |-> {}]
  /\ pendingOf = [t \in Threads |-> {}]
  /\ pendingAll = {}
  /\ process = running
  /\ caught = [i \in Objects |-> {}]
  /\ owed = {}

Init == InitAs("runs")

CallBegins(t, i) ==
  \/ New(t, i) \/ DropClose(t, i) \/ PendingBegin(t, i)
  \/ \E s \in Sigs : AddBlock(t, i, s) \/ RemoveUnblock(t, i, s)

CallGoesOn(t) ==
  \/ AddFd(t) \/ RemoveFd(t) \/ DropUnblock(t) \/ PendingReturn(t)
  \/ \E s \in Sigs : PendingRead(t, s)

RegistryCall(i) ==
  \/ RegisterHandle(i) \/ DeregisterHandle(i)
  \/ RegisterSource(i) \/ ReregisterSource(i) \/ DeregisterSource(i)

Signal(s) == SendToProcess(s) \/ \E t \in Threads : SendToThread(t, s)

Next ==
  \/ \E t \in Threads : CallGoesOn(t) \/ \E i \in Objects : CallBegins(t, i)
  \/ \E i \in Objects : RegistryCall(i) \/ PollReport(i)
  \/ \E s \in Sigs : Signal(s)
  \/ \E t \in Workers : \E by \in Threads : StartThread(t, by)

Spec == Init /\ [][Next]_vars

\* Calls go on, the loop comes back to poll and looks at the Events it got, and
\* signals pause: pending() reads on while they keep coming.
Fairness ==
  /\ \A t \in Threads : WF_vars(CallGoesOn(t))
  /\ \A i \in Objects : SF_vars(PollReport(i)) /\ SF_vars(i \in todo /\ PendingBegin(main, i))
  /\ <>[][\A s \in Sigs : ~Signal(s)]_vars

FairSpec == Spec /\ Fairness

------------------------------------------------------------------------------
\* Every variable has its type, and epoll has only descriptors the map knows.
TypeOK ==
  /\ mask \in [Objects -> SUBSET Sigs]
  /\ call \in [Threads -> Calls \cup {NoCall}]
  /\ registrations_ \subseteq Objects /\ todo \subseteq Objects
  /\ watch \in [Objects -> (SUBSET Sigs) \cup {NoFd}]
  /\ epolled \subseteq registrations_ /\ ready \subseteq epolled
  /\ started \subseteq Threads
  /\ blocked \in [Threads -> SUBSET Sigs]
  /\ pendingOf \in [Threads -> SUBSET Sigs]
  /\ pendingAll \subseteq Sigs
  /\ process \in {"absent", "runs", "killed", "terminated"}
  /\ caught \in [Objects -> SUBSET Sigs]
  /\ owed \subseteq Sigs

\* A signal raised once add has blocked it, and before remove is called, does not
\* take its default action, in a careful program: it stays blocked and pending, also
\* while add has yet to give it to the signalfd, and an object reads it, until
\* pending() returns it.
OwedNotLost ==
  Careful => \A s \in owed :
    \/ /\ s \in Pending(main)
       /\ \E i \in Objects : s \in caught[i] /\ (s \in watch[i] \/ Adding(i))
    \/ call[main] # NoCall /\ s \in call[main].got

\* remove and the destructor give the thread its mask back: between two calls a
\* careful program blocks exactly the signals its objects catch and read.
MaskRestored ==
  Careful /\ Running /\ call[main] = NoCall =>
    /\ blocked[main] = UNION {caught[i] : i \in Objects}
    /\ \A i \in Objects : caught[i] = IF watch[i] = NoFd THEN {} ELSE watch[i]

\* An owed signal comes out of pending() if its object stays in the Poll: no edge
\* is lost between the last read of one pending() and the next signal, nor one that
\* came before add had given the signal to the signalfd.
SignalReported ==
  \A s \in Sigs, i \in Objects :
    Careful /\ s \in owed /\ s \in caught[i] /\ i \in epolled
      ~> s \notin owed \/ i \notin epolled \/ ~Running

\* Registering or deregistering a Signals object with a Poll does not end the
\* process.  The test SignalsCatch registers one with register_source.
RegistrySurvives == process # "terminated"

==============================================================================
