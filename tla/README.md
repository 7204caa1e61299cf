# A TLA+ model of ioxx

ioxx is a non-blocking I/O library in C++20 in the style of Rust's mio: a program
registers sources with a `Poll`, calls `poll()`, and gets `Events` that say which
source is ready for what. This directory holds TLA+ modules translated from the code
in `src/`, TLC configurations that check them on small instances, and proofs that
TLAPS checks.

## The system: inventory

| Part | Code | State | What changes it | Talks to |
|---|---|---|---|---|
| Interest, Event, Events | `include/ioxx/core.hpp` | a set of kinds; flags; a list with a capacity | add, remove; push, clear | all below |
| Readiness conversions | `core.cpp` 151-168, 252-278, 421-505 | none | pure | Selector |
| Selector, epoll | `core.cpp` 511-808, 982-1013 | `registrations_` under `mutex_`, the kernel's interest and ready lists | add, update, remove, select | Registry, Waker, kernel |
| Selector, IOCP + AFD | `core.cpp` 211-410, 811-977 | `AfdSocketState` (status, user_events, pending_events, delete_pending), operations in flight, completion port | issue_afd_poll, complete_afd_operation, set_afd_interest, cancel | Registry, Waker, NamedPipe, kernel |
| Selector, kqueue / poll | `core.cpp` 1018-1105 | `registrations_`, kernel filters | as above | Registry, Waker |
| Waker | `core.cpp` 1125-1178, 1348-1381 | eventfd counter, pipe or packets | construct, wake, drain, destroy | Selector |
| Registry, Poll | `core.cpp` 1212-1346 | pointers to the Selector | register, reregister, deregister (+ callbacks of the Source), poll | Sources |
| TCP and UDP sockets | `net.cpp`, `socket.cpp` | a descriptor; `registry_`, `token_`, `interests_` | create, bind, connect, accept, move, destroy, I/O with `rearm_after_would_block` | Registry, kernel |
| Signals, Linux | `signals.cpp` 160-231, 322-394 | `mask`, signalfd, signal mask of the thread | add, remove, pending, destroy, callbacks | Registry, kernel |
| Signals, BSD and Windows | `signals.cpp` 27-156, 235-318 | global instance, pipe or socket pair | handler, add, remove, pending | Registry, kernel |
| Unix pipes and sockets | `unix.cpp` | a descriptor | as the net sockets, without rearm and without callbacks | Registry |
| NamedPipe | `windows.cpp` | pending flags, overlapped structures, read and write buffers, last error | connect, disconnect, read, write, move, close | Registry, completion port |
| Timeouts | `core.cpp` 52-61 and where each backend waits | none | pure | Selector |
| Addresses, module file, examples | `socket.cpp`, `ioxx.cppm`, `examples/` | none | pure | |

What makes it hard:

* `mutex_` guards the map only. Every Registry call leaves it before it talks to the
  kernel, and `poll` looks descriptors up after `epoll_wait` returned: calls, the
  polling thread and the kernel interleave inside each operation.
* Descriptor numbers are reused, and nothing deregisters a source that is closed.
* epoll is used edge-triggered and AFD polls are one-shot: what is dropped once is
  not reported again.
* AFD operations complete, are cancelled, or fail while the interests change.
* Operations that are `noexcept` call functions that throw.
* Signals arrive between any two system calls, in any thread that lets them in.
* Overlapped pipe operations own the object's buffers until they complete.

## Modules

| Module | Models | Steps |
|---|---|---|
| `Readiness` | `Interest`, and per backend what is requested and what Event is built | operators only |
| `SocketReadiness` | a socket whose condition and interests change, seen through all four backends | one condition or interest at a time |
| `Timeouts` | `clamp_timeout` and the conversion of a timeout per backend, with the ranges of `int` and `DWORD` as parameters | operators only |
| `EpollSelector` | the epoll Selector with caller threads, a polling thread, files and Wakers | a critical section or a system call |
| `PollSelector` | the `poll` fallback with caller threads, a polling thread and the pipe Waker | a critical section or a system call |
| `AfdSelector` | the Windows Selector for sockets | a critical section of `AfdSocketState::mutex` or of the map |
| `SelectorContract` | what a Poll promises: an atomic registry, and reports that are due | abstract |
| `NetSource` | the classes of `net.cpp` and `unix.cpp` as Sources of one Poll, over an abstract Selector (epoll or AFD) | a member function |
| `Signals` | Linux `Signals` | a system call |
| `SelfPipe` | `Signals` on BSD and Windows: handlers, the global instance and its mutex | what a handler can come between |
| `NamedPipe` | either end of a named pipe, its peer and the completion port | a member function; the kernel in between |
| `MCReadiness`, `MCSignals` | `SocketReadiness`, `Timeouts` and `PollSelector`, and `Signals` and `SelfPipe`, side by side in one run | |
| `MCEpollSelector`, `MCNetSource` | symmetry sets for TLC | |
| `EpollSelectorProofs`, `ReadinessProofs`, `NetSourceProofs`, `SelfPipeProofs`, `NamedPipeProofs` | theorems about the module they are named after (`ReadinessProofs`: `SocketReadiness`, `Timeouts` and `PollSelector`) and their proofs | |
| `SignalsProofs` | theorems about `Signals`, and about the specification of `MCSignals` | |
| `AfdSelectorProofs`, `AfdSourceProofs` | theorems about `AfdSelector`: its own state; what it promises about sockets | |

Variables keep the names of the members they stand for (`registrations_`, `socket_`,
`interests_`, `mask`, `write_buffer_`); kernel state and history variables are marked
in the declarations. `EpollSelector` and `AfdSelector` use the operators of
`Readiness`; both, and `PollSelector`, are shown to implement `SelectorContract`. Its
state is the registrations, what registered handles are ready for, which reports are
due, and the handles with an Event in the Events of the poll in progress. A call takes
effect in one step; only what is ready becomes due; what is due stays due while it is
ready, until an Event of its handle.
`NetSource` builds on what they show: it keeps of the Selector the map and, for each
descriptor, the kinds of readiness it will still report.

A definition whose name ends in a fault (`AddUndo_no_erase`, `Deregister_remembers`,
...) is not part of a specification. It is a wrong version of the definition that
follows it, and putting it in that one's place breaks a property.

### Correspondence in short

* `Selector::add` is `AddEmplace`, then `AddCtl` or `AddCtlFails` and `AddUndo`;
  `update` is `UpdateMap`, `UpdateCtl`; `remove` is `RemoveErase`, `RemoveCtl`. The
  cuts are where the code unlocks `mutex_`.
* `select_epoll` is `SelectBegin` (capacity 0 returns at once), `EpollWait`, one
  `Dispatch` or `DispatchUnknown` for each raw event, `Drain` for a Waker,
  `SelectReturn`.
* `issue_afd_poll` is `IssueOk` or `IssueThrows`; `complete_afd_operation` is
  `CompleteAfd` and then `Reissue`, which are two critical sections.
* `Registry::register_source` in `NetSource` and `Signals` includes the callback of
  the Source. `rearm_after_would_block` is part of every receive and send that would
  block.
* `select_poll` is `SelectBegin` (capacity 0 returns at once; else the copy of the map,
  `Waiting`), `PollReturns`, `PollTimesOut`
  or `PollInterrupted`, one `Push` per ready descriptor, `drain_descriptor` for the
  Waker, `SelectReturn`. The copy's token belongs to the Waker that had the number when
  the poll began; `Superseded` says that another one has it by now.
* In `NetSource` every public function that makes, takes over, moves, uses or closes a
  descriptor is a definition named after it (`TcpStream_read`, `UnixStream_pair`, ...),
  built from a few operators: `Owns` for a new descriptor, `Adopt`, `Release`, `MoveTo`,
  `Destroy`, `Receive`, `Transmit`, `Accept`, `Ends`. `held` are the descriptors that the
  program has itself, before an object takes them and after `release`. The factories of
  `unix.cpp` give a descriptor to a constructor that prepares it once more and throws
  when that fails: the exception leaves a `noexcept` function, and the process ends
  (`prepare_fd`). A failing AFD call ends `reregister` with an error and the map changed
  (`UpdateThrows`), and ends the process when it was `rearm_after_would_block` that
  called. A default move leaves `registry_` and `interests_` in the old object.
* `adrift` (history) marks a descriptor whose entry was changed by handle, through a
  `SourceFd` or by a failed `reregister` while an object remembers the old one.
* `Signals::add` is `AddBlock`, `AddFd`; `remove` is `RemoveUnblock`, `RemoveFd`; the
  destructor is `DropClose`, `DropUnblock`; `pending` is `PendingBegin`, one
  `PendingRead` per signal, `PendingReturn`. A signal counts as caught from `AddBlock` on.
* In `SelfPipe`, `handler_routine` is `BsdHandlerChecks` or `WinHandlerChecks` (the look
  at `global_instance`) and `HandlerWrites` (its use). `Locked` and `HandlerLocked` say
  who has `global_mutex`. On BSD a handler runs in the thread it interrupts, so `Turn`
  holds that thread's calls back until the handler is done. `add` is `BsdAddInsert`,
  `BsdAddSigaction` or `WinAddInstall`, `WinAddInsert`, in the order of the code.
* In `NamedPipe`, `pending` is the set of kinds whose `connect_pending_`,
  `read_pending_` or `write_pending_` is set, `read_buffer_` is the part between
  `read_pos_` and `read_ready_size_`, and `op` is what `GetOverlappedResult` would say.
  `client` says that the object was made by `open_client`. `DwordMax` is the limit of
  `checked_size`: what a pending `write` counted and did not pass on is in `clipped`.

## What the program around the library is assumed to do

The library states few rules on its use. Where a property needs one, it is named.

* `EpollSelector`: `Discipline` is a set of rules. `exclusive`: at most one Registry
  call per handle at a time, on a source that is open. `deregister_first`: a source
  is closed only when it is not registered. `steady_wakers`: Wakers come and go
  between polls. Only what is said of wakes needs the last one.
* `PollSelector`: nothing is registered or changed while a poll without a timeout
  waits (`Seen`): that poll waits on a copy and would not notice. A program wakes the
  poll or gives it a timeout.
* `AfdSelector`: the variable `careful` is chosen at the start, and both values are
  explored; properties that need the rule say `careful => ...`. It means that no
  registered socket is closed.
* `NetSource`: an object is used by one thread at a time. The program may change an
  entry behind an object's back; the properties say what then is not promised.
* `Signals`: `Careful` means that signals are added and removed in one thread before
  others start, that no two objects share a signal, and that a signal is not pending
  when it is removed. Without the last rule the default action of the signal is what
  `remove` leads to.
* `SelfPipe`: one thread uses the objects, and on BSD it is the one that takes the
  signals. An object whose constructor failed is not used. What is said of caught
  signals and of restored handlers is said of programs with one object at a time
  (`alone`); a second object takes the pointer from the first and breaks both.
* `NamedPipe`: a pipe is moved only when it is idle.

## Runs

| Run | Question | Answer |
|---|---|---|
| `socket_readiness` | Do the conversions of the four backends lose or invent readiness, and does each wait as long as it was asked? Does the `poll` backend answer wakes and keep the contract? | Yes, with three limits: `select_poll` casts a timeout above the largest `int` without a limit, kqueue does not clamp a negative one, and a Waker made during a `poll` with the number of an earlier one can lose a wake to the event of that one. epoll and AFD agree on closed directions and always report failures. kqueue has no filter for PRIORITY. |
| `epoll_owners` | Do map and interest list stay in step when two threads call and a third polls? Can an Event carry an old token? Does a poll drain anything but a Waker? | In step with one call per handle at a time, including failing `epoll_ctl` and close without deregister. Never the token of an earlier holder of the number. What `find()` has the poll drain is a live Waker's, also when Wakers come and go during polls. |
| `epoll_token` | Can an Event carry the new token with the readiness of the old file? | Yes (finding). |
| `epoll_waker` | Is every wake answered, and is every due event reported with room for one event? | Yes. The last is the refinement of `SelectorContract` with its liveness. |
| `afd_selector` | One AFD operation per socket, no silent socket, no Event for the wrong socket? | Yes, with one failing system call and reuse of the handle value. |
| `afd_contract` | Does the AFD Selector implement `SelectorContract`? | Yes, liveness included. |
| `net` | Who owns a descriptor, what does an object remember, does readiness get lost after a would-block? | One owner, an object or the program; what is remembered is in the map unless the program changed it by handle or was told of a failure, so a would-block finds no entry only where the program removed it by handle; nothing is lost on epoll or AFD. |
| `net_stream` | Is a registered source watched? | Not a `TcpStream` on Windows (finding). |
| `unix_unbound` | Does `UnixDatagram::unbound(ec)` report that there is no descriptor? | No, the process ends (finding). |
| `signals` | Is a caught signal reported, and never fatal? Are masks and handlers restored? Does a handler use only what is there, and get to its end? | Yes for a careful program on Linux, from the moment `add` has blocked the signal, and on BSD and Windows with one object at a time; handlers are safe with two objects as well. |
| `signals_register` | Can a `Signals` object be registered? | Not with `register_source`: the process ends (finding). |
| `named_pipe` | Are bytes kept in order across overlapped operations, failures told, the Poll woken? | Yes, at both ends, for idle moves; of a write above the DWORD limit that pends the rest is counted and not sent. |

Deadlock checking is off where a run has bounds on opens, bytes or wakes: a behaviour
may stop when they are used up, or when the process has ended. `socket_readiness`
never stops.

`MCReadiness` and `MCSignals` put independent modules into one state space. In
`MCReadiness` each part moves only while the others rest, in `MCSignals` the process
of one of the two modules is `absent` from the start, so no states are multiplied.

### Bounds

* epoll: two descriptor numbers, each opened twice: enough for a number to be reused
  while the other end of the race still holds it; two caller threads; one interest
  set for reading and one for writing, so that a change of interests is visible in
  the mask; capacity 2 for `epoll_owners`, so that one poll handles two raw events, and
  1 for `epoll_waker`, so that a poll always leaves something for the next one. The
  eventfd counter stops at 1, so that a second wake meets a full counter.
* poll: one source and the Waker, two tokens, a pipe of two bytes. Sources meet only in
  the copy of the map, which the Waker shares.
* timeouts: `int` and `DWORD` of 4 bits, a second of 4 ms, timeouts from -9 to 24: both
  sides of every limit, and numbers that wrap around to negative and to zero.
* AFD: one socket value opened twice and two socket states; two flags, so that a poll
  can be widened; one fault. Sockets share nothing but the port, so a second one adds
  only other entries to the queue; the port's order is kept.
* net: two descriptors and two objects, so that accept, pairs, moves onto an object
  that has a descriptor and reuse compete for the numbers; one unit of data (receiving
  it is followed by a would-block), and one descriptor at a time whose readiness is in
  play (`MaxActive`, in `Bounded` and `RegisterBound`). Objects and descriptors are
  symmetric.
* signals: on Linux two signals and two threads, and one object, because two objects
  that share a signal break the rule above. On BSD and Windows two signals and two
  objects, a pipe of two, so that one signal fits twice and a third is dropped, and at
  most two entries in the console handler list: two objects leave one behind each time
  they alternate. The two objects are symmetric, which is sound with the liveness
  property of the run because that one speaks of the Linux module only.
* named pipe: a buffer of two bytes and three bytes sent, so that a read in flight,
  a partly read buffer and bytes in the pipe exist at once; a quota of two bytes, so
  that writes pend; sizes 0, 1 and 3, the last above the DWORD limit of 2.

### Fairness

`EpollSelector`: the program polls again and again, calls and the dispatch loop go on
(weak fairness), and `epoll_wait` serves its ready list round robin, which is what
Linux does (strong fairness for each handle). `AfdSelector`: the port is read, calls
go on, and the kernel completes an AFD poll that has something to report or is
cancelled (weak fairness). `Signals`: calls go on, the loop polls and looks at its
Events, and signals pause: `pending()` reads as long as there is something to read,
so a storm of signals keeps it from returning. `PollSelector`: the program polls again
and again, `poll` returns when something is ready or the timeout is over (weak
fairness), and `EINTR` does not come for ever.

## Findings

1. `Signals::on_registered` (`signals.cpp:385`) registers the descriptor that
   `register_source` has just registered. The error leaves a `noexcept` function, and
   the process ends. `on_deregistered` does the same. The header says signals come
   "as standard readable events inside the Poll loop", and the test `SignalsCatch`
   registers one. Run `signals_register`.
2. `TcpStream` does not override `source_kind()`. On Windows a registered stream is
   taken for a raw descriptor and watched by nothing, while `README.md:64` registers
   one. Run `net_stream`.
3. `select_epoll` looks the token up after `epoll_wait` returned. With another thread
   that deregisters, closes, opens and registers in between, the readiness of the old
   file is reported under the new token; `README.md:73` says that the token
   determines the socket. Run `epoll_token`.
4. `UnixDatagram::unbound(ec)` (`unix.cpp:648`) does not look at `ec` before it gives
   the descriptor to a constructor that throws for -1. When the descriptor table is
   full, the exception leaves a `noexcept` function. `README.md:9` says that all
   methods have `std::error_code` overloads. Run `unix_unbound`.

Seen while reading, without a run: `TcpListener::bind` always makes an IPv4 socket
(`net.cpp:704`); `send_vectored_to` in `unix.cpp:805` calls an undefined function; the
kqueue branch declares `std::vector<kevent>`; `poll()` is `noexcept` and does not
catch `bad_alloc` (`core.cpp:1333`); `connect(ec)` of a named pipe throws when the pending
connection has failed (`windows.cpp:121` calls `complete_connect_locked`, which throws).
The last is a step of `NamedPipe` (`connect_throws`), and so is the `prepare_fd` that ends
the process in `NetSource`.

## What is proved

`EpollSelectorProofs` holds for any number of handles, threads and tokens, any
interest sets, capacity and bounds. It uses the assumptions that `EpollSelector`
names: the bounds are natural numbers, interest sets are valid, `NoHandle` is no
handle.

* `TypeCorrect`: `Spec => []TypeOK`, under any discipline.
* `CallsSafe`: with `exclusive`, `Spec => []CallsInv`.
* `NoOrphans`, `Armed`, `EdgesKept`: with `exclusive`, the three invariants `NoOrphanEntry`,
  `RegistrationsArmed` and `NoLostEdge`, which are parts of `CallsInv`.
* `TokensFresh`: with `exclusive`, `Spec => []NoStaleToken`. No Event carries the token
  of an earlier holder of its descriptor number, because the token is looked up when
  the Event is made. Sources may be closed while they are registered.

None of the three parts is inductive. They speak of handles with no call in progress, so a
step that ends a call needs to know what the call found when it left `mutex_`:
`CallPhases` says that for each step of each call (nobody else has a call on the
handle; the entry has the call's interests; the kernel does not watch the file yet).
`KernelLists` says that only open files are watched and that the polling thread has
looked at all its raw events before it waits again. The proof splits the invariant
into a part per handle (`HandleInv`) and a part on raw events. A step works on one
handle, and `LocalStep` carries the parts of the others over. There is one step per
action.

* `WakersSafe`: with `exclusive` and `steady_wakers`, `Spec => []WakerInv`.
* `WakesKept`: with the same rules, `Spec => []WakeNotLost`.
* `DrainsOwn`: with `exclusive` alone, `Spec => DrainsOwnWaker`, with Wakers that are made
  and destroyed during polls. It rests on `CallsInv` and `DrainEntries`: an entry that
  drains itself was made for the file that now has its number, which is an open
  eventfd, since a Waker erases its entry before it closes its eventfd.

`WakerInv` rests on `CallsInv`. It says per number who may touch what (`WakerOwns`: an
entry drains itself exactly when it is the open eventfd's, the calls on an eventfd are
its Waker's, and none is written before its constructor is done) and where a raised
counter is seen (`WakerCounts`: its edge is on the ready list, among the raw events, or
about to be drained; a drain comes after the push of the token). `WakerPoll` says that
no Waker is made or destroyed during a poll.

* `ContractKept`: with `exclusive`, `Spec => Contract!Safety`, the safety part of
  `ImplementsContract`. Every step maps to a step of `SelectorContract` or to none.
* `DueKept`: with `exclusive`, `Spec => Contract!NothingLost`: no step takes a due
  report away unless it has put an Event of that handle into Events or the readiness
  has gone.

The refinement rests on `CallsInv`. `ContractEntry`, `ContractSets` and `ReportSets` say
what the mapped variables are in terms of one handle (`ReadyAt`, `DueAt`); a step leaves
the other handles alone (`Elsewhere`), so it is enough to see what it does to its own.
A register takes effect when `epoll_ctl` has returned, a deregister when the entry
leaves the map. `DueKept` follows from the contract's own steps.

`ReadinessProofs` holds for every condition of a socket and every interest set, and for
any ranges of `int` and `DWORD` that `TimeoutsAssumption` allows.

* `ReadinessReported`, `ClosedAgree`, `FailuresReported`: the three invariants of
  `SocketReadiness`. Each backend has a lemma that computes its Event from the
  conditions; the interests stay a set of kinds.
* `TimeoutsKept`: `WaitsAsAsked` for every timeout, with a lemma on the cast to `int`.

It also holds the theorems about `PollSelector`, for any sources, tokens and interests
and a pipe of any size. They use `PollAssumption`: the Waker's pipe is no source, the
pipe holds at least a byte, and the mark for no registration is none. They are stated of
`PollSelector`'s own `Spec`, which the specification of the run implies (`PollRuns`).

* `PollWakesKept`: `Spec => []WakeKept`. Until the program gets the event of the Waker it
  woke, that Waker is registered and its pipe holds a byte, or its own event is being
  collected, unless the byte was read for an earlier Waker of the same number. This
  is the safety behind `WakeReported`. It is inductive in `PollInv`, which adds that
  only the Waker's registration, in the map and in the copy a poll works on, is drained
  (`Registrations`, `IsSnapshot`) and that a drain comes after the push (`Scanning`).
* `PollContractKept` and `PollDueKept`: `Contract!Safety` and `Contract!NothingLost`. What
  is due is what is ready and not told since, so only a push can take a report away.

`AfdSelectorProofs` and `AfdSourceProofs` hold for any number of sockets, threads,
tokens, `AfdSocketState`s and faults. They use the assumptions `AfdSelector` names: the
bounds are natural numbers, and the marks for no entry and no token are neither.

* `TypeCorrect`: `Spec => []TypeOK`.
* `OneOperationEach`: `Spec => []OneOperation`, that is, one `iosb` is used by one poll.
* `SocketsStayArmed`: `Spec => []StaysArmed`.
* `EventsFromTheirSources`: `Spec => []EventFromItsSource`.
* `PollsSucceed`: `Spec => []PollSucceeds`.

The types are inductive only with what a call may rely on between its critical sections
(`Calls`: one call per socket; the entry of the socket has the state the call works on,
except while `add` is making it). `Single` takes `OneOperation` apart: a state that is not
idle has its poll in flight or once in the port, never both. `StaysArmed` is
inductive next to these. The last two theorems need `Holding`: only a state that is held,
by an entry of the map or by a `remove` that has yet to cancel it, is polled again
(`HeldActive`), in a careful program the socket of a held state is still the one it was
made for (`HeldOpen`), and so is the one a poll is about (`SameFile`). There is one lemma
per action for each of these, and lemmas on what a critical section does to one state
(`Changed`) and to the port.

* `ContractKept`: `Spec => Contract!Safety`, the safety part of `ImplementsContract`.
* `DueKept`: `Spec => Contract!NothingLost`.

Both hold with any number of failing system calls and of sockets closed while they are
registered; a socket on which poll could not start the next operation, or that was
closed, counts as no longer ready. The refinement needs two more invariants
(`Promising`): an update that has changed the map has yet to set exactly those interests
in the `AfdSocketState` (`Asked`), and an Event names a state that was made
(`EventsMade`). A step works on one state; if that is not the state of its socket's
entry, the completion is late and nothing is due (`OneStateContract`). A register takes
effect when `issue_afd_poll` has returned, a reregister when the map changes.

`NamedPipeProofs` holds for any sizes of reads and writes, any buffer, any quota of
the pipe and any DWORD limit.

* `FailuresTold` and `PendingOperationsWake`: `FailureTold` and `PendingWakes`. They are
  parts of `Control`, which says for each of the three operations whether it is idle, in
  flight, done or failed, what the object thinks of it, and where its packet is.
* `ReadsConserve` and `WritesConserve`: `ReadConserves` and `WriteConserves`. `Reads` says
  that what was returned, what is in `read_buffer_`, what has landed and what is in the
  pipe is what the peer sent, in order; `Writes` says the same for the other direction.
  They rest on `Control`: only a read that is done has landed bytes.
* `TypeCorrect`: `Spec => []TypeOK`, from the three together.

`SelfPipeProofs` holds for any sets of signals and objects, any size of the pipe and
any bound on the handler list, on both platforms; it assumes that `nullptr` is no
object.

* `HandlersSafe`: `Spec => []HandlerSafe`, with any number of objects at once. The
  invariant `SafeInv` adds where each call is: the object of a call is there, it is no
  longer the global one when it is about to go, and while a handler is between its look
  and its use the pointer is not cleared.
* `SignalsKept` and `DispositionsRestored`: `CaughtNotLost` and `HandlersRestored`, for
  one object at a time. They follow from `IInv`, which says how far each call has got:
  on BSD every caught signal is handled and every handled one is caught or being
  removed; on Windows the handler is there once exactly when a signal is caught or a
  call is about to add or remove one. Each call that changes this has a lemma.
* `TypeCorrect`: `Spec => []TypeOK`, for a pipe whose size is a natural number. `Sized`
  says that the pipe holds no more than fits.

`SignalsProofs` holds for any sets of threads, objects and signals; it assumes that the
mark for no signalfd is no set of signals.

* `OwedKept`: `Spec => []OwedNotLost`. In a careful program a signal raised after
  `add` has blocked it and before the call of `remove` is pending for an object that reads
  it, or is about to, or in what a running `pending()` is about to return.
* `MaskGivenBack`: `Spec => []MaskRestored`. Between two calls the main thread blocks
  exactly what its objects catch.

Both speak of the moments between two calls or of one thread's mask, and a call is
several system calls. `CarefulInv` says for each object how far the call on it has got
(`ObjectInv`: after `add` has blocked and before it has changed the signalfd the mask is
one signal ahead, and so on), that the main thread blocks what the masks want and the
other threads at least that (`MaskInv`; without it a signal to the process could be
taken by another thread), and that only the main thread calls (`MainOnly`). There is
one lemma per action; `Between` and `Began` say what holds when no call runs, and what
the begin of a call leaves alone.

* `TypesCorrect`, `AnyHandlerSafe`, `AnyCaughtKept`, `AnyRestored`: the invariants of the run
  `signals`, of its own specification `AnySpec`. A step of `AnySpec` is a step of `Signals`
  or of `SelfPipe`, so its invariant `AnyInv` puts those of the two modules together; the
  lemmas of `SelfPipeProofs` are used through an instance of that module.

`NetSourceProofs` holds for any number of objects and descriptors, on both backends,
for every interest set. It uses `NetAssumption`: the bounds are natural numbers,
interest sets are not empty, and the marks for no descriptor, no registration and no
class are none.

* `TypeCorrect`: `Spec => []TypeOK`.
* `DescriptorsOwned`: `Spec => []OneOwner`. It uses the library's facts on cardinality.
* `EntryRemembered`: `Spec => []RemembersItsEntry`.
* `ReadinessNotMissed`: `Spec => []ReadinessKept`.

The invariant has a part for each descriptor (`FdInv`: a closed one is neither watched
nor held; what is watched and ready has been told or is still to be reported), one for
each object (`ObjInv`: its descriptor is open and not the program's, what it remembers is
in the map unless the descriptor is adrift, and with epoll an entry of a descriptor it
remembers is watched), and one on who owns what (`OwnerInv`). For AFD `FdInv` is stronger
than `ReadinessKept`: every watched kind has been told or is armed, whether it is ready
or not, for a kind that is neither would be missed when it becomes ready later. That a
closed descriptor is not watched is what makes its number safe to use again. That an
entry is watched while an object remembers it is why `epoll_ctl(MOD)` does not fail in
`rearm_after_would_block` (`RearmSeen`). The many member functions come down to a few
kinds of steps (`NextCases`), each with a lemma; `AllBut` and `OnlyAt` carry the parts of
the other descriptors and objects over.

Only model-checked: all liveness (fairness is out of the prover's reach), so of the
three refinements of `SelectorContract` that every due report is made in the end, and
`WakeAnswered` and `WakeReported`; and `HandlerNotStuck` (it uses `ENABLED`). Every other
invariant of a passing run is a theorem, and so is the safety part of each refinement.

## Not modelled, or not judged

* kqueue's order of changes: that branch does not compile as it stands.
* Moves of `Poll`, and a source registered with two Polls.
* The passing of time. A wait may end at any moment, which includes every timeout;
  that `select_iocp` starts its timeout anew after a completion without an Event is
  not visible.
* Socket options, endpoints, `take_error`, addresses and resolution: single system
  calls or byte layout. `send_vectored_to` of `unix.cpp`, which does not link.
* Moves of a pipe that is not idle, and memory freed while a cancelled operation
  still runs.
* Two Registry calls on one handle at once. `add`'s rollback then erases another
  call's entry, and `registrations_.at` can throw.
* On Windows, a socket closed while registered: AFD reports `local_close`, the map
  keeps the entry, and a later reregister succeeds and does nothing. `ReadinessKept`
  makes no promise for such a source, for nothing watches it.
* A Waker destroyed between `find()` and `drain_descriptor`: the read takes from whatever
  file has the number by then. `EpollSelector` has the step, and no property forbids it.
* On BSD, a handler in another thread than the one that uses the objects.
* `POLLNVAL`: the sources of `PollSelector` are not closed, and its reports are compared by
  source, not by token.
* Whether `SetConsoleCtrlHandler` waits for a handler that is running.

