------------------------------ MODULE SelfPipe ------------------------------
(***************************************************************************)
(* Signals on BSD and macOS, where a signal handler writes to a pipe, and  *)
(* on Windows, where a console handler sends to a loopback socket: the     *)
(* global instance, its mutex, and the handlers that run meanwhile.        *)
(*                                                                         *)
(* On BSD a handler interrupts the thread that uses the objects, between   *)
(* any two of its steps, and takes no lock; nothing else of that thread    *)
(* moves until it returns.  On Windows it has a thread of its own and      *)
(* waits for global_mutex.  The objects are used by one thread, and on BSD *)
(* the other threads block the signals.  A move of a Signals object moves  *)
(* a pointer to its Impl and changes nothing here.                         *)
(***************************************************************************)
EXTENDS Naturals, Sequences

CONSTANTS
  Sigs,      \* signals whose default action ends the process
  Objects,   \* Impl objects
  PipeCap,   \* what fits into a pipe or a socket buffer
  MaxConsole, \* bound on the entries two objects at once leave in the handler list
  NoObject   \* nullptr

VARIABLES
  platform,           \* "bsd" or "windows"
  process,            \* "runs", or "killed" by a default action
  alive,              \* objects whose constructor has begun and that are not freed
  global_instance,
  registered_signals, \* object -> its set
  queue,              \* object -> what its pipe holds
  call,               \* the call in progress
  handling,           \* signal -> where its handler is
  handled,            \* BSD: signals whose disposition is handler_routine
  console,            \* Windows: entries for handler_routine in the handler list
  \* history, kept as long as there were never two objects at once
  alone,              \* there were not
  caught,             \* object -> signals whose add has returned and whose remove has not begun
  owed                \* signals raised while caught and not yet returned by pending

objectVars == <<alive, global_instance, registered_signals, queue>>
systemVars == <<handling, handled, console>>
historyVars == <<alone, caught, owed>>
vars == <<platform, process, objectVars, call, systemVars, historyVars>>

InQueue(i, s) == \E k \in 1..Len(queue[i]) : queue[i][k] = s

NoCall == [op |-> "none", object |-> NoObject, sigs |-> {}]

Running == process = "runs"

Bsd == platform = "bsd"

------------------------------------------------------------------------------
\* global_mutex, and whose turn it is

\* The steps at which the calling thread has the mutex.
Locked == call.op \in {"add", "add_insert", "remove", "drop", "drop_close"}

HandlerLocked == ~Bsd /\ \E s \in Sigs : handling[s] = "checked"

Free == ~Locked /\ ~HandlerLocked

\* The calling thread runs, and is not interrupted by a handler.
Turn == Running /\ (Bsd => \A s \in Sigs : handling[s] = "none")

May(i) == Turn /\ call = NoCall /\ i \in alive

Begin(name, i, sigs) == call' = [op |-> name, object |-> i, sigs |-> sigs]

In(name) == Turn /\ call.op = name

Return == call' = NoCall

------------------------------------------------------------------------------
\* Signals (external): a handler starts or the default action is taken.

Raise(s) ==
  /\ Running /\ handling[s] = "none"
  /\ IF (IF Bsd THEN s \in handled ELSE console > 0)
     THEN handling' = [handling EXCEPT ![s] = "begun"] /\ UNCHANGED process
     ELSE process' = "killed" /\ UNCHANGED handling
  /\ owed' = IF \E i \in Objects : s \in caught[i] THEN owed \cup {s} ELSE owed
  /\ UNCHANGED <<platform, objectVars, call, handled, console, alone, caught>>

------------------------------------------------------------------------------
\* Impl::handler_routine

\* A variant that takes the lock on BSD too.
BsdHandlerChecks_locks(s) ==
  /\ Running /\ Bsd /\ handling[s] = "begun"
  /\ Free
  /\ handling' = [handling EXCEPT ![s] = IF global_instance = NoObject THEN "none" ELSE "checked"]
  /\ UNCHANGED <<platform, process, objectVars, call, handled, console, historyVars>>

BsdHandlerChecks(s) ==
  /\ Running /\ Bsd /\ handling[s] = "begun"
  /\ handling' = [handling EXCEPT ![s] = IF global_instance = NoObject THEN "none" ELSE "checked"]
  /\ UNCHANGED <<platform, process, objectVars, call, handled, console, historyVars>>

\* FALSE is returned for a signal nobody has added, and the process ends.
WinHandlerChecks(s) ==
  /\ Running /\ ~Bsd /\ handling[s] = "begun"
  /\ Free
  /\ IF global_instance # NoObject /\ s \in registered_signals[global_instance]
     THEN handling' = [handling EXCEPT ![s] = "checked"] /\ UNCHANGED process
     ELSE handling' = [handling EXCEPT ![s] = "none"] /\ process' = "killed"
  /\ UNCHANGED <<platform, objectVars, call, handled, console, historyVars>>

\* Neither write nor sendto waits: a signal that finds the pipe full is dropped.
HandlerWrites(s) ==
  LET full == Len(queue[global_instance]) >= PipeCap
  IN /\ Running /\ handling[s] = "checked"
     /\ queue' = IF full THEN queue ELSE [queue EXCEPT ![global_instance] = Append(@, s)]
     /\ owed' = IF full THEN owed \ {s} ELSE owed
     /\ handling' = [handling EXCEPT ![s] = "none"]
     /\ UNCHANGED <<platform, process, alive, global_instance, registered_signals, call,
                    handled, console, alone, caught>>

------------------------------------------------------------------------------
\* Construction and destruction

\* The pipe or the sockets.  An object whose constructor fails here is not used: it
\* never becomes the global instance.
NewPipe(i) ==
  /\ Turn /\ call = NoCall /\ i \notin alive
  /\ alive' = alive \cup {i}
  /\ IF alive = {} THEN UNCHANGED historyVars
     ELSE alone' = FALSE /\ caught' = [j \in Objects |-> {}] /\ owed' = {}
  /\ Begin("new", i, {})
  /\ UNCHANGED <<platform, process, global_instance, registered_signals, queue, systemVars>>

NewGlobal ==
  /\ In("new") /\ Free
  /\ global_instance' = call.object
  /\ Return
  /\ UNCHANGED <<platform, process, alive, registered_signals, queue, systemVars, historyVars>>

Catches(i, sigs) ==
  caught' = IF alone THEN [caught EXCEPT ![i] = @ \cup sigs] ELSE caught

GivesUp(i, sigs) ==
  /\ caught' = [caught EXCEPT ![i] = @ \ sigs]
  /\ owed' = owed \ sigs
  /\ UNCHANGED alone

\* BSD: the default dispositions first, then the pointer.
BsdDropReset(i) ==
  /\ May(i) /\ Bsd
  /\ handled' = IF global_instance = i THEN handled \ registered_signals[i] ELSE handled
  /\ GivesUp(i, Sigs)
  /\ Begin("drop", i, {})
  /\ UNCHANGED <<platform, process, objectVars, handling, console>>

BsdDropGlobal ==
  /\ In("drop") /\ Bsd
  /\ global_instance' = IF global_instance = call.object THEN NoObject ELSE global_instance
  /\ Begin("drop_close", call.object, {})
  /\ UNCHANGED <<platform, process, alive, registered_signals, queue, systemVars, historyVars>>

Uninstalled(n) == IF n > 0 THEN n - 1 ELSE n

\* A variant that leaves the pointer.
WinDropGlobal_keeps(i) ==
  /\ May(i) /\ ~Bsd /\ Free
  /\ console' = IF global_instance = i THEN Uninstalled(console) ELSE console
  /\ GivesUp(i, Sigs)
  /\ Begin("drop_close", i, {})
  /\ UNCHANGED <<platform, process, objectVars, handling, handled>>

\* Windows: one critical section that no handler can look into.
WinDropGlobal(i) ==
  /\ May(i) /\ ~Bsd /\ Free
  /\ IF global_instance = i
     THEN global_instance' = NoObject /\ console' = Uninstalled(console)
     ELSE UNCHANGED <<global_instance, console>>
  /\ GivesUp(i, Sigs)
  /\ Begin("drop_close", i, {})
  /\ UNCHANGED <<platform, process, alive, registered_signals, queue, handling, handled>>

DropClose ==
  /\ In("drop_close")
  /\ alive' = alive \ {call.object}
  /\ registered_signals' = [registered_signals EXCEPT ![call.object] = {}]
  /\ queue' = [queue EXCEPT ![call.object] = <<>>]
  /\ Return
  /\ UNCHANGED <<platform, process, global_instance, systemVars, historyVars>>

------------------------------------------------------------------------------
\* add and remove

Inserted(i, s) == registered_signals' = [registered_signals EXCEPT ![i] = @ \cup {s}]

Erased(i, s) == registered_signals' = [registered_signals EXCEPT ![i] = @ \ {s}]

BsdAddInsert(i, s) ==
  /\ May(i) /\ Bsd
  /\ Inserted(i, s)
  /\ Begin("add", i, {s})
  /\ UNCHANGED <<platform, process, alive, global_instance, queue, systemVars, historyVars>>

\* sigaction may fail, the set keeps the signal.
BsdAddSigaction ==
  /\ In("add") /\ Bsd
  /\ \/ /\ handled' = handled \cup call.sigs
        /\ Catches(call.object, call.sigs)
     \/ UNCHANGED <<handled, caught>>
  /\ Return
  /\ UNCHANGED <<platform, process, objectVars, handling, console, alone, owed>>

\* A variant that installs the handler once more for each signal.
WinAddInstall_always(i, s) ==
  /\ May(i) /\ ~Bsd /\ Free
  /\ console < MaxConsole
  /\ console' = console + 1
  /\ Begin("add_insert", i, {s})
  /\ UNCHANGED <<platform, process, objectVars, handling, handled, historyVars>>

\* When SetConsoleCtrlHandler fails, add returns and nothing has changed.
WinAddInstall(i, s) ==
  /\ May(i) /\ ~Bsd /\ Free
  /\ console < MaxConsole
  /\ console' = IF registered_signals[i] = {} THEN console + 1 ELSE console
  /\ Begin("add_insert", i, {s})
  /\ UNCHANGED <<platform, process, objectVars, handling, handled, historyVars>>

WinAddInsert ==
  /\ In("add_insert")
  /\ \E s \in call.sigs : Inserted(call.object, s)
  /\ Catches(call.object, call.sigs)
  /\ Return
  /\ UNCHANGED <<platform, process, alive, global_instance, queue, systemVars, alone, owed>>

RemoveErase(i, s) ==
  /\ May(i) /\ Free
  /\ Erased(i, s)
  /\ GivesUp(i, {s})
  /\ Begin("remove", i, {s})
  /\ UNCHANGED <<platform, process, alive, global_instance, queue, systemVars>>

BsdRemoveDefault ==
  /\ In("remove") /\ Bsd
  /\ handled' = handled \ call.sigs
  /\ Return
  /\ UNCHANGED <<platform, process, objectVars, handling, console, historyVars>>

\* A variant that takes it out with the first signal.
WinRemoveUninstall_first ==
  /\ In("remove") /\ ~Bsd
  /\ console' = Uninstalled(console)
  /\ Return
  /\ UNCHANGED <<platform, process, objectVars, handling, handled, historyVars>>

\* Taken out when the set is empty, also if it was before.
WinRemoveUninstall ==
  /\ In("remove") /\ ~Bsd
  /\ console' = IF registered_signals[call.object] = {} THEN Uninstalled(console) ELSE console
  /\ Return
  /\ UNCHANGED <<platform, process, objectVars, handling, handled, historyVars>>

------------------------------------------------------------------------------
\* pending: call.sigs is what was read so far

PendingBegin(i) ==
  /\ May(i)
  /\ Begin("pending", i, {})
  /\ UNCHANGED <<platform, process, objectVars, systemVars, historyVars>>

PendingRead ==
  LET q == queue[call.object]
  IN /\ In("pending") /\ q # <<>>
     /\ queue' = [queue EXCEPT ![call.object] = Tail(@)]
     /\ Begin("pending", call.object, call.sigs \cup {Head(q)})
     /\ UNCHANGED <<platform, process, alive, global_instance, registered_signals, systemVars,
                    historyVars>>

\* A signal that was read is no longer owed, unless it was raised again since.
Again(s) == handling[s] # "none" \/ InQueue(call.object, s)

PendingReturn ==
  /\ In("pending") /\ queue[call.object] = <<>>
  /\ owed' = owed \ {s \in call.sigs : ~Again(s)}
  /\ Return
  /\ UNCHANGED <<platform, process, objectVars, systemVars, alone, caught>>

------------------------------------------------------------------------------
InitAs(running) ==
  /\ platform \in {"bsd", "windows"}
  /\ process = running
  /\ alive = {} /\ global_instance = NoObject
  /\ registered_signals = [i \in Objects |-> {}]
  /\ queue = [i \in Objects |-> <<>>]
  /\ call = NoCall
  /\ handling = [s \in Sigs |-> "none"]
  /\ handled = {} /\ console = 0
  /\ alone = TRUE
  /\ caught = [i \in Objects |-> {}]
  /\ owed = {}

Init == InitAs("runs")

CallBegins(i) ==
  \/ NewPipe(i) \/ BsdDropReset(i) \/ WinDropGlobal(i) \/ PendingBegin(i)
  \/ \E s \in Sigs : BsdAddInsert(i, s) \/ WinAddInstall(i, s) \/ RemoveErase(i, s)

CallGoesOn ==
  \/ NewGlobal \/ BsdDropGlobal \/ DropClose
  \/ BsdAddSigaction \/ WinAddInsert \/ BsdRemoveDefault \/ WinRemoveUninstall
  \/ PendingRead \/ PendingReturn

Handler(s) == BsdHandlerChecks(s) \/ WinHandlerChecks(s) \/ HandlerWrites(s)

Next ==
  \/ CallGoesOn \/ \E i \in Objects : CallBegins(i)
  \/ \E s \in Sigs : Raise(s) \/ Handler(s)

Spec == Init /\ [][Next]_vars

------------------------------------------------------------------------------
\* Every variable has its type: the pipe never holds more than fits.
TypeOK ==
  /\ platform \in {"bsd", "windows"}
  /\ process \in {"absent", "runs", "killed"}
  /\ alive \subseteq Objects /\ global_instance \in Objects \cup {NoObject}
  /\ registered_signals \in [Objects -> SUBSET Sigs]
  /\ \A i \in Objects : queue[i] \in Seq(Sigs) /\ Len(queue[i]) <= PipeCap
  /\ handling \in [Sigs -> {"none", "begun", "checked"}]
  /\ handled \subseteq Sigs /\ console \in Nat

\* What a handler reads through global_instance is there: the pointer is null or
\* points to an object when it looks, and to an object with its pipe when it writes,
\* although it reads the pointer twice.  On BSD that is because it interrupts the
\* destructor as a whole, on Windows because of global_mutex.
HandlerSafe ==
  \A s \in Sigs :
    /\ handling[s] = "begun" /\ (Bsd \/ Free) => global_instance \in alive \cup {NoObject}
    /\ handling[s] = "checked" => global_instance \in alive

\* A signal raised after add has returned and before remove or the destructor is
\* called neither takes its default action nor goes to another object, unless the
\* pipe is full: it stays on its way until pending() has returned it.
CaughtNotLost ==
  alone => \A s \in owed :
    \/ handling[s] # "none"
    \/ call.op = "pending" /\ s \in call.sigs
    \/ \E i \in alive : InQueue(i, s)

\* remove and the destructor take back what add has done: between two calls the
\* handlers in place are those of the signals that are caught.  A second object
\* breaks this, for the first one's destructor then leaves its handlers.
HandlersRestored ==
  alone /\ call = NoCall =>
    LET all == UNION {caught[i] : i \in Objects}
    IN IF Bsd THEN handled = all ELSE console = IF all = {} THEN 0 ELSE 1

\* No handler waits for ever: it can go on itself, or the thread that has the lock
\* it waits for can.  On BSD it must not lock, for it may have interrupted the thread
\* that has the lock.
HandlerNotStuck ==
  Running /\ (\E s \in Sigs : handling[s] # "none") =>
    ENABLED CallGoesOn \/ \E s \in Sigs : ENABLED Handler(s)

=============================================================================
