----------------------------- MODULE MCSignals -----------------------------
(***************************************************************************)
(* Signals on its three platforms.  A behaviour is that of one program: of *)
(* one with the signalfd (Signals), or of one with the pipe or the console *)
(* handler (SelfPipe); the other is absent and takes no step.              *)
(***************************************************************************)
EXTENDS Signals, Naturals, Sequences, TLC

CONSTANTS Impls, PipeCap, MaxConsole, NoObject

VARIABLES
  platform, pipe_process, alive, global_instance, registered_signals, queue, pipe_call,
  handling, handled, console, alone, pipe_caught, pipe_owed

pipeVars == <<platform, pipe_process, alive, global_instance, registered_signals, queue,
              pipe_call, handling, handled, console, alone, pipe_caught, pipe_owed>>

Pipe == INSTANCE SelfPipe
  WITH Objects <- Impls, process <- pipe_process, call <- pipe_call,
       caught <- pipe_caught, owed <- pipe_owed

AnyInit ==
  \/ InitAs("runs") /\ Pipe!InitAs("absent") /\ platform = "bsd"
  \/ InitAs("absent") /\ Pipe!InitAs("runs")

AnyNext ==
  \/ Next /\ UNCHANGED pipeVars
  \/ Pipe!Next /\ UNCHANGED vars

AnySpec == AnyInit /\ [][AnyNext]_<<vars, pipeVars>> /\ Fairness

\* The Impls are interchangeable: no fairness condition and no liveness property
\* mentions them.
Symmetry == Permutations(Impls)

------------------------------------------------------------------------------
\* Every variable has its type on every platform: epoll has only descriptors the
\* map knows, a pipe never holds more than fits.
TypesOK == TypeOK /\ Pipe!TypeOK

\* What a handler reads through global_instance is there: the pointer is null or
\* points to an object when it looks, and to an object with its pipe when it writes,
\* although it reads the pointer twice.  On BSD that is because it interrupts the
\* destructor as a whole, on Windows because of global_mutex.
HandlerSafe == Pipe!HandlerSafe

\* A signal raised after add has returned and before remove or the destructor is
\* called neither takes its default action nor goes to another object, unless the
\* pipe is full: it stays on its way until pending() has returned it.
CaughtNotLost == Pipe!CaughtNotLost

\* remove and the destructor take back what add has done: between two calls the
\* handlers in place are those of the signals that are caught.
HandlersRestored == Pipe!HandlersRestored

\* No handler waits for ever: it can go on itself, or the thread that has the lock
\* it waits for can.  On BSD it must not lock, for it may have interrupted the thread
\* that has the lock.
HandlerNotStuck == Pipe!HandlerNotStuck

=============================================================================
