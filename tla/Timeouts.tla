------------------------------ MODULE Timeouts ------------------------------
(***************************************************************************)
(* From the timeout of Poll::poll to how long each backend waits when      *)
(* nothing is ready.  The ranges of the C types are parameters; the number *)
(* of milliseconds itself (64 bits in the code) does not overflow.         *)
(***************************************************************************)
EXTENDS Integers, FiniteSetsExt

CONSTANTS
  int_max,     \* the largest int
  INFINITE,    \* the largest DWORD: no timeout
  Second,      \* milliseconds in a second
  Asked,       \* timeouts a program gives, in milliseconds
  NoTimeout,   \* std::nullopt
  Forever,     \* a wait that only an event ends
  Refused      \* the system call fails with EINVAL

VARIABLE timeout \* the timeout of the poll in progress

ASSUME TimeoutsAssumption ==
  /\ {int_max, INFINITE, Second} \subseteq Nat \ {0}
  /\ Asked \subseteq Int
  /\ NoTimeout \notin Int

\* static_cast<int>: int has 2 * (int_max + 1) values.
ToInt(n) == ((n + int_max + 1) % (2 * (int_max + 1))) - (int_max + 1)

clamp_timeout(t) == IF t = NoTimeout THEN -1 ELSE IF t < 0 THEN 0 ELSE t

------------------------------------------------------------------------------
\* The system calls (external)

WaitsMs(ms) == IF ms < 0 THEN Forever ELSE ms

WaitsDword(ms) == IF ms = INFINITE THEN Forever ELSE ms

WaitsTimespec(ts) == IF ts.sec < 0 \/ ts.ms < 0 THEN Refused ELSE ts.sec * Second + ts.ms

------------------------------------------------------------------------------
\* The backends

\* A variant that casts at once.
EpollWait_cast(t) == WaitsMs(ToInt(clamp_timeout(t)))

EpollWait(t) == WaitsMs(ToInt(Min({clamp_timeout(t), int_max})))

PollWait(t) == WaitsMs(ToInt(clamp_timeout(t)))

IocpWait(t) ==
  LET ms == clamp_timeout(t)
  IN WaitsDword(IF ms < 0 THEN INFINITE ELSE Min({ms, INFINITE - 1}))

\* duration_cast rounds towards zero; the part below a second is kept in ms here.
to_timespec(ms) ==
  LET sec == IF ms < 0 THEN -((-ms) \div Second) ELSE ms \div Second
  IN [sec |-> sec, ms |-> ms - sec * Second]

KqueueWait(t) ==
  IF t = NoTimeout THEN Forever ELSE WaitsTimespec(to_timespec(t))

------------------------------------------------------------------------------
\* What was asked for, or the longest wait the backend has.
AsAsked(t, longest) ==
  IF t = NoTimeout THEN Forever ELSE Min({Max({t, 0}), longest})

\* No backend turns a timeout into a wait for ever or into a shorter one than it
\* can do, and none turns std::nullopt into a timeout.  select_epoll and select_iocp
\* keep to this for every timeout; select_poll, which casts without a limit, up to
\* the largest int; select_kqueue, which does not clamp, from zero on.
WaitsAsAsked ==
  /\ EpollWait(timeout) = AsAsked(timeout, int_max)
  /\ IocpWait(timeout) = AsAsked(timeout, INFINITE - 1)
  /\ (timeout = NoTimeout \/ timeout <= int_max) => PollWait(timeout) = AsAsked(timeout, int_max)
  /\ timeout = NoTimeout => KqueueWait(timeout) = Forever
  /\ timeout # NoTimeout /\ timeout >= 0 => KqueueWait(timeout) = timeout

=============================================================================
