---------------------------- MODULE MCReadiness ----------------------------
(***************************************************************************)
(* What a program hears of a socket and, when there is nothing to hear,    *)
(* how long it waits, on every backend; and the backend that has no other  *)
(* module, poll, at work.  The two are independent: each moves while the   *)
(* other rests.                                                            *)
(***************************************************************************)
EXTENDS SocketReadiness, Timeouts, FiniteSets

CONSTANTS Sources, waker, Tokens, InterestSets, PollKinds, PipeCap, Capacity, NoReg

ASSUME PollAssumption ==
  /\ waker \notin Sources
  /\ PipeCap \in Nat \ {0}
  /\ Capacity \in Nat
  /\ NoReg \notin [token : Tokens, interests : InterestSets \cup {{"READABLE"}}, auto_drain : BOOLEAN]
  /\ NoReg \notin [token : Tokens, interests : InterestSets]

VARIABLES registrations_, select, level, pipe, told, woken

pollVars == <<registrations_, select, level, pipe, told, woken>>

Fallback == INSTANCE PollSelector WITH Kinds <- PollKinds

AskedTimeouts == -9..24

AllInit == Init /\ timeout = NoTimeout /\ Fallback!Init

SocketRests == conditions = {} /\ interests = {"READABLE"} /\ timeout = NoTimeout

PollRests ==
  /\ select = Fallback!NoSelect
  /\ \A h \in Sources \cup {waker} : registrations_[h] = NoReg
  /\ \A h \in Sources : level[h] = {}

AllNext ==
  \/ PollRests /\ Next /\ timeout' = NoTimeout /\ UNCHANGED pollVars
  \/ PollRests /\ conditions = {} /\ timeout' \in Asked /\ UNCHANGED <<vars, pollVars>>
  \/ SocketRests /\ Fallback!Next /\ UNCHANGED <<vars, timeout>>

AllSpec == AllInit /\ [][AllNext]_<<vars, timeout, pollVars>> /\ Fallback!Fairness

------------------------------------------------------------------------------
\* Every wake is followed by Events that hold the event of the Waker it was called
\* on, also when poll is already waiting without a timeout, is just returning, or the
\* pipe is full; except that a Waker made during a poll, with the number an earlier
\* Waker had when that poll began, can lose its wake to the event of the earlier one.
WakeReported == Fallback!WakeReported

\* With poll, too, the selector behaves as the atomic registry of SelectorContract
\* and makes every report that is due, once and then again while readiness lasts.
ImplementsContract == Fallback!ImplementsContract

============================================================================
