--------------------------- MODULE SocketReadiness ---------------------------
(***************************************************************************)
(* One socket whose state changes under a registration whose interests     *)
(* change, seen through the four backends: does a program that asks for    *)
(* READABLE, WRITABLE or PRIORITY hear the same thing on every platform?   *)
(***************************************************************************)
EXTENDS Readiness

VARIABLES interests,   \* the Interest the source is registered with
          conditions   \* what is true of the socket

vars == <<interests, conditions>>

Conditions == {"data", "accept", "space", "oob", "fin", "reset", "refused"}

\* Conditions after which the socket transfers nothing any more.
Failures == {"reset", "refused"}

------------------------------------------------------------------------------
\* How the kernels show a condition (external).

LinuxFlags(cs) ==
  When(Meets(cs, {"data", "accept"}), {"IN"})
    \cup When("space" \in cs, {"OUT"})
    \cup When("oob" \in cs, {"PRI"})
    \cup When("fin" \in cs, {"IN", "RDHUP"})
    \cup When(Meets(cs, Failures), {"IN", "OUT", "RDHUP", "HUP", "ERR"})

AfdFlags(cs) ==
  When("data" \in cs, {"receive"})
    \cup When("accept" \in cs, {"accept"})
    \cup When("space" \in cs, {"send"})
    \cup When("oob" \in cs, {"receive_expedited"})
    \cup When("fin" \in cs, {"disconnect"})
    \cup When("reset" \in cs, {"abort"})
    \cup When("refused" \in cs, {"connect_fail"})

KqueueFires(filter, cs) ==
  \/ filter = "READABLE" /\ Meets(cs, {"data", "accept", "fin"} \cup Failures)
  \/ filter = "WRITABLE" /\ Meets(cs, {"space"} \cup Failures)

KqueueFlags(cs) == When(Meets(cs, {"fin"} \cup Failures), {"EV_EOF"})

------------------------------------------------------------------------------
\* What each selector reports for the socket.

ViaEpoll == EpollEvent(LinuxFlags(conditions) \cap to_epoll_events(interests))

ViaAfd == AfdEvent(AfdFlags(conditions) \cap interests_to_afd_flags(interests))

ViaPoll == PollEvent(LinuxFlags(conditions) \cap PollRequest(interests))

ViaKqueue ==
  {KqueueEvent(filter, KqueueFlags(conditions)) :
     filter \in {f \in KqueueFilters(interests) : KqueueFires(f, conditions)}}

------------------------------------------------------------------------------
Init == interests \in ValidInterests /\ conditions = {}

Widen(kind) ==
  /\ interests' = InterestAdd(interests, {kind})
  /\ UNCHANGED conditions

\* Interest::remove returns std::nullopt rather than the empty set.
Narrow(kind) ==
  /\ InterestRemove(interests, {kind}) # {}
  /\ interests' = InterestRemove(interests, {kind})
  /\ UNCHANGED conditions

Arise(condition) ==
  /\ conditions' = conditions \cup {condition}
  /\ UNCHANGED interests

Cease(condition) ==
  /\ conditions' = conditions \ {condition}
  /\ UNCHANGED interests

Next ==
  \/ \E kind \in Kinds : Widen(kind) \/ Narrow(kind)
  \/ \E condition \in Conditions : Arise(condition) \/ Cease(condition)

Spec == Init /\ [][Next]_vars

------------------------------------------------------------------------------
\* The requested kinds for which the socket really is ready.
Expected ==
  interests \cap
    (When(Meets(conditions, {"data", "accept", "fin"} \cup Failures), {"READABLE"})
       \cup When(Meets(conditions, {"space"} \cup Failures), {"WRITABLE"})
       \cup When("oob" \in conditions, {"PRIORITY"}))

\* Every backend reports a kind the program asked for exactly when the socket
\* is ready for it: to_epoll_events and interests_to_afd_flags request enough,
\* and from_epoll_events, afd_flags_to_interest and select_poll lose nothing on
\* the way back.  kqueue has no filter for PRIORITY, so it is left out there.
RequestedReadinessReported ==
  /\ ViaEpoll.readiness \cap interests = Expected
  /\ ViaAfd.readiness \cap interests = Expected
  /\ ViaPoll.readiness \cap interests = Expected
  /\ UNION {event.readiness : event \in ViaKqueue} = Expected \ {"PRIORITY"}

\* epoll and AFD agree on is_read_closed and is_write_closed for every socket
\* state and every interest set.
ClosedFlagsAgree ==
  /\ ViaEpoll.read_closed = ViaAfd.read_closed
  /\ ViaEpoll.write_closed = ViaAfd.write_closed

\* A reset or a refused connection is reported, with both directions closed,
\* even to a program that asked for PRIORITY, AIO or LIO only.
FailureAlwaysReported ==
  Meets(conditions, Failures) =>
    \A event \in {ViaEpoll, ViaAfd} :
      event.readiness # {} /\ event.read_closed /\ event.write_closed

==============================================================================
