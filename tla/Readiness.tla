------------------------------ MODULE Readiness ------------------------------
(***************************************************************************)
(* Interests, and what each backend makes of them: the flags a selector    *)
(* asks the kernel for and the Event it builds from the flags the kernel   *)
(* reports.  An Interest (five bits of a byte in the code) is the set of   *)
(* the bits that are on, a word of kernel flags the set of its flags.      *)
(***************************************************************************)

Kinds == {"READABLE", "WRITABLE", "AIO", "LIO", "PRIORITY"}

\* Interest::add, and Interest::remove with {} for std::nullopt.
InterestAdd(interests, other) == interests \cup other

InterestRemove(interests, other) == interests \ other

\* Selector::validate: an empty interest set is refused.
ValidInterests == (SUBSET Kinds) \ {{}}

\* Flags the code asks for when a condition holds.
When(condition, flags) == IF condition THEN flags ELSE {}

\* (a & b) != 0
Meets(a, b) == a \cap b # {}

Event(readiness, error, read_closed, write_closed) ==
  [readiness    |-> readiness,
   error        |-> error,
   read_closed  |-> read_closed,
   write_closed |-> write_closed]

------------------------------------------------------------------------------
\* epoll

EpollFlags == {"IN", "OUT", "PRI", "RDHUP", "HUP", "ERR", "ET"}

\* Without EPOLLRDHUP a half-closed peer shows as plain input.
to_epoll_events_no_rdhup(interests) ==
  {"ERR", "HUP", "ET"}
    \cup When("READABLE" \in interests, {"IN"})
    \cup When("WRITABLE" \in interests, {"OUT"})
    \cup When("PRIORITY" \in interests, {"PRI"})

\* PRIORITY forgotten in the translation.
to_epoll_events_no_pri(interests) ==
  {"ERR", "HUP", "ET"}
    \cup When("READABLE" \in interests, {"IN", "RDHUP"})
    \cup When("WRITABLE" \in interests, {"OUT"})

to_epoll_events(interests) ==
  {"ERR", "HUP", "ET"}
    \cup When("READABLE" \in interests, {"IN", "RDHUP"})
    \cup When("WRITABLE" \in interests, {"OUT"})
    \cup When("PRIORITY" \in interests, {"PRI"})

from_epoll_events(flags) ==
  When(Meets(flags, {"IN", "RDHUP", "HUP"}), {"READABLE"})
    \cup When("OUT" \in flags, {"WRITABLE"})
    \cup When("PRI" \in flags, {"PRIORITY"})

\* The Event select_epoll pushes for the flags of one epoll_event.
EpollEvent(flags) ==
  Event(from_epoll_events(flags),
        "ERR" \in flags,
        Meets(flags, {"RDHUP", "HUP"}),
        "HUP" \in flags \/ {"ERR", "OUT"} \subseteq flags)

------------------------------------------------------------------------------
\* AFD (Windows)

afd_readable_flags     == {"receive", "disconnect", "accept", "abort", "connect_fail"}
afd_writable_flags     == {"send", "abort", "connect_fail"}
afd_error_flags        == {"connect_fail"}
afd_read_closed_flags  == {"disconnect", "abort", "connect_fail"}
afd_write_closed_flags == {"abort", "connect_fail"}

\* Asking for the conditions that were named, and for no failure beyond them.
interests_to_afd_flags_exact(interests) ==
  When("READABLE" \in interests, {"receive", "disconnect", "accept"})
    \cup When("WRITABLE" \in interests, {"send"})
    \cup When("PRIORITY" \in interests, {"receive_expedited"})

interests_to_afd_flags(interests) ==
  When("READABLE" \in interests,
       afd_readable_flags \cup afd_read_closed_flags \cup afd_error_flags)
    \cup When("WRITABLE" \in interests,
              afd_writable_flags \cup afd_write_closed_flags \cup afd_error_flags)
    \cup When("PRIORITY" \in interests, {"receive_expedited"})
    \cup {"abort", "connect_fail"}

afd_flags_to_interest(flags) ==
  When(Meets(flags, afd_readable_flags), {"READABLE"})
    \cup When(Meets(flags, afd_writable_flags), {"WRITABLE"})
    \cup When("receive_expedited" \in flags, {"PRIORITY"})

\* The Event complete_afd_operation pushes.
AfdEvent(flags) ==
  Event(afd_flags_to_interest(flags),
        Meets(flags, afd_error_flags),
        Meets(flags, afd_read_closed_flags),
        Meets(flags, afd_write_closed_flags))

------------------------------------------------------------------------------
\* poll(2), the fallback

PollRequest(interests) ==
  {"ERR", "HUP"}
    \cup When("READABLE" \in interests, {"IN"})
    \cup When("WRITABLE" \in interests, {"OUT"})
    \cup When("PRIORITY" \in interests, {"PRI"})

PollEvent(revents) ==
  Event(When(Meets(revents, {"IN", "HUP"}), {"READABLE"})
          \cup When("OUT" \in revents, {"WRITABLE"})
          \cup When("PRI" \in revents, {"PRIORITY"}),
        "ERR" \in revents, "HUP" \in revents, "HUP" \in revents)

------------------------------------------------------------------------------
\* kqueue: one filter per kind of interest, one event per filter

KqueueFilters(interests) == interests \ {"PRIORITY"}

\* Filters are named after the kind they stand for.
from_kqueue_event(filter) == {filter}

KqueueEvent(filter, flags) ==
  Event(from_kqueue_event(filter), "EV_ERROR" \in flags, "EV_EOF" \in flags, "EV_EOF" \in flags)

==============================================================================
