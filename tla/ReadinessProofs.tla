--------------------------- MODULE ReadinessProofs ---------------------------
(***************************************************************************)
(* Proofs about the conversions: what a program hears of a socket, and how *)
(* long it waits when there is nothing to hear; and about the poll         *)
(* backend, that it loses no wake and implements SelectorContract.         *)
(***************************************************************************)
EXTENDS MCReadiness, TLAPS

LEMMA InterestsValid == Spec => [](interests \subseteq Kinds)
<1>1. Init => interests \subseteq Kinds
  BY DEF Init, ValidInterests
<1>2. interests \subseteq Kinds /\ [Next]_vars => (interests \subseteq Kinds)'
  BY DEF Next, vars, Widen, Narrow, Arise, Cease, InterestAdd, InterestRemove
<1> QED
  BY <1>1, <1>2, PTL DEF Spec

LEMMA EpollReadiness ==
  ASSUME interests \subseteq Kinds
  PROVE  ViaEpoll.readiness \cap interests = Expected
BY DEF ViaEpoll, EpollEvent, Event, from_epoll_events, to_epoll_events, LinuxFlags, Expected, Failures, When, Meets, Kinds

LEMMA AfdReadiness ==
  ASSUME interests \subseteq Kinds
  PROVE  ViaAfd.readiness \cap interests = Expected
BY DEF ViaAfd, AfdEvent, Event, afd_flags_to_interest, interests_to_afd_flags, AfdFlags, Expected, Failures, When, Meets, Kinds,
  afd_readable_flags, afd_writable_flags, afd_error_flags, afd_read_closed_flags, afd_write_closed_flags

LEMMA PollReadiness ==
  ASSUME interests \subseteq Kinds
  PROVE  ViaPoll.readiness \cap interests = Expected
BY DEF ViaPoll, PollEvent, Event, PollRequest, LinuxFlags, Expected, Failures, When, Meets, Kinds

LEMMA KqueueReadiness ==
  ASSUME interests \subseteq Kinds
  PROVE  UNION {event.readiness : event \in ViaKqueue} = Expected \ {"PRIORITY"}
<1> DEFINE Firing == {f \in KqueueFilters(interests) : KqueueFires(f, conditions)}
<1>1. \A f \in Firing : KqueueEvent(f, KqueueFlags(conditions)).readiness = {f}
  BY DEF KqueueEvent, Event, from_kqueue_event
<1>2. UNION {event.readiness : event \in ViaKqueue} = Firing
  <2> HIDE DEF Firing
  <2>1. ViaKqueue = {KqueueEvent(f, KqueueFlags(conditions)) : f \in Firing}
    BY DEF ViaKqueue, Firing
  <2>2. ASSUME NEW k PROVE k \in UNION {event.readiness : event \in ViaKqueue} <=> k \in Firing
    BY <1>1, <2>1
  <2> QED
    BY <2>2
<1>3. Firing = Expected \ {"PRIORITY"}
  BY DEF KqueueFilters, KqueueFires, Expected, Failures, When, Meets, Kinds
<1> QED
  BY <1>2, <1>3

LEMMA FlagsAgree == ClosedFlagsAgree
BY SMTT(20) DEF ClosedFlagsAgree, ViaEpoll, EpollEvent, ViaAfd, AfdEvent, Event, to_epoll_events,
       interests_to_afd_flags, LinuxFlags, AfdFlags, Failures, When, Meets,
       afd_readable_flags, afd_writable_flags, afd_error_flags, afd_read_closed_flags,
       afd_write_closed_flags

LEMMA FailureReported == FailureAlwaysReported
<1> SUFFICES ASSUME Meets(conditions, Failures)
             PROVE  \A event \in {ViaEpoll, ViaAfd} :
                      event.readiness # {} /\ event.read_closed /\ event.write_closed
  BY DEF FailureAlwaysReported
<1>1. "READABLE" \in ViaEpoll.readiness /\ ViaEpoll.read_closed /\ ViaEpoll.write_closed
  <2>1. {"HUP", "ERR"} \subseteq LinuxFlags(conditions) \cap to_epoll_events(interests)
    BY DEF LinuxFlags, to_epoll_events, When
  <2> QED
    BY Zenon, <2>1 DEF ViaEpoll, EpollEvent, Event, from_epoll_events, When, Meets
<1>2. "READABLE" \in ViaAfd.readiness /\ ViaAfd.read_closed /\ ViaAfd.write_closed
  <2>1. Meets(AfdFlags(conditions) \cap interests_to_afd_flags(interests), {"abort", "connect_fail"})
    BY DEF AfdFlags, interests_to_afd_flags, When, Meets, Failures
  <2> QED
    BY Zenon, <2>1 DEF ViaAfd, AfdEvent, Event, afd_flags_to_interest, When, Meets,
                afd_readable_flags, afd_read_closed_flags, afd_write_closed_flags
<1> QED
  BY <1>1, <1>2


\* For every state of a socket and every interest set, each backend reports a kind
\* that was asked for exactly when the socket is ready for it: to_epoll_events,
\* interests_to_afd_flags and their counterparts ask for enough and lose nothing.
THEOREM ReadinessReported == Spec => []RequestedReadinessReported
<1>1. interests \subseteq Kinds => RequestedReadinessReported
  BY EpollReadiness, AfdReadiness, PollReadiness, KqueueReadiness DEF RequestedReadinessReported
<1> QED
  BY <1>1, InterestsValid, PTL

\* epoll and AFD agree on the directions that are closed (is_read_closed,
\* is_write_closed), whatever the conditions and interests.
THEOREM ClosedAgree == Spec => []ClosedFlagsAgree
BY FlagsAgree, PTL

\* A failed socket is reported with both directions closed to any program, whatever
\* it asked for: to_epoll_events and interests_to_afd_flags always ask for failures.
THEOREM FailuresReported == Spec => []FailureAlwaysReported
BY FailureReported, PTL

------------------------------------------------------------------------------
\* Timeouts

LEMMA MinOfTwo ==
  ASSUME NEW a \in Int, NEW b \in Int
  PROVE  Min({a, b}) = IF a <= b THEN a ELSE b
BY DEF Min

LEMMA MaxOfTwo ==
  ASSUME NEW a \in Int, NEW b \in Int
  PROVE  Max({a, b}) = IF a >= b THEN a ELSE b
BY DEF Max

\* The cast to int keeps what fits.
LEMMA CastFits ==
  ASSUME NEW n \in Int, -int_max - 1 <= n, n <= int_max
  PROVE  ToInt(n) = n
<1> DEFINE m == n + int_max + 1
           k == 2 * (int_max + 1)
<1>1. m \in Nat /\ k \in Nat /\ m < k
  BY TimeoutsAssumption
<1>2. m % k = m
  <2> HIDE DEF m, k
  <2> QED
    BY <1>1
<1> QED
  BY <1>2, TimeoutsAssumption DEF ToInt

\* Whatever the ranges of int and DWORD and whatever is asked: no backend turns a
\* timeout into a wait for ever or a shorter one than it can do, as far as each
\* clamps.  clamp_timeout, and the conversions of the four select functions.
THEOREM TimeoutsKept == timeout \in Asked \cup {NoTimeout} => WaitsAsAsked
<1> SUFFICES ASSUME timeout \in Asked \cup {NoTimeout} PROVE WaitsAsAsked
  OBVIOUS
<1>1. int_max \in Nat \ {0} /\ INFINITE \in Nat \ {0} /\ Second \in Nat \ {0} /\ NoTimeout \notin Int
  BY TimeoutsAssumption
<1>2. CASE timeout = NoTimeout
  <2>1. clamp_timeout(timeout) = -1
    BY <1>2 DEF clamp_timeout
  <2>2. Min({-1, int_max}) = -1 /\ ToInt(-1) = -1
    BY <1>1, MinOfTwo, CastFits
  <2>3. EpollWait(timeout) = Forever /\ PollWait(timeout) = Forever
    BY <2>1, <2>2 DEF EpollWait, PollWait, WaitsMs
  <2>4. IocpWait(timeout) = Forever
    BY <2>1 DEF IocpWait, WaitsDword
  <2> QED
    BY <1>2, <2>3, <2>4 DEF WaitsAsAsked, AsAsked, KqueueWait
<1>3. CASE timeout # NoTimeout
  <2> DEFINE ms == clamp_timeout(timeout)
  <2>1. timeout \in Int
    BY <1>3, TimeoutsAssumption
  <2>2. ms \in Nat /\ ms = Max({timeout, 0}) /\ (timeout >= 0 => ms = timeout)
    BY <1>3, <2>1, MaxOfTwo DEF clamp_timeout
  <2>3. \A longest \in Nat : AsAsked(timeout, longest) = IF ms <= longest THEN ms ELSE longest
    BY <1>3, <2>2, MinOfTwo DEF AsAsked
  <2> HIDE DEF ms
  <2>4. EpollWait(timeout) = AsAsked(timeout, int_max)
    <3> DEFINE least == Min({ms, int_max})
    <3>0. least = IF ms <= int_max THEN ms ELSE int_max
      BY <1>1, <2>2, MinOfTwo
    <3> HIDE DEF least
    <3>1. least \in Nat /\ least <= int_max
      BY <1>1, <2>2, <3>0
    <3>2. ToInt(least) = least
      BY <1>1, <3>1, CastFits
    <3> QED
      BY <1>1, <2>3, <3>0, <3>1, <3>2 DEF EpollWait, WaitsMs, least, ms
  <2>5. IocpWait(timeout) = AsAsked(timeout, INFINITE - 1)
    <3>1. Min({ms, INFINITE - 1}) = IF ms <= INFINITE - 1 THEN ms ELSE INFINITE - 1
      BY <1>1, <2>2, MinOfTwo
    <3> QED
      BY <1>1, <2>2, <2>3, <3>1 DEF IocpWait, WaitsDword, ms
  <2>6. timeout <= int_max => PollWait(timeout) = AsAsked(timeout, int_max)
    <3> SUFFICES ASSUME timeout <= int_max PROVE PollWait(timeout) = AsAsked(timeout, int_max)
      OBVIOUS
    <3>1. ms <= int_max
      BY <1>1, <1>3, <2>1 DEF ms, clamp_timeout
    <3>2. ToInt(ms) = ms
      BY <1>1, <2>2, <3>1, CastFits
    <3> QED
      BY <1>1, <2>2, <2>3, <3>1, <3>2 DEF PollWait, WaitsMs, ms
  <2>7. timeout >= 0 => KqueueWait(timeout) = timeout
    <3> SUFFICES ASSUME timeout >= 0 PROVE KqueueWait(timeout) = timeout
      OBVIOUS
    <3> DEFINE sec == timeout \div Second
           ts == to_timespec(timeout)
    <3>1. sec \in Nat /\ timeout - sec * Second >= 0 /\ sec * Second + (timeout - sec * Second) = timeout
      BY <1>1, <2>1
    <3>2. ts.sec = sec /\ ts.ms = timeout - sec * Second
      BY <2>1 DEF to_timespec
    <3> HIDE DEF sec, ts
    <3>3. WaitsTimespec(ts) = timeout
      BY <1>1, <2>1, <3>1, <3>2 DEF WaitsTimespec
    <3> QED
      BY <1>3, <3>3 DEF KqueueWait, ts
  <2> QED
    BY <1>3, <2>4, <2>5, <2>6, <2>7 DEF WaitsAsAsked
<1> QED
  BY <1>2, <1>3

------------------------------------------------------------------------------
\* The poll backend

\* The copy of the registrations: only the Waker is drained.
IsSnapshot(s) ==
  \A h \in DOMAIN s : /\ h \in Sources \cup {waker}
                      /\ s[h].auto_drain \in BOOLEAN
                      /\ s[h].auto_drain => h = waker

Waiting ==
  \E f, s : /\ select = [step |-> "wait", forever |-> f, events |-> {}, snapshot |-> s]
            /\ IsSnapshot(s)

Scanning ==
  \E e, d, r, s :
    /\ select = [step |-> "scan", events |-> e, drain |-> d, revents |-> r, snapshot |-> s]
    /\ IsSnapshot(s)
    /\ DOMAIN r \subseteq DOMAIN s
    /\ d \in BOOLEAN /\ (d => waker \in e)

PollRegistration ==
  [token : Tokens, interests : InterestSets \cup {{"READABLE"}}, auto_drain : BOOLEAN]

Registrations ==
  /\ registrations_ \in [Sources \cup {waker} -> PollRegistration \cup {NoReg}]
  /\ \A h \in Sources : registrations_[h] # NoReg =>
       registrations_[h].interests \in InterestSets /\ ~registrations_[h].auto_drain
  /\ registrations_[waker] # NoReg =>
       registrations_[waker].interests = {"READABLE"} /\ registrations_[waker].auto_drain

PollInv ==
  /\ Registrations
  /\ select = Fallback!NoSelect \/ Waiting \/ Scanning
  /\ pipe \in 0..PipeCap
  /\ Fallback!WakeKept

\* The event being collected for the Waker's number bears the present Waker's token.
Collected ==
  /\ select.step = "scan" /\ waker \in select.events
  /\ select.snapshot[waker].token = registrations_[waker].token

WakeSafe ==
  woken = "yes" => registrations_[waker] # NoReg /\ (pipe > 0 \/ Collected)

LEMMA WakeFound ==
  Fallback!WakeKept <=>
    (woken = "yes" =>
       /\ registrations_[waker] # NoReg
       /\ \/ registrations_[waker].interests \cap (IF pipe > 0 THEN {"READABLE"} ELSE {}) # {}
          \/ Collected)
BY DEF Fallback!WakeKept, Fallback!Found, Fallback!In, Fallback!Superseded, Collected

\* With a Waker registered for READABLE, that is a byte in the pipe.
LEMMA WakeByte == Registrations => (Fallback!WakeKept <=> WakeSafe)
<1> SUFFICES ASSUME Registrations PROVE Fallback!WakeKept <=> WakeSafe
  OBVIOUS
<1>1. registrations_[waker] # NoReg => registrations_[waker].interests = {"READABLE"}
  BY DEF Registrations
<1>2. {"READABLE"} \cap (IF pipe > 0 THEN {"READABLE"} ELSE {}) # {} <=> pipe > 0
  OBVIOUS
<1> QED
  BY Zenon, <1>1, <1>2, WakeFound DEF WakeSafe

LEMMA WakeByteNext ==
  ASSUME Registrations', WakeSafe'
  PROVE  Fallback!WakeKept'
<1>1. (Registrations => (Fallback!WakeKept <=> WakeSafe))'
  BY WakeByte, PTL
<1> QED
  BY <1>1

\* Registry and Waker change the map, the pipe and nothing a poll has copied.
LEMMA PollCallStep ==
  ASSUME PollInv, Fallback!RegistryCall
  PROVE  PollInv'
<1>0. Registrations /\ pipe \in 0..PipeCap /\ WakeSafe
  BY WakeByte DEF PollInv
<1>1. /\ registrations_ \in [Sources \cup {waker} -> PollRegistration \cup {NoReg}]
      /\ waker \notin Sources /\ PipeCap \in Nat \ {0} /\ NoReg \notin PollRegistration
  BY <1>0, PollAssumption DEF Registrations, PollRegistration
<1>2. UNCHANGED select
  BY Zenon DEF Fallback!RegistryCall, Fallback!Add, Fallback!Update, Fallback!Remove,
               Fallback!WakerNew, Fallback!WakerDrop, Fallback!wake
<1>3. (select = Fallback!NoSelect \/ Waiting \/ Scanning)'
  BY <1>2 DEF PollInv, Waiting, Scanning, Fallback!NoSelect
<1>4. ASSUME NEW h \in Sources, NEW reg \in PollRegistration \cup {NoReg},
             reg # NoReg => reg.interests \in InterestSets /\ ~reg.auto_drain,
             registrations_' = [registrations_ EXCEPT ![h] = reg], UNCHANGED <<pipe, woken>>
      PROVE  PollInv'
  <2>1. /\ registrations_' \in [Sources \cup {waker} -> PollRegistration \cup {NoReg}]
        /\ registrations_'[h] = reg /\ registrations_'[waker] = registrations_[waker]
        /\ \A g \in Sources \ {h} : registrations_'[g] = registrations_[g]
    BY Zenon, <1>1, <1>4
  <2>2. Registrations'
    BY Zenon, <1>0, <1>4, <2>1 DEF Registrations
  <2>3. WakeSafe'
    BY Zenon, <1>0, <1>2, <1>4, <2>1 DEF WakeSafe, Collected
  <2> QED
    BY Zenon, <1>0, <1>3, <1>4, <2>2, <2>3, WakeByteNext DEF PollInv
<1>5. ASSUME NEW h \in Sources, NEW token \in Tokens, NEW interests_ \in InterestSets,
             Fallback!Add(h, token, interests_)
      PROVE  PollInv'
  <2>1. PICK reg : reg = [token |-> token, interests |-> interests_, auto_drain |-> FALSE]
    BY Zenon
  <2>2. reg \in PollRegistration /\ reg.interests \in InterestSets /\ ~reg.auto_drain
    BY <2>1 DEF PollRegistration
  <2>3. registrations_' = [registrations_ EXCEPT ![h] = reg] /\ UNCHANGED <<pipe, woken>>
    BY Zenon, <1>5, <2>1 DEF Fallback!Add, Fallback!Registration
  <2> QED
    BY Zenon, <1>4, <2>2, <2>3
<1>6. ASSUME NEW h \in Sources, NEW token \in Tokens, NEW interests_ \in InterestSets,
             Fallback!Update(h, token, interests_)
      PROVE  PollInv'
  <2>1. registrations_[h] \in PollRegistration /\ ~registrations_[h].auto_drain
    BY Zenon, <1>0, <1>1, <1>6 DEF Fallback!Update, Registrations
  <2>2. PICK reg : reg = [registrations_[h] EXCEPT !.token = token, !.interests = interests_]
    OBVIOUS
  <2>3. reg \in PollRegistration /\ reg.interests \in InterestSets /\ ~reg.auto_drain
    BY Zenon, <2>1, <2>2 DEF PollRegistration
  <2>4. registrations_' = [registrations_ EXCEPT ![h] = reg] /\ UNCHANGED <<pipe, woken>>
    BY Zenon, <1>1, <1>6, <2>2 DEF Fallback!Update
  <2> QED
    BY Zenon, <1>4, <2>3, <2>4
<1>7. ASSUME NEW h \in Sources, Fallback!Remove(h) PROVE PollInv'
  <2>1. registrations_' = [registrations_ EXCEPT ![h] = NoReg] /\ UNCHANGED <<pipe, woken>>
    BY Zenon, <1>7 DEF Fallback!Remove
  <2> QED
    BY Zenon, <1>4, <2>1
<1>8. ASSUME NEW reg \in PollRegistration \cup {NoReg},
             reg # NoReg => reg.interests = {"READABLE"} /\ reg.auto_drain,
             registrations_' = [registrations_ EXCEPT ![waker] = reg],
             pipe' \in 0..PipeCap, woken' # "yes"
      PROVE  PollInv'
  <2>1. /\ registrations_' \in [Sources \cup {waker} -> PollRegistration \cup {NoReg}]
        /\ registrations_'[waker] = reg
        /\ \A g \in Sources : registrations_'[g] = registrations_[g]
    BY Zenon, <1>1, <1>8
  <2>2. Registrations'
    BY Zenon, <1>0, <1>8, <2>1 DEF Registrations
  <2> QED
    BY Zenon, <1>3, <1>8, <2>2, WakeByteNext DEF PollInv, WakeSafe
<1>9. ASSUME NEW token \in Tokens, Fallback!WakerNew(token) PROVE PollInv'
  <2>1. PICK reg : reg = [token |-> token, interests |-> {"READABLE"}, auto_drain |-> TRUE]
    BY Zenon
  <2>2. reg \in PollRegistration /\ reg.interests = {"READABLE"} /\ reg.auto_drain
    BY <2>1 DEF PollRegistration
  <2>3. /\ registrations_[waker] = NoReg /\ UNCHANGED <<pipe, woken>>
        /\ registrations_' = [registrations_ EXCEPT ![waker] = reg]
    BY Zenon, <1>9, <2>1 DEF Fallback!WakerNew, Fallback!Registration
  <2> QED
    BY Zenon, <1>0, <1>8, <2>2, <2>3 DEF WakeSafe
<1>10. CASE Fallback!WakerDrop
  <2>1. /\ registrations_' = [registrations_ EXCEPT ![waker] = NoReg]
        /\ pipe' = 0 /\ woken' # "yes"
    BY <1>10 DEF Fallback!WakerDrop
  <2>2. pipe' \in 0..PipeCap
    BY <1>1, <2>1
  <2> QED
    BY Zenon, <1>8, <2>1, <2>2
<1>11. CASE Fallback!wake
  <2>1. /\ registrations_[waker] # NoReg /\ UNCHANGED registrations_
        /\ pipe' = IF pipe < PipeCap THEN pipe + 1 ELSE pipe
    BY Zenon, <1>11 DEF Fallback!wake
  <2>2. pipe' \in 0..PipeCap /\ pipe' > 0
    BY <1>0, <1>1, <2>1
  <2>3. Registrations'
    BY <1>0, <2>1 DEF Registrations
  <2> QED
    BY Zenon, <1>3, <2>1, <2>2, <2>3, WakeByteNext DEF PollInv, WakeSafe
<1> QED
  BY Zenon, <1>5, <1>6, <1>7, <1>9, <1>10, <1>11 DEF Fallback!RegistryCall

\* select_poll empties the pipe only after it has taken in the Waker's event.
LEMMA PollSelectStep ==
  ASSUME PollInv,
         \/ \E forever \in BOOLEAN : Fallback!SelectBegin(forever)
         \/ Fallback!SelectEnds \/ Fallback!PollInterrupted
  PROVE  PollInv'
<1>0. Registrations /\ pipe \in 0..PipeCap /\ WakeSafe
  BY WakeByte DEF PollInv
<1>1. Registrations'
  <2>1. UNCHANGED registrations_
    BY Zenon DEF Fallback!SelectBegin, Fallback!SelectEnds, Fallback!PollReturns,
         Fallback!PollTimesOut, Fallback!PollInterrupted, Fallback!Gone,
         Fallback!drain_descriptor, Fallback!SelectReturn, Fallback!Push
  <2> QED
    BY <1>0, <2>1 DEF Registrations
<1>2. Fallback!NoSelect.step = "none"
  BY DEF Fallback!NoSelect
<1>3. CASE select = Fallback!NoSelect
  <2>1. PICK forever \in BOOLEAN : Fallback!SelectBegin(forever)
    BY Zenon, <1>2, <1>3 DEF Fallback!SelectEnds, Fallback!PollReturns, Fallback!PollTimesOut,
         Fallback!PollInterrupted, Fallback!drain_descriptor, Fallback!SelectReturn,
         Fallback!Push, Fallback!In
  <2>2. PICK s : s = [h \in {r \in Sources \cup {waker} : registrations_[r] # NoReg} |-> registrations_[h]]
    BY Zenon
  <2>3. /\ select' = Fallback!NoSelect \/
             select' = [step |-> "wait", forever |-> forever, events |-> {}, snapshot |-> s]
        /\ UNCHANGED <<registrations_, pipe, woken>>
    BY Zenon, <2>1, <2>2 DEF Fallback!SelectBegin, Fallback!Waiting, Fallback!Handles
  <2>4. IsSnapshot(s)
    <3>1. \A h \in DOMAIN s : /\ h \in Sources \cup {waker} /\ s[h] = registrations_[h]
                              /\ registrations_[h] \in PollRegistration
      BY <1>0, <2>2 DEF Registrations
    <3>2. \A h \in DOMAIN s : s[h].auto_drain \in BOOLEAN
      BY <3>1 DEF PollRegistration
    <3>3. \A h \in DOMAIN s : s[h].auto_drain => h = waker
      <4>1. \A h \in Sources : registrations_[h] # NoReg => ~registrations_[h].auto_drain
        BY <1>0 DEF Registrations
      <4>2. NoReg \notin PollRegistration
        BY PollAssumption DEF PollRegistration
      <4> QED
        BY Zenon, <3>1, <4>1, <4>2
    <3> QED
      BY Zenon, <3>1, <3>2, <3>3 DEF IsSnapshot
  <2>5. (select = Fallback!NoSelect)' \/ Waiting'
    BY Zenon, <2>3, <2>4 DEF Waiting, Fallback!NoSelect
  <2>6. WakeSafe'
    <3>1. select.step # "scan"
      BY <1>2, <1>3
    <3> QED
      BY Zenon, <1>0, <2>3, <3>1 DEF WakeSafe, Collected
  <2> QED
    BY Zenon, <1>0, <1>1, <2>3, <2>5, <2>6, WakeByteNext DEF PollInv
<1>4. CASE Waiting
  <2>1. PICK f, s : /\ select = [step |-> "wait", forever |-> f, events |-> {}, snapshot |-> s]
                    /\ IsSnapshot(s)
    BY Zenon, <1>4 DEF Waiting
  <2>2. select.step = "wait" /\ select.snapshot = s
    BY <2>1
  <2>3. woken = "yes" => registrations_[waker] # NoReg /\ pipe > 0
    <3>1. select.step # "scan"
      BY <2>2
    <3> QED
      BY Zenon, <1>0, <3>1 DEF WakeSafe, Collected
  <2>4. CASE Fallback!PollReturns
    <3>1. PICK r : /\ r = [h \in Fallback!Ready |-> Fallback!Found(h, select.snapshot[h])]
                   /\ select' = [step |-> "scan", events |-> {}, drain |-> FALSE,
                                 revents |-> r, snapshot |-> s]
                   /\ UNCHANGED <<registrations_, pipe, woken>>
      BY Zenon, <2>2, <2>4 DEF Fallback!PollReturns
    <3>2. DOMAIN r \subseteq DOMAIN s
      BY <2>2, <3>1 DEF Fallback!Ready
    <3>3. Scanning'
      BY Zenon, <2>1, <3>1, <3>2 DEF Scanning
    <3>4. WakeSafe'
      BY Zenon, <2>3, <3>1 DEF WakeSafe
    <3> QED
      BY Zenon, <1>0, <1>1, <3>1, <3>3, <3>4, WakeByteNext DEF PollInv
  <2>5. CASE Fallback!Gone
    <3>1. select' = Fallback!NoSelect /\ UNCHANGED <<registrations_, pipe, woken>>
      BY Zenon, <2>5 DEF Fallback!Gone
    <3>2. WakeSafe'
      BY Zenon, <2>3, <3>1 DEF WakeSafe
    <3>3. (select = Fallback!NoSelect)'
      BY Zenon, <3>1 DEF Fallback!NoSelect
    <3> QED
      BY Zenon, <1>0, <1>1, <3>1, <3>2, <3>3, WakeByteNext DEF PollInv
  <2>6. select # Fallback!NoSelect /\ select.step # "scan"
    BY <1>2, <2>2
  <2> QED
    BY Zenon, <2>4, <2>5, <2>6 DEF Fallback!SelectBegin, Fallback!SelectEnds, Fallback!PollTimesOut,
         Fallback!PollInterrupted, Fallback!drain_descriptor, Fallback!SelectReturn, Fallback!Push,
         Fallback!In
<1>5. CASE Scanning
  <2>1. PICK e, d, r, s :
          /\ select = [step |-> "scan", events |-> e, drain |-> d, revents |-> r, snapshot |-> s]
          /\ IsSnapshot(s) /\ DOMAIN r \subseteq DOMAIN s
          /\ d \in BOOLEAN /\ (d => waker \in e)
    BY Zenon, <1>5 DEF Scanning
  <2>2. /\ select.step = "scan" /\ select.events = e /\ select.drain = d
        /\ select.revents = r /\ select.snapshot = s
    BY <2>1
  <2>3. woken = "yes" => /\ registrations_[waker] # NoReg
                         /\ pipe > 0 \/ (waker \in e /\ s[waker].token = registrations_[waker].token)
    BY Zenon, <1>0, <2>2 DEF WakeSafe, Collected
  <2>4. ASSUME NEW h \in Fallback!Handles, Fallback!Push(h) PROVE PollInv'
    <3>1. PICK e2, d2 : e2 = e \cup {h} /\ d2 = s[h].auto_drain
      BY Zenon
    <3>2. h \in DOMAIN s /\ UNCHANGED <<registrations_, pipe, woken>>
      BY Zenon, <2>1, <2>2, <2>4 DEF Fallback!Push
    <3>3. select' = [select EXCEPT !.events = e2, !.drain = d2]
      BY Zenon, <2>2, <2>4, <3>1 DEF Fallback!Push
    <3>4. select' = [step |-> "scan", events |-> e2, drain |-> d2, revents |-> r, snapshot |-> s]
      BY Zenon, <2>1, <3>3
    <3>5. d2 \in BOOLEAN /\ (d2 => waker \in e2)
      BY Zenon, <2>1, <3>1, <3>2 DEF IsSnapshot
    <3>6. Scanning'
      BY Zenon, <2>1, <3>4, <3>5 DEF Scanning
    <3>7. select'.step = "scan" /\ select'.events = e2 /\ select'.snapshot = s
      BY <3>4
    <3>8. WakeSafe'
      BY Zenon, <2>3, <3>1, <3>2, <3>7 DEF WakeSafe, Collected
    <3> QED
      BY Zenon, <1>0, <1>1, <3>2, <3>6, <3>8, WakeByteNext DEF PollInv
  <2>5. CASE Fallback!drain_descriptor
    <3>1. /\ d /\ pipe' = 0 /\ UNCHANGED registrations_
          /\ woken' = "yes" => woken = "yes" /\ ~Fallback!Superseded
      BY <2>2, <2>5 DEF Fallback!drain_descriptor
    <3>2. select' = [select EXCEPT !.drain = FALSE]
      BY Zenon, <2>5 DEF Fallback!drain_descriptor
    <3>3. select' = [step |-> "scan", events |-> e, drain |-> FALSE, revents |-> r, snapshot |-> s]
      BY Zenon, <2>1, <3>2
    <3>4. Scanning'
      BY Zenon, <2>1, <3>3 DEF Scanning
    <3>5. select'.step = "scan" /\ select'.events = e /\ select'.snapshot = s
      BY <3>3
    <3>6. WakeSafe'
      BY Zenon, <2>1, <2>2, <2>3, <3>1, <3>5 DEF WakeSafe, Collected, Fallback!Superseded
    <3>7. pipe' \in 0..PipeCap
      BY <3>1, PollAssumption
    <3> QED
      BY Zenon, <1>1, <3>4, <3>6, <3>7, WakeByteNext DEF PollInv
  <2>6. CASE Fallback!SelectReturn
    <3>1. select' = Fallback!NoSelect /\ UNCHANGED <<registrations_, pipe>>
      BY Zenon, <2>2, <2>6 DEF Fallback!SelectReturn
    <3>2. woken' = "yes" => woken = "yes" /\ ~(waker \in e /\ ~Fallback!Superseded)
      BY <2>2, <2>6 DEF Fallback!SelectReturn
    <3>3. WakeSafe'
      BY Zenon, <2>2, <2>3, <3>1, <3>2 DEF WakeSafe, Fallback!Superseded
    <3>4. (select = Fallback!NoSelect)'
      BY Zenon, <3>1 DEF Fallback!NoSelect
    <3> QED
      BY Zenon, <1>0, <1>1, <3>1, <3>3, <3>4, WakeByteNext DEF PollInv
  <2>7. select # Fallback!NoSelect /\ select.step # "wait"
    BY <1>2, <2>2
  <2> QED
    BY Zenon, <2>4, <2>5, <2>6, <2>7 DEF Fallback!SelectBegin, Fallback!SelectEnds,
         Fallback!PollReturns, Fallback!PollTimesOut, Fallback!PollInterrupted, Fallback!In
<1> QED
  BY Zenon, <1>3, <1>4, <1>5 DEF PollInv

LEMMA PollQuietStep ==
  ASSUME PollInv, UNCHANGED <<registrations_, select, pipe, woken>>
  PROVE  PollInv'
<1>1. Registrations'
  BY DEF PollInv, Registrations
<1>2. (select = Fallback!NoSelect \/ Waiting \/ Scanning)'
  BY Zenon DEF PollInv, Waiting, Scanning, Fallback!NoSelect
<1>3. WakeSafe'
  BY WakeByte DEF PollInv, WakeSafe, Collected
<1> QED
  BY Zenon, <1>1, <1>2, <1>3, WakeByteNext DEF PollInv

\* The poll backend moves by its own next-state relation, whatever the rest does.
LEMMA PollRuns == AllSpec => Fallback!Spec
<1>1. AllInit => Fallback!Init
  BY DEF AllInit
<1>2. [AllNext]_<<vars, timeout, pollVars>> => [Fallback!Next]_(Fallback!vars)
  BY Zenon DEF AllNext, pollVars, Fallback!vars
<1> QED
  BY <1>1, <1>2, PTL DEF AllSpec, Fallback!Spec

LEMMA PollSafe == Fallback!Spec => []PollInv
<1>1. Fallback!Init => PollInv
  <2> SUFFICES ASSUME Fallback!Init PROVE PollInv
    OBVIOUS
  <2>1. /\ registrations_ = [h \in Sources \cup {waker} |-> NoReg]
        /\ select = Fallback!NoSelect /\ pipe = 0 /\ woken # "yes"
    BY DEF Fallback!Init, Fallback!Handles
  <2>2. Registrations
    BY <2>1 DEF Registrations
  <2>3. pipe \in 0..PipeCap
    BY <2>1, PollAssumption
  <2> QED
    BY <2>1, <2>2, <2>3 DEF PollInv, Fallback!WakeKept
<1>2. PollInv /\ [Fallback!Next]_(Fallback!vars) => PollInv'
  <2> SUFFICES ASSUME PollInv, [Fallback!Next]_(Fallback!vars) PROVE PollInv'
    OBVIOUS
  <2>1. CASE Fallback!Next
    BY <2>1, PollCallStep, PollSelectStep, PollQuietStep DEF Fallback!Next, Fallback!Arise, Fallback!Cease
  <2>2. CASE UNCHANGED Fallback!vars
    BY Zenon, <2>2, PollQuietStep DEF Fallback!vars
  <2> QED
    BY Zenon, <2>1, <2>2
<1> QED
  BY <1>1, <1>2, PTL DEF Fallback!Spec

\* The safety behind WakeReported: until the program gets the event of the Waker that
\* was woken, a byte waits in the pipe for the next poll or that event is among those
\* being collected, unless drain_descriptor took the byte for an earlier Waker.
THEOREM PollWakesKept == Fallback!Spec => []Fallback!WakeKept
  BY PollSafe, PTL DEF PollInv

------------------------------------------------------------------------------
\* SelectorContract, on the poll backend

Levels == level \in [Sources -> SUBSET PollKinds]

ReadyNow(h) == registrations_[h].interests \cap level[h]

LEMMA LevelsSafe == Fallback!Spec => []Levels
<1>1. Fallback!Init => Levels
  BY DEF Fallback!Init, Levels
<1>2. Levels /\ [Fallback!Next]_(Fallback!vars) => Levels'
  <2> SUFFICES ASSUME Levels, [Fallback!Next]_(Fallback!vars) PROVE Levels'
    OBVIOUS
  <2>1. ASSUME NEW h \in Sources, NEW kind \in PollKinds, Fallback!Arise(h, kind) \/ Fallback!Cease(h, kind)
        PROVE  Levels'
    BY <2>1 DEF Levels, Fallback!Arise, Fallback!Cease
  <2>2. CASE UNCHANGED level
    BY <2>2 DEF Levels
  <2>3. CASE Fallback!Next
    BY Zenon, <2>1, <2>2, <2>3
       DEF Fallback!Next, Fallback!RegistryCall, Fallback!SelectEnds, Fallback!Add, Fallback!Update,
           Fallback!Remove, Fallback!WakerNew, Fallback!WakerDrop, Fallback!wake,
           Fallback!SelectBegin, Fallback!PollReturns, Fallback!PollTimesOut,
           Fallback!PollInterrupted, Fallback!Gone, Fallback!Push, Fallback!drain_descriptor,
           Fallback!SelectReturn
  <2>4. CASE UNCHANGED Fallback!vars
    BY <2>2, <2>4 DEF Fallback!vars
  <2> QED
    BY Zenon, <2>3, <2>4
<1> QED
  BY <1>1, <1>2, PTL DEF Fallback!Spec

LEMMA PollReady ==
  Fallback!ContractReady =
    {d \in Sources \X PollKinds : registrations_[d[1]] # NoReg /\ d[2] \in ReadyNow(d[1])}
<1>1. \A d \in Sources \X PollKinds :
        Fallback!Found(d[1], registrations_[d[1]]) = ReadyNow(d[1])
  BY PollAssumption DEF Fallback!Found, ReadyNow
<1> QED
  BY <1>1 DEF Fallback!ContractReady

LEMMA PollReadyNext ==
  Fallback!ContractReady' =
    {d \in Sources \X PollKinds : registrations_'[d[1]] # NoReg /\ d[2] \in ReadyNow(d[1])'}
<1>1. (Fallback!ContractReady =
         {d \in Sources \X PollKinds : registrations_[d[1]] # NoReg /\ d[2] \in ReadyNow(d[1])})'
  BY PollReady, PTL
<1> QED
  BY <1>1

\* A step about one source only, which forgets some of the reports made for it.
LEMMA PollFollows ==
  ASSUME NEW h \in Sources,
         \A g \in Sources \ {h} :
           registrations_'[g] = registrations_[g] /\ level'[g] = level[g],
         told' \subseteq told,
         \A d \in told \ told' : d \in {h} \X PollKinds
  PROVE  Fallback!Contract!Follows(h)
<1>1. \A d \in Sources \X PollKinds : d[1] # h =>
        (d \in Fallback!ContractReady' <=> d \in Fallback!ContractReady)
  BY PollReady, PollReadyNext DEF ReadyNow
<1>2. Fallback!ContractReady \subseteq Sources \X PollKinds
  BY PollReady
<1>3. Fallback!ContractReady' \subseteq Sources \X PollKinds
  BY PollReadyNext
<1>4. \A d \in Sources \X PollKinds : d \notin {h} \X PollKinds => d[1] # h
  OBVIOUS
<1>5. \A d \in (Sources \X PollKinds) \ ({h} \X PollKinds) :
        (d \in Fallback!ContractReady' <=> d \in Fallback!ContractReady) /\ (d \in told' <=> d \in told)
  BY Zenon, <1>1, <1>4
<1> QED
  BY Zenon, <1>2, <1>3, <1>5 DEF Fallback!Contract!Follows, Fallback!Contract!OnlyOf, Fallback!Contract!Of

LEMMA PollReported ==
  ASSUME UNCHANGED select
  PROVE  UNCHANGED (IF Fallback!In("scan") THEN select.events \ {waker} ELSE {})
BY DEF Fallback!In

\* The step of the contract is named by the registration of the source before and after.
LEMMA PollSet ==
  ASSUME PollInv, NEW h \in Sources, NEW reg \in PollRegistration \cup {NoReg},
         registrations_' = [registrations_ EXCEPT ![h] = reg],
         reg # NoReg => reg.interests \in InterestSets,
         told' = told \ ({h} \X PollKinds), UNCHANGED <<select, level>>
  PROVE  Fallback!Contract!Next
<1> USE DEF Fallback!ContractRegistered
<1>0. Registrations
  BY DEF PollInv
<1>1. registrations_ \in [Sources \cup {waker} -> PollRegistration \cup {NoReg}]
  BY <1>0 DEF Registrations
<1>2. registrations_'[h] = reg /\ \A g \in Sources \ {h} : registrations_'[g] = registrations_[g]
  BY <1>1
<1>3. PICK entry : entry = IF reg = NoReg THEN NoReg
                           ELSE [token |-> reg.token, interests |-> reg.interests]
  BY Zenon
<1>4. Fallback!ContractRegistered' = [Fallback!ContractRegistered EXCEPT ![h] = entry]
  <2>1. PICK f : f = Fallback!ContractRegistered
    BY Zenon
  <2>2. f = [g \in Sources |-> f[g]] /\ \A g \in Sources : f[g] =
          IF registrations_[g] = NoReg THEN NoReg
          ELSE [token |-> registrations_[g].token, interests |-> registrations_[g].interests]
    BY <2>1
  <2>3. Fallback!ContractRegistered' = [g \in Sources |-> IF g = h THEN entry ELSE f[g]]
    BY <1>2, <1>3, <2>2
  <2>4. [f EXCEPT ![h] = entry] = [g \in Sources |-> IF g = h THEN entry ELSE f[g]]
    BY ONLY <2>2, h \in Sources
  <2> QED
    BY Zenon, <2>1, <2>3, <2>4
<1>5. UNCHANGED (IF Fallback!In("scan") THEN select.events \ {waker} ELSE {})
  BY PollReported
<1>6. CASE reg = NoReg
  <2>1. Fallback!ContractReady' = Fallback!ContractReady \ ({h} \X PollKinds)
    <3>1. \A g \in Sources \ {h} : ReadyNow(g)' = ReadyNow(g)
      BY Zenon, <1>2 DEF ReadyNow
    <3> QED
      BY <1>2, <1>6, <3>1, PollReady, PollReadyNext
  <2>2. (Fallback!ContractReady \ told)' = (Fallback!ContractReady \ told) \ ({h} \X PollKinds)
    BY Zenon, <2>1
  <2>3. Fallback!Contract!Deregister(h)
    BY Zenon, <1>3, <1>4, <1>5, <1>6, <2>1, <2>2
       DEF Fallback!Contract!Deregister, Fallback!Contract!Of
  <2> QED
    BY Zenon, <2>3 DEF Fallback!Contract!Next
<1>7. CASE reg # NoReg
  <2>1. entry \in [token : Tokens, interests : InterestSets]
    BY <1>3, <1>7 DEF PollRegistration
  <2>2. Fallback!Contract!Follows(h)
    BY <1>2, PollFollows
  <2>3. Fallback!Contract!Set(h, entry)
    BY Zenon, <1>4, <1>5, <2>2 DEF Fallback!Contract!Set
  <2> QED
    BY Zenon, <2>1, <2>3
       DEF Fallback!Contract!Next, Fallback!Contract!Register, Fallback!Contract!Reregister,
           Fallback!Contract!Entry
<1> QED
  BY <1>6, <1>7

LEMMA PollSame ==
  ASSUME \A h \in Sources : registrations_'[h] = registrations_[h],
         UNCHANGED <<level, told>>
  PROVE  UNCHANGED <<Fallback!ContractRegistered, Fallback!ContractReady, Fallback!ContractReady \ told>>
<1>1. UNCHANGED Fallback!ContractRegistered
  BY DEF Fallback!ContractRegistered
<1>2. \A h \in Sources : ReadyNow(h)' = ReadyNow(h)
  BY DEF ReadyNow
<1>3. UNCHANGED Fallback!ContractReady
  BY <1>2, PollReady, PollReadyNext
<1> QED
  BY Zenon, <1>1, <1>3

LEMMA PollCallContract ==
  ASSUME PollInv, Fallback!RegistryCall
  PROVE  Fallback!Contract!Next \/ UNCHANGED Fallback!Contract!vars
<1>0. Registrations
  BY DEF PollInv
<1>1. /\ registrations_ \in [Sources \cup {waker} -> PollRegistration \cup {NoReg}]
      /\ waker \notin Sources
  BY <1>0, PollAssumption DEF Registrations
<1>2. ASSUME NEW h \in Sources, NEW token \in Tokens, NEW wants \in InterestSets,
             Fallback!Add(h, token, wants)
      PROVE  Fallback!Contract!Next
  <2>1. PICK reg : reg = [token |-> token, interests |-> wants, auto_drain |-> FALSE]
    BY Zenon
  <2>2. reg \in PollRegistration /\ reg.interests = wants
    BY <2>1 DEF PollRegistration
  <2>3. /\ registrations_' = [registrations_ EXCEPT ![h] = reg]
        /\ told' = told \ ({h} \X PollKinds) /\ UNCHANGED <<select, level>>
    BY Zenon, <1>2, <2>1 DEF Fallback!Add, Fallback!Registration, Fallback!Forgets, Fallback!Reports
  <2> QED
    BY Zenon, <2>2, <2>3, PollSet
<1>3. ASSUME NEW h \in Sources, NEW token \in Tokens, NEW wants \in InterestSets,
             Fallback!Update(h, token, wants)
      PROVE  Fallback!Contract!Next
  <2>1. registrations_[h] \in PollRegistration
    BY <1>1, <1>3 DEF Fallback!Update
  <2>2. PICK reg : reg = [registrations_[h] EXCEPT !.token = token, !.interests = wants]
    OBVIOUS
  <2>3. reg \in PollRegistration /\ reg.interests = wants
    BY Zenon, <2>1, <2>2 DEF PollRegistration
  <2>4. registrations_' = [registrations_ EXCEPT ![h] = reg]
    <3>1. registrations_' = [registrations_ EXCEPT ![h].token = token, ![h].interests = wants]
      BY Zenon, <1>3 DEF Fallback!Update
    <3> QED
      BY Zenon, <1>1, <2>2, <3>1
  <2>5. told' = told \ ({h} \X PollKinds) /\ UNCHANGED <<select, level>>
    BY Zenon, <1>3 DEF Fallback!Update, Fallback!Forgets, Fallback!Reports
  <2> QED
    BY Zenon, <2>3, <2>4, <2>5, PollSet
<1>4. ASSUME NEW h \in Sources, Fallback!Remove(h)
      PROVE  Fallback!Contract!Next
  <2>1. /\ registrations_' = [registrations_ EXCEPT ![h] = NoReg]
        /\ told' = told \ ({h} \X PollKinds) /\ UNCHANGED <<select, level>>
    BY Zenon, <1>4 DEF Fallback!Remove, Fallback!Forgets, Fallback!Reports
  <2>2. PICK reg : reg = NoReg
    OBVIOUS
  <2>3. registrations_' = [registrations_ EXCEPT ![h] = reg] /\ reg \in PollRegistration \cup {NoReg}
    BY <2>1, <2>2
  <2> QED
    BY Zenon, <2>1, <2>2, <2>3, PollSet
<1>5. ASSUME (\E token \in Tokens : Fallback!WakerNew(token)) \/ Fallback!WakerDrop \/ Fallback!wake
      PROVE  UNCHANGED Fallback!Contract!vars
  <2>1. \A h \in Sources : registrations_'[h] = registrations_[h]
    BY Zenon, <1>1, <1>5 DEF Fallback!WakerNew, Fallback!WakerDrop, Fallback!wake
  <2>2. UNCHANGED <<select, level, told>>
    BY Zenon, <1>5 DEF Fallback!WakerNew, Fallback!WakerDrop, Fallback!wake
  <2> QED
    BY Zenon, <2>1, <2>2, PollSame, PollReported DEF Fallback!Contract!vars
<1> QED
  BY Zenon, <1>2, <1>3, <1>4, <1>5 DEF Fallback!RegistryCall

\* Readiness of a source that is not registered is nothing to the contract.
LEMMA PollEnvironmentContract ==
  ASSUME PollInv, Levels, NEW h \in Sources, NEW kind \in PollKinds,
         Fallback!Arise(h, kind) \/ Fallback!Cease(h, kind)
  PROVE  Fallback!Contract!Next \/ UNCHANGED Fallback!Contract!vars
<1>1. \A g \in Sources \ {h} : level'[g] = level[g]
  BY DEF Levels, Fallback!Arise, Fallback!Cease
<1>2. told' = told \ {<<h, kind>>} /\ UNCHANGED <<registrations_, select>>
  BY Zenon DEF Fallback!Arise, Fallback!Cease
<1>3. Fallback!Contract!Follows(h)
  BY <1>1, <1>2, PollFollows
<1>4. UNCHANGED Fallback!ContractRegistered
  BY Zenon, <1>2 DEF Fallback!ContractRegistered
<1>5. UNCHANGED (IF Fallback!In("scan") THEN select.events \ {waker} ELSE {})
  BY Zenon, <1>2, PollReported
<1>6. CASE registrations_[h] # NoReg
  <2>1. registrations_[h] \in PollRegistration /\ registrations_[h].interests \in InterestSets
    BY <1>6 DEF PollInv, Registrations
  <2>2. PICK entry : entry = [token |-> registrations_[h].token, interests |-> registrations_[h].interests]
    BY Zenon
  <2>3. entry \in [token : Tokens, interests : InterestSets]
    BY Zenon, <2>1, <2>2 DEF PollRegistration
  <2>4. Fallback!ContractRegistered[h] = entry
    BY <1>6, <2>2 DEF Fallback!ContractRegistered
  <2>5. Fallback!Contract!ReadinessChanges(h)
    BY Zenon, <1>3, <1>4, <1>5, <2>3, <2>4, PollAssumption DEF Fallback!Contract!ReadinessChanges
  <2> QED
    BY Zenon, <2>5 DEF Fallback!Contract!Next
<1>7. CASE registrations_[h] = NoReg
  <2>1. \A g \in Sources \ {h} : ReadyNow(g)' = ReadyNow(g)
    BY Zenon, <1>1, <1>2 DEF ReadyNow
  <2>2. UNCHANGED Fallback!ContractReady
    BY <1>2, <1>7, <2>1, PollReady, PollReadyNext
  <2>3. <<h, kind>> \notin Fallback!ContractReady
    BY <1>7, PollReady
  <2>4. UNCHANGED (Fallback!ContractReady \ told)
    BY Zenon, <1>2, <2>2, <2>3
  <2> QED
    BY Zenon, <1>4, <1>5, <2>2, <2>4 DEF Fallback!Contract!vars
<1> QED
  BY <1>6, <1>7

LEMMA PollSelectContract ==
  ASSUME PollInv,
         \/ \E forever \in BOOLEAN : Fallback!SelectBegin(forever)
         \/ Fallback!SelectEnds \/ Fallback!PollInterrupted
  PROVE  Fallback!Contract!Next \/ UNCHANGED Fallback!Contract!vars
<1> DEFINE reported == IF Fallback!In("scan") THEN select.events \ {waker} ELSE {}
<1>1. UNCHANGED <<registrations_, level>>
  BY Zenon DEF Fallback!SelectBegin, Fallback!SelectEnds, Fallback!PollReturns,
       Fallback!PollTimesOut, Fallback!PollInterrupted, Fallback!Gone,
       Fallback!drain_descriptor, Fallback!SelectReturn, Fallback!Push
<1>2. ASSUME UNCHANGED told, UNCHANGED reported PROVE UNCHANGED Fallback!Contract!vars
  BY Zenon, <1>1, <1>2, PollSame DEF Fallback!Contract!vars
<1>3. Fallback!NoSelect.step = "none"
  BY DEF Fallback!NoSelect
<1>4. CASE \E forever \in BOOLEAN : Fallback!SelectBegin(forever)
  <2>1. select.step = "none" /\ select'.step # "scan" /\ UNCHANGED told
    <3>1. PICK forever, snapshot :
            \/ select' = Fallback!NoSelect
            \/ select' = [step |-> "wait", forever |-> forever, events |-> {}, snapshot |-> snapshot]
      BY Zenon, <1>4 DEF Fallback!SelectBegin, Fallback!Waiting
    <3>2. select'.step # "scan"
      BY ONLY <1>3, <3>1
    <3>3. select = Fallback!NoSelect /\ UNCHANGED told
      BY Zenon, <1>4 DEF Fallback!SelectBegin
    <3> QED
      BY ONLY <1>3, <3>2, <3>3
  <2>2. reported = {} /\ reported' = {}
    BY <2>1 DEF Fallback!In
  <2> QED
    BY <1>2, <2>1, <2>2
<1>5. CASE Fallback!PollReturns
  <2>1. select.step = "wait" /\ select'.events = {} /\ UNCHANGED told
    BY <1>5 DEF Fallback!PollReturns, Fallback!In
  <2>2. reported = {} /\ reported' = {}
    BY <2>1 DEF Fallback!In
  <2> QED
    BY <1>2, <2>1, <2>2
<1>6. CASE Fallback!PollTimesOut \/ Fallback!PollInterrupted
  <2>1. select.step = "wait" /\ select' = Fallback!NoSelect /\ UNCHANGED told
    BY Zenon, <1>6 DEF Fallback!PollTimesOut, Fallback!PollInterrupted, Fallback!Gone, Fallback!In
  <2>2. reported = {} /\ reported' = {}
    BY <1>3, <2>1 DEF Fallback!In
  <2> QED
    BY <1>2, <2>1, <2>2
<1>7. CASE Fallback!SelectReturn
  <2>1. select' = Fallback!NoSelect /\ UNCHANGED told
    BY Zenon, <1>7 DEF Fallback!SelectReturn
  <2>2. reported' = {}
    BY <1>3, <2>1 DEF Fallback!In
  <2>3. Fallback!Contract!PollEnds
    BY Zenon, <1>1, <2>1, <2>2, PollSame DEF Fallback!Contract!PollEnds
  <2> QED
    BY Zenon, <2>3 DEF Fallback!Contract!Next
<1>8. ASSUME select.step = "scan" PROVE Scanning
  BY <1>3, <1>8 DEF PollInv, Waiting
<1>9. CASE Fallback!drain_descriptor
  <2>1. select.step = "scan" /\ select' = [select EXCEPT !.drain = FALSE] /\ UNCHANGED told
    BY Zenon, <1>9 DEF Fallback!drain_descriptor, Fallback!In
  <2>2. select'.step = "scan" /\ select'.events = select.events
    BY <1>8, <2>1 DEF Scanning
  <2>3. UNCHANGED reported
    BY <2>1, <2>2 DEF Fallback!In
  <2> QED
    BY <1>2, <2>1, <2>3
<1>10. ASSUME NEW h \in Fallback!Handles, Fallback!Push(h)
       PROVE  Fallback!Contract!Next \/ UNCHANGED Fallback!Contract!vars
  <2>1. PICK ev : ev = select.events \cup {h}
    BY Zenon
  <2>2. PICK dr : dr = select.snapshot[h].auto_drain
    OBVIOUS
  <2>3. select.step = "scan" /\ select' = [select EXCEPT !.events = ev, !.drain = dr]
    BY Zenon, <1>10, <2>1, <2>2 DEF Fallback!Push, Fallback!In
  <2>4. select'.step = "scan" /\ select'.events = ev
    BY <1>8, <2>3 DEF Scanning
  <2>5. reported = select.events \ {waker} /\ reported' = (select.events \cup {h}) \ {waker}
    BY <2>1, <2>3, <2>4 DEF Fallback!In
  <2>6. CASE h = waker
    <3>1. UNCHANGED told
      BY Zenon, <1>10, <2>6 DEF Fallback!Push
    <3>2. UNCHANGED reported
      BY <2>5, <2>6
    <3> QED
      BY <1>2, <3>1, <3>2
  <2>7. CASE h # waker
    <3>0. h \in Sources
      BY <2>7 DEF Fallback!Handles
    <3>1. reported' = reported \cup {h}
      BY <2>5, <2>7
    <3>2. PICK x : x = select.revents[h] \cap Fallback!Found(h, registrations_[h])
      BY Zenon
    <3>3. told' = told \/ (registrations_[h] # NoReg /\ told' = told \cup ({h} \X x))
      BY Zenon, <1>10, <2>7, <3>2 DEF Fallback!Push
    <3>4. /\ UNCHANGED <<Fallback!ContractRegistered, Fallback!ContractReady>>
      <4>1. UNCHANGED Fallback!ContractRegistered
        BY <1>1 DEF Fallback!ContractRegistered
      <4>2. \A g \in Sources : ReadyNow(g)' = ReadyNow(g)
        BY Zenon, <1>1 DEF ReadyNow
      <4> QED
        BY <1>1, <4>1, <4>2, PollReady, PollReadyNext
    <3>5. CASE UNCHANGED (Fallback!ContractReady \ told)
      <4>1. Fallback!Contract!Late(h)
        BY Zenon, <3>1, <3>4, <3>5 DEF Fallback!Contract!Late
      <4> QED
        BY Zenon, <3>0, <4>1 DEF Fallback!Contract!Next
    <3>6. CASE ~UNCHANGED (Fallback!ContractReady \ told)
      <4>1. told' = told \cup ({h} \X x)
        BY Zenon, <3>3, <3>4, <3>6
      <4>2. PICK made : made = (Fallback!ContractReady \ told) \cap ({h} \X x)
        BY Zenon
      <4>3. (Fallback!ContractReady \ told)' = (Fallback!ContractReady \ told) \ made
        BY Zenon, <3>4, <4>1, <4>2
      <4>4. Fallback!ContractReady \subseteq Sources \X PollKinds
        BY PollReady
      <4>5. made \subseteq (Fallback!ContractReady \ told) \cap ({h} \X PollKinds)
        BY <4>2, <4>4
      <4>6. \E what \in PollKinds : <<h, what>> \in made
        <5>1. PICK d \in made : TRUE
          BY Zenon, <3>6, <4>3
        <5>2. d \in {h} \X PollKinds
          BY <4>5, <5>1
        <5> QED
          BY <5>1, <5>2
      <4>7. PICK what \in PollKinds : <<h, what>> \in made
        BY <4>6
      <4>8. Fallback!Contract!Report(h, what)
        <5>1. made \in SUBSET ((Fallback!ContractReady \ told) \cap ({h} \X PollKinds))
          BY <4>5
        <5> HIDE DEF reported
        <5> QED
          BY Zenon, <3>1, <3>4, <4>3, <4>7, <5>1
             DEF Fallback!Contract!Report, Fallback!Contract!Of, reported
      <4> QED
        BY Zenon, <3>0, <4>7, <4>8 DEF Fallback!Contract!Next
    <3> QED
      BY <3>5, <3>6
  <2> QED
    BY <2>6, <2>7
<1> QED
  BY Zenon, <1>4, <1>5, <1>6, <1>7, <1>9, <1>10 DEF Fallback!SelectEnds

\* The safety part of ImplementsContract: for any number of sources, tokens and
\* interests and a pipe of any size, every step of the map, the Waker, the copy of
\* the registrations and select_poll is a step of the atomic registry of
\* SelectorContract, or none.
THEOREM PollContractKept == Fallback!Spec => Fallback!Contract!Safety
<1>1. Fallback!Init => Fallback!Contract!Init
  <2> SUFFICES ASSUME Fallback!Init PROVE Fallback!Contract!Init
    OBVIOUS
  <2>1. /\ registrations_ = [h \in Sources \cup {waker} |-> NoReg]
        /\ select = Fallback!NoSelect
    BY Zenon DEF Fallback!Init, Fallback!Handles
  <2>2. Fallback!ContractRegistered = [h \in Sources |-> NoReg]
    BY <2>1 DEF Fallback!ContractRegistered
  <2>3. Fallback!ContractReady = {}
    BY <2>1, PollReady
  <2>4. ~Fallback!In("scan")
    BY <2>1 DEF Fallback!In, Fallback!NoSelect
  <2> QED
    BY <2>2, <2>3, <2>4 DEF Fallback!Contract!Init
<1>2. PollInv /\ Levels /\ [Fallback!Next]_(Fallback!vars)
        => [Fallback!Contract!Next]_(Fallback!Contract!vars)
  <2> SUFFICES ASSUME PollInv, Levels, [Fallback!Next]_(Fallback!vars)
               PROVE  Fallback!Contract!Next \/ UNCHANGED Fallback!Contract!vars
    OBVIOUS
  <2>1. CASE Fallback!Next
    BY Zenon, <2>1, PollCallContract, PollSelectContract, PollEnvironmentContract DEF Fallback!Next
  <2>2. CASE UNCHANGED Fallback!vars
    BY Zenon, <2>2, PollSame, PollReported DEF Fallback!vars, Fallback!Contract!vars
  <2> QED
    BY Zenon, <2>1, <2>2
<1> QED
  BY <1>1, <1>2, PollSafe, LevelsSafe, PTL DEF Fallback!Spec, Fallback!Contract!Safety

\* With poll a report that is due is never lost: a step that takes it off what is
\* due has pushed an Event of its source, or its readiness has gone, be it with the
\* registration.
THEOREM PollDueKept == Fallback!Spec => Fallback!Contract!NothingLost
<1> DEFINE due == Fallback!ContractReady \ told
           reported == IF Fallback!In("scan") THEN select.events \ {waker} ELSE {}
           Kept == \A d \in due \ due' : d[1] \in reported' \/ d \notin Fallback!ContractReady'
<1>1. Fallback!Contract!Next => Kept
  <2> SUFFICES ASSUME Fallback!Contract!Next, NEW d \in due \ due'
               PROVE  d[1] \in reported' \/ d \notin Fallback!ContractReady'
    OBVIOUS
  <2>1. ASSUME NEW h \in Sources, Fallback!Contract!Follows(h) PROVE d \notin Fallback!ContractReady'
    BY Zenon, <2>1 DEF Fallback!Contract!Follows
  <2>2. ASSUME NEW h \in Sources, Fallback!Contract!Deregister(h) PROVE d \notin Fallback!ContractReady'
    BY Zenon, <2>2 DEF Fallback!Contract!Deregister
  <2>3. ASSUME NEW h \in Sources, NEW what \in PollKinds, Fallback!Contract!Report(h, what)
        PROVE  d[1] \in reported'
    <3>1. d \in {h} \X PollKinds /\ reported' = reported \cup {h}
      BY Zenon, <2>3 DEF Fallback!Contract!Report, Fallback!Contract!Of
    <3> HIDE DEF reported
    <3> QED
      BY <3>1
  <2>4. due' # due
    BY Zenon
  <2> HIDE DEF reported
  <2> QED
    BY Zenon, <2>1, <2>2, <2>3, <2>4
       DEF Fallback!Contract!Next, Fallback!Contract!Register, Fallback!Contract!Reregister,
           Fallback!Contract!Set, Fallback!Contract!ReadinessChanges, Fallback!Contract!Late,
           Fallback!Contract!PollEnds
<1>2. [Fallback!Contract!Next]_(Fallback!Contract!vars) => [Kept]_(Fallback!Contract!vars)
  BY Zenon, <1>1
<1> QED
  BY <1>2, PollContractKept, PTL DEF Fallback!Contract!Safety, Fallback!Contract!NothingLost

====

