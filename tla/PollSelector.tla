---------------------------- MODULE PollSelector ----------------------------
(***************************************************************************)
(* The selector where there is neither epoll nor kqueue nor a completion   *)
(* port: select copies the registrations, waits in poll(2) on the copy and *)
(* goes through what poll found, while other threads use the Registry and  *)
(* the Waker, which is a pipe.  poll reports readiness as long as it lasts *)
(* and knows nothing of the registrations made while it waits.             *)
(***************************************************************************)
EXTENDS Naturals, FiniteSets

CONSTANTS
  Sources,      \* descriptors of sources
  waker,        \* the read end of the Waker's pipe
  Tokens,
  InterestSets,
  Kinds,        \* kinds of readiness a source can have
  PipeCap,      \* bytes that fit into the pipe
  Capacity,     \* of the Events that select fills
  NoReg

Handles == Sources \cup {waker}

VARIABLES
  registrations_, \* handle -> its Registration, or NoReg
  select,         \* the call of select in progress
  level,          \* source -> what it is ready for
  pipe,           \* bytes in the Waker's pipe
  \* history
  told,           \* reports made since the readiness or the registration last changed
  woken           \* "yes": wake was called, and no Events with this Waker's event returned
                  \* since; "swallowed": nor will they, the byte was read for another Waker

vars == <<registrations_, select, level, pipe, told, woken>>

NoSelect == [step |-> "none"]

In(name) == select.step = name

\* What poll would find now for a registration of h.
Found(h, registration) ==
  registration.interests
    \cap (IF h # waker THEN level[h] ELSE IF pipe > 0 THEN {"READABLE"} ELSE {})

\* The program does not change registrations behind a poll that waits for ever; it
\* wakes that poll, or lets its polls have a timeout.
Seen == ~(In("wait") /\ select.forever)

------------------------------------------------------------------------------
\* Registry.  The backend has no state of its own.

Reports(h) == {h} \X Kinds

Forgets(h) == told' = told \ Reports(h)

Registration(token, interests, auto_drain) ==
  [token |-> token, interests |-> interests, auto_drain |-> auto_drain]

Add(h, token, interests) ==
  /\ Seen /\ registrations_[h] = NoReg
  /\ registrations_' = [registrations_ EXCEPT ![h] = Registration(token, interests, FALSE)]
  /\ Forgets(h)
  /\ UNCHANGED <<select, level, pipe, woken>>

Update(h, token, interests) ==
  /\ Seen /\ registrations_[h] # NoReg
  /\ registrations_' = [registrations_ EXCEPT ![h].token = token, ![h].interests = interests]
  /\ Forgets(h)
  /\ UNCHANGED <<select, level, pipe, woken>>

Remove(h) ==
  /\ registrations_[h] # NoReg
  /\ registrations_' = [registrations_ EXCEPT ![h] = NoReg]
  /\ Forgets(h)
  /\ UNCHANGED <<select, level, pipe, woken>>

------------------------------------------------------------------------------
\* Waker

WakerNew(token) ==
  /\ Seen /\ registrations_[waker] = NoReg
  /\ registrations_' = [registrations_ EXCEPT ![waker] = Registration(token, {"READABLE"}, TRUE)]
  /\ UNCHANGED <<select, level, pipe, told, woken>>

\* The destructor; what was written goes with the pipe.
WakerDrop ==
  /\ registrations_[waker] # NoReg
  /\ registrations_' = [registrations_ EXCEPT ![waker] = NoReg]
  /\ pipe' = 0
  /\ woken' = "no"
  /\ UNCHANGED <<select, level, told>>

\* A full pipe is as good as another byte.
wake ==
  /\ registrations_[waker] # NoReg
  /\ pipe' = IF pipe < PipeCap THEN pipe + 1 ELSE pipe
  /\ woken' = "yes"
  /\ UNCHANGED <<registrations_, select, level, told>>

------------------------------------------------------------------------------
\* Sources (external)

Arise(h, kind) ==
  /\ kind \notin level[h]
  /\ level' = [level EXCEPT ![h] = @ \cup {kind}]
  /\ told' = told \ {<<h, kind>>}
  /\ UNCHANGED <<registrations_, select, pipe, woken>>

Cease(h, kind) ==
  /\ kind \in level[h]
  /\ level' = [level EXCEPT ![h] = @ \ {kind}]
  /\ told' = told \ {<<h, kind>>}
  /\ UNCHANGED <<registrations_, select, pipe, woken>>

------------------------------------------------------------------------------
\* select_poll

\* snapshot, and the descriptors for poll.
Waiting(forever) ==
  [step |-> "wait", forever |-> forever, events |-> {},
   snapshot |-> [h \in {r \in Handles : registrations_[r] # NoReg} |-> registrations_[h]]]

\* A variant that empties the pipe before it looks.
SelectBegin_drains(forever) ==
  /\ select = NoSelect
  /\ select' = IF Capacity = 0 THEN NoSelect ELSE Waiting(forever)
  /\ pipe' = 0
  /\ UNCHANGED <<registrations_, level, told, woken>>

\* Events without room are returned at once, as they are: empty.
SelectBegin(forever) ==
  /\ select = NoSelect
  /\ select' = IF Capacity = 0 THEN NoSelect ELSE Waiting(forever)
  /\ UNCHANGED <<registrations_, level, pipe, told, woken>>

Ready == {h \in DOMAIN select.snapshot : Found(h, select.snapshot[h]) # {}}

PollReturns ==
  /\ In("wait") /\ Ready # {}
  /\ select' = [step |-> "scan", events |-> {}, drain |-> FALSE,
                revents |-> [h \in Ready |-> Found(h, select.snapshot[h])],
                snapshot |-> select.snapshot]
  /\ UNCHANGED <<registrations_, level, pipe, told, woken>>

Gone == select' = NoSelect /\ UNCHANGED <<registrations_, level, pipe, told, woken>>

PollTimesOut == In("wait") /\ ~select.forever /\ Ready = {} /\ Gone

\* EINTR: select returns no events.
PollInterrupted == In("wait") /\ Gone

\* The events pushed by now are those of the handles in select.events, with the
\* tokens of the snapshot, however many they are.
Push(h) ==
  /\ In("scan") /\ ~select.drain /\ h \in DOMAIN select.revents \ select.events
  /\ select' = [select EXCEPT !.events = @ \cup {h},
                              !.drain = select.snapshot[h].auto_drain]
  /\ told' = IF h # waker /\ registrations_[h] # NoReg
             THEN told \cup ({h} \X (select.revents[h] \cap Found(h, registrations_[h])))
             ELSE told
  /\ UNCHANGED <<registrations_, level, pipe, woken>>

\* The copy's registration of the Waker's number is not the present Waker's: an
\* earlier Waker had the number when the poll began.
Superseded ==
  /\ registrations_[waker] # NoReg
  /\ select.snapshot[waker].token # registrations_[waker].token

\* Reads the number empty, whoever has it by now.
drain_descriptor ==
  /\ In("scan") /\ select.drain
  /\ select' = [select EXCEPT !.drain = FALSE]
  /\ pipe' = 0
  /\ woken' = IF woken = "yes" /\ Superseded THEN "swallowed" ELSE woken
  /\ UNCHANGED <<registrations_, level, told>>

\* A variant that stops at one event.
SelectReturn_first ==
  /\ In("scan") /\ ~select.drain /\ select.events # {}
  /\ select' = NoSelect
  /\ woken' = IF waker \in select.events /\ ~Superseded THEN "no" ELSE woken
  /\ UNCHANGED <<registrations_, level, pipe, told>>

SelectReturn ==
  /\ In("scan") /\ ~select.drain /\ select.events = DOMAIN select.revents
  /\ select' = NoSelect
  /\ woken' = IF waker \in select.events /\ ~Superseded THEN "no" ELSE woken
  /\ UNCHANGED <<registrations_, level, pipe, told>>

------------------------------------------------------------------------------
Init ==
  /\ registrations_ = [h \in Handles |-> NoReg]
  /\ select = NoSelect
  /\ level = [h \in Sources |-> {}]
  /\ pipe = 0
  /\ told = {}
  /\ woken = "no"

RegistryCall ==
  \/ \E h \in Sources :
       \/ \E token \in Tokens, interests \in InterestSets :
            Add(h, token, interests) \/ Update(h, token, interests)
       \/ Remove(h)
  \/ \E token \in Tokens : WakerNew(token)
  \/ WakerDrop \/ wake

SelectEnds ==
  PollReturns \/ PollTimesOut \/ drain_descriptor \/ SelectReturn \/ \E h \in Handles : Push(h)

Next ==
  \/ RegistryCall
  \/ \E forever \in BOOLEAN : SelectBegin(forever)
  \/ SelectEnds \/ PollInterrupted
  \/ \E h \in Sources, kind \in Kinds : Arise(h, kind) \/ Cease(h, kind)

\* The loop polls again and again, poll returns when there is something and at the
\* timeout, and signals do not interrupt every poll.
Fairness ==
  /\ WF_vars(\E forever \in BOOLEAN : SelectBegin(forever))
  /\ WF_vars(SelectEnds)
  /\ <>[][~PollInterrupted]_vars

Spec == Init /\ [][Next]_vars

FairSpec == Spec /\ Fairness

------------------------------------------------------------------------------
\* Every wake is followed by Events that hold the event of the Waker it was called
\* on, also when poll is already waiting without a timeout, is just returning, or the
\* pipe is full.  The one exception: select empties the number that its copy knows,
\* so a Waker made during a poll, with the number an earlier Waker had when that poll
\* began, can lose its wake to the event of the earlier one.
WakeReported == (woken = "yes") ~> (woken # "yes")

\* Until then the Waker is registered and either the pipe holds a byte, which every
\* poll begun from now on finds, or its own Event is among those being collected.
WakeKept ==
  woken = "yes" =>
    /\ registrations_[waker] # NoReg
    /\ \/ Found(waker, registrations_[waker]) # {}
       \/ In("scan") /\ waker \in select.events /\ ~Superseded

\* The promise of SelectorContract.
ContractRegistered ==
  [h \in Sources |->
     IF registrations_[h] = NoReg THEN NoReg
     ELSE [token |-> registrations_[h].token, interests |-> registrations_[h].interests]]

ContractReady ==
  {d \in Sources \X Kinds :
     registrations_[d[1]] # NoReg /\ d[2] \in Found(d[1], registrations_[d[1]])}

Contract == INSTANCE SelectorContract
  WITH Handles <- Sources, What <- Kinds,
       registered <- ContractRegistered, ready <- ContractReady,
       due <- ContractReady \ told,
       reported <- IF In("scan") THEN select.events \ {waker} ELSE {}

\* With poll, too, the selector behaves as the atomic registry of SelectorContract
\* and makes every report that is due, once and then again while readiness lasts.
ImplementsContract == Contract!Spec

=============================================================================
