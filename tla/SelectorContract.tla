-------------------------- MODULE SelectorContract --------------------------
(***************************************************************************)
(* What a Poll promises, whatever the backend: handles are registered,     *)
(* reregistered and deregistered in one step; readiness of a registered    *)
(* handle makes a report due; a report that is due is made, by an Event of *)
(* its handle, unless the readiness goes away or the handle is             *)
(* deregistered.                                                           *)
(***************************************************************************)
CONSTANTS Handles, Tokens, InterestSets,
          What,    \* what is reported separately of one handle
          NoReg

VARIABLES registered, \* handle -> its token and interests, or NoReg
          ready,      \* what holds of registered handles: pairs of a handle and a What
          due,        \* the reports that are due, also such pairs
          reported    \* handles that have an Event in the Events of this poll

vars == <<registered, ready, due, reported>>

Entry == [token : Tokens, interests : InterestSets]

Init ==
  /\ registered = [h \in Handles |-> NoReg]
  /\ ready = {} /\ due = {} /\ reported = {}

Of(h) == {h} \X What

\* Nothing changes for other handles.
OnlyOf(h) == ready' \ Of(h) = ready \ Of(h) /\ due' \ Of(h) = due \ Of(h)

\* Only what is ready becomes due, and what is due stays due while it is ready.
Follows(h) ==
  /\ OnlyOf(h)
  /\ due' \subseteq due \cup ready'
  /\ due \cap ready' \subseteq due'

\* A handle that is already ready may become due at once.
Set(h, entry) ==
  /\ registered' = [registered EXCEPT ![h] = entry]
  /\ Follows(h)
  /\ UNCHANGED reported

Register(h, entry) == registered[h] = NoReg /\ Set(h, entry)

Reregister(h, entry) == registered[h] # NoReg /\ Set(h, entry)

Deregister(h) ==
  /\ registered' = [registered EXCEPT ![h] = NoReg]
  /\ ready' = ready \ Of(h)
  /\ due' = due \ Of(h)
  /\ UNCHANGED reported

ReadinessChanges(h) ==
  /\ registered[h] # NoReg
  /\ Follows(h)
  /\ UNCHANGED <<registered, reported>>

\* One event may make several reports on its handle.
Report(h, what) ==
  \E made \in SUBSET (due \cap Of(h)) :
    /\ <<h, what>> \in made
    /\ due' = due \ made
    /\ reported' = reported \cup {h}
    /\ UNCHANGED <<registered, ready>>

\* An Event about readiness that has passed.
Late(h) == reported' = reported \cup {h} /\ UNCHANGED <<registered, ready, due>>

\* A poll that fails can do so over one of the handles.
PollEnds ==
  /\ reported' = {}
  /\ \/ UNCHANGED <<ready, due>>
     \/ \E h \in Handles : registered[h] # NoReg /\ Follows(h)
  /\ UNCHANGED registered

Next ==
  \/ \E h \in Handles :
       \/ \E entry \in Entry : Register(h, entry) \/ Reregister(h, entry)
       \/ Deregister(h) \/ ReadinessChanges(h)
       \/ \E what \in What : Report(h, what)
       \/ Late(h)
  \/ PollEnds

Safety == Init /\ [][Next]_vars

Spec == Safety /\ \A h \in Handles, what \in What : WF_vars(Report(h, what))

------------------------------------------------------------------------------
\* A report that is due is given up only for an Event of its handle, or when its
\* readiness has gone, be it with the registration.
NothingLost == [][\A d \in due \ due' : d[1] \in reported' \/ d \notin ready']_vars

==============================================================================
