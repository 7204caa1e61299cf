--------------------------- MODULE SelfPipeProofs ---------------------------
(***************************************************************************)
(* Proofs about SelfPipe for any sets of signals and objects and any sizes *)
(* of the pipe: handlers use objects that are there, what was caught stays *)
(* on its way, and the handlers in place are those of the signals caught.  *)
(***************************************************************************)
EXTENDS SelfPipe, TLAPS

Ops == {"none", "new", "drop", "drop_close", "add", "add_insert", "remove", "pending"}

Types ==
  /\ alive \subseteq Objects
  /\ global_instance \in Objects \cup {NoObject}
  /\ registered_signals \in [Objects -> SUBSET Sigs]
  /\ queue \in [Objects -> Seq(Sigs)]
  /\ call \in [op : Ops, object : Objects \cup {NoObject}, sigs : SUBSET Sigs]
  /\ handling \in [Sigs -> {"none", "begun", "checked"}]
  /\ handled \subseteq Sigs
  /\ console \in Nat
  /\ alone \in BOOLEAN
  /\ caught \in [Objects -> SUBSET Sigs]
  /\ owed \subseteq Sigs

------------------------------------------------------------------------------
\* Handlers and objects

\* The object of a call is there, and is no longer the global one when it goes.
CallObject ==
  /\ call.op = "none" <=> call = NoCall
  /\ call.op # "none" => call.object \in alive
  /\ call.op = "drop_close" => call.object # global_instance

\* The pointer never dangles, and is not cleared under a handler that has looked.
PointerInv ==
  /\ global_instance \in alive \cup {NoObject}
  /\ \A s \in Sigs : handling[s] = "checked" => global_instance # NoObject

\* Only add has the step add_insert on Windows, with its one signal.
InsertInv == call.op = "add_insert" => ~Bsd /\ \E s \in Sigs : call.sigs = {s}

SafeInv == Types /\ CallObject /\ PointerInv


------------------------------------------------------------------------------
\* One object at a time

AnyCaught(s) == \E i \in Objects : s \in caught[i]

\* The one object is the global one, except at the ends of its life; an object that
\* is not there has nothing.
Single ==
  /\ \A i, j \in alive : i = j
  /\ \A i \in Objects : i \notin alive \/ call.op = "new" =>
       registered_signals[i] = {} /\ caught[i] = {}
  /\ \A i \in alive : call.op \notin {"new", "drop_close"} => global_instance = i
  /\ call.op \in {"drop", "drop_close"} => \A i \in Objects : caught[i] = {}

\* How far each call has got with the dispositions.
BsdHandlers ==
  /\ \A i \in Objects : caught[i] \subseteq registered_signals[i]
  /\ \A s \in Sigs : AnyCaught(s) => s \in handled
  /\ \A s \in handled : AnyCaught(s) \/ (call.op = "remove" /\ s \in call.sigs)
  /\ call.op = "remove" => \A s \in call.sigs : ~AnyCaught(s)
  /\ call.op = "add" => call.sigs \subseteq registered_signals[call.object]

\* And with the console handler.
WinHandlers ==
  /\ console \in {0, 1}
  /\ call.op # "drop_close" => \A i \in Objects : caught[i] = registered_signals[i]
  /\ (\E s \in Sigs : AnyCaught(s)) \/ call.op = "add_insert" => console = 1
  /\ console = 1 => \/ \E s \in Sigs : AnyCaught(s)
                    \/ call.op \in {"add_insert", "remove"}

\* What is owed is caught, and on its way.
OnItsWay(s) ==
  \/ handling[s] # "none"
  \/ call.op = "pending" /\ s \in call.sigs
  \/ \E i \in alive : InQueue(i, s)

AloneInv ==
  alone =>
    /\ Single
    /\ Bsd => BsdHandlers
    /\ ~Bsd => WinHandlers
    /\ \A s \in owed : AnyCaught(s) /\ OnItsWay(s)

IInv == SafeInv /\ InsertInv /\ AloneInv

------------------------------------------------------------------------------
\* The steps of Next, one by one.
LEMMA NextCases ==
  ASSUME [Next]_vars
  PROVE  \/ UNCHANGED vars
         \/ NewGlobal
         \/ BsdDropGlobal
         \/ DropClose
         \/ BsdAddSigaction
         \/ WinAddInsert
         \/ BsdRemoveDefault
         \/ WinRemoveUninstall
         \/ PendingRead
         \/ PendingReturn
         \/ \E i \in Objects : NewPipe(i) \/ BsdDropReset(i) \/ WinDropGlobal(i) \/ PendingBegin(i)
         \/ \E i \in Objects, s \in Sigs : BsdAddInsert(i, s) \/ WinAddInstall(i, s) \/ RemoveErase(i, s)
         \/ \E s \in Sigs : Raise(s) \/ BsdHandlerChecks(s) \/ WinHandlerChecks(s) \/ HandlerWrites(s)
  BY DEF Next, CallGoesOn, CallBegins, Handler

LEMMA SafeStep ==
  ASSUME NoObject \notin Objects, SafeInv, [Next]_vars
  PROVE  SafeInv'
<1> USE DEF SafeInv, Types, CallObject, PointerInv, Ops, Turn, Bsd
<1>1. CASE UNCHANGED vars
  BY <1>1 DEF vars, objectVars, systemVars, historyVars
<1>2. CASE NewGlobal
  BY <1>2 DEF NewGlobal, In, Return, NoCall, objectVars, systemVars, historyVars
<1>3. CASE BsdDropGlobal
  BY <1>3 DEF BsdDropGlobal, In, Begin, NoCall, objectVars, systemVars, historyVars
<1>4. CASE DropClose
  BY <1>4 DEF DropClose, In, Return, NoCall, objectVars, systemVars, historyVars
<1>5. CASE BsdAddSigaction
  <2>1. /\ call' = NoCall /\ call.sigs \subseteq Sigs
        /\ UNCHANGED <<alive, global_instance, registered_signals, queue, handling, console, alone, owed>>
    BY <1>5 DEF BsdAddSigaction, Return, objectVars
  <2>2. handled' \subseteq Sigs
    BY <1>5, <2>1 DEF BsdAddSigaction
  <2>3. caught' \in [Objects -> SUBSET Sigs]
    BY <1>5, <2>1 DEF BsdAddSigaction, Catches
  <2> QED
    BY <2>1, <2>2, <2>3 DEF NoCall
<1>6. CASE WinAddInsert
  BY <1>6 DEF WinAddInsert, In, Return, NoCall, Inserted, Catches, objectVars, systemVars, historyVars
<1>7. CASE BsdRemoveDefault
  BY <1>7 DEF BsdRemoveDefault, In, Return, NoCall, objectVars, systemVars, historyVars
<1>8. CASE WinRemoveUninstall
  BY <1>8 DEF WinRemoveUninstall, In, Return, NoCall, Uninstalled, objectVars, systemVars, historyVars
<1>9. CASE PendingRead
  BY <1>9 DEF PendingRead, In, Begin, NoCall, objectVars, systemVars, historyVars
<1>10. CASE PendingReturn
  BY <1>10 DEF PendingReturn, In, Return, NoCall, Again, objectVars, systemVars, historyVars
<1>11. ASSUME NEW i \in Objects, NewPipe(i) PROVE SafeInv'
  BY Zenon, <1>11 DEF NewPipe, Begin, NoCall, objectVars, systemVars, historyVars
<1>12. ASSUME NEW i \in Objects, BsdDropReset(i) PROVE SafeInv'
  BY <1>12 DEF BsdDropReset, May, Begin, GivesUp, objectVars, systemVars, historyVars
<1>13. ASSUME NEW i \in Objects, WinDropGlobal(i) PROVE SafeInv'
  BY <1>13 DEF WinDropGlobal, May, Begin, GivesUp, Uninstalled, Free, HandlerLocked, objectVars, systemVars, historyVars
<1>14. ASSUME NEW i \in Objects, PendingBegin(i) PROVE SafeInv'
  BY <1>14 DEF PendingBegin, May, Begin, objectVars, systemVars, historyVars
<1>15. ASSUME NEW i \in Objects, NEW s \in Sigs, BsdAddInsert(i, s) PROVE SafeInv'
  BY <1>15 DEF BsdAddInsert, May, Begin, Inserted, objectVars, systemVars, historyVars
<1>16. ASSUME NEW i \in Objects, NEW s \in Sigs, WinAddInstall(i, s) PROVE SafeInv'
  BY <1>16 DEF WinAddInstall, May, Begin, objectVars, systemVars, historyVars
<1>17. ASSUME NEW i \in Objects, NEW s \in Sigs, RemoveErase(i, s) PROVE SafeInv'
  BY <1>17 DEF RemoveErase, May, Begin, Erased, GivesUp, objectVars, systemVars, historyVars
<1>18. ASSUME NEW s \in Sigs, Raise(s) PROVE SafeInv'
  BY Zenon, <1>18 DEF Raise, objectVars, systemVars, historyVars
<1>19. ASSUME NEW s \in Sigs, BsdHandlerChecks(s) PROVE SafeInv'
  BY <1>19 DEF BsdHandlerChecks, objectVars, systemVars, historyVars
<1>20. ASSUME NEW s \in Sigs, WinHandlerChecks(s) PROVE SafeInv'
  BY Zenon, <1>20 DEF WinHandlerChecks, objectVars, systemVars, historyVars
<1>21. ASSUME NEW s \in Sigs, HandlerWrites(s) PROVE SafeInv'
  BY <1>21 DEF HandlerWrites, objectVars, systemVars, historyVars
<1> QED
  BY Zenon, NextCases, <1>1, <1>2, <1>3, <1>4, <1>5, <1>6, <1>7, <1>8, <1>9, <1>10, <1>11, <1>12, <1>13, <1>14, <1>15, <1>16, <1>17, <1>18, <1>19, <1>20, <1>21

------------------------------------------------------------------------------
\* The calls that change what is caught, with one object: what they change, and that
\* AloneInv survives it.

LEMMA InsertStep ==
  ASSUME IInv, [Next]_vars
  PROVE  InsertInv'
<1> USE DEF InsertInv, Bsd
<1>1. CASE UNCHANGED vars
  BY <1>1 DEF IInv, vars
<1>2. CASE call' = call /\ platform' = platform
  BY <1>2 DEF IInv
<1>3. CASE call' = NoCall
  BY <1>3 DEF NoCall
<1>4. CASE \E i \in Objects, s \in Sigs : WinAddInstall(i, s)
  BY <1>4 DEF WinAddInstall, Begin
<1>5. CASE call'.op # "add_insert"
  BY <1>5
<1>6. CASE BsdDropGlobal \/ PendingRead
  BY <1>5, <1>6 DEF BsdDropGlobal, PendingRead, Begin
<1>7. CASE \E i \in Objects : NewPipe(i) \/ BsdDropReset(i) \/ WinDropGlobal(i) \/ PendingBegin(i)
  BY <1>5, <1>7 DEF NewPipe, BsdDropReset, WinDropGlobal, PendingBegin, Begin
<1>8. CASE \E i \in Objects, s \in Sigs : BsdAddInsert(i, s) \/ RemoveErase(i, s)
  BY <1>5, <1>8 DEF BsdAddInsert, RemoveErase, Begin
<1>9. CASE NewGlobal \/ DropClose \/ BsdAddSigaction \/ WinAddInsert \/ BsdRemoveDefault
           \/ WinRemoveUninstall \/ PendingReturn
  BY <1>3, <1>9 DEF NewGlobal, DropClose, BsdAddSigaction, WinAddInsert, BsdRemoveDefault,
     WinRemoveUninstall, PendingReturn, Return
<1>10. CASE \E s \in Sigs : Raise(s) \/ BsdHandlerChecks(s) \/ WinHandlerChecks(s) \/ HandlerWrites(s)
  BY <1>2, <1>10 DEF Raise, BsdHandlerChecks, WinHandlerChecks, HandlerWrites
<1> QED
  BY <1>1, <1>4, <1>6, <1>7, <1>8, <1>9, <1>10, NextCases

LEMMA DropCloseKeeps ==
  ASSUME NoObject \notin Objects, IInv, DropClose, alone'
  PROVE  AloneInv'
<1>1. /\ Types /\ CallObject /\ Single /\ (Bsd => BsdHandlers) /\ (~Bsd => WinHandlers)
      /\ \A s \in owed : AnyCaught(s)
  BY DEF IInv, SafeInv, AloneInv, DropClose, historyVars
<1>2. /\ call.op = "drop_close" /\ call.object \in Objects
      /\ call'.op = "none" /\ alive' = alive \ {call.object}
      /\ registered_signals' = [registered_signals EXCEPT ![call.object] = {}]
      /\ UNCHANGED <<platform, handled, console, caught, owed>>
  BY <1>1 DEF DropClose, In, Return, NoCall, systemVars, historyVars, Types, CallObject
<1>3. alive' = {}
  BY <1>1, <1>2 DEF Single, CallObject
<1>4. \A i \in Objects : registered_signals'[i] = {} /\ caught'[i] = {}
  <2>1. \A i \in Objects : i # call.object => i \notin alive
    BY <1>1, <1>2 DEF Single, CallObject
  <2> QED
    BY <1>1, <1>2, <2>1 DEF Single, Types
<1>5. Single'
  BY <1>2, <1>3, <1>4 DEF Single
<1>6. \A s \in Sigs : ~AnyCaught(s) /\ ~AnyCaught(s)'
  BY <1>2, <1>4 DEF AnyCaught
<1>7. owed' = {}
  BY <1>1, <1>2, <1>6 DEF Types
<1>8. Bsd' => BsdHandlers'
  BY <1>1, <1>2, <1>4, <1>6 DEF Bsd, BsdHandlers, Types
<1>9. ~Bsd' => WinHandlers'
  BY Zenon, <1>1, <1>2, <1>4, <1>6 DEF Bsd, WinHandlers
<1> QED
  BY <1>5, <1>7, <1>8, <1>9 DEF AloneInv

LEMMA SigactionKeeps ==
  ASSUME NoObject \notin Objects, IInv, BsdAddSigaction, alone'
  PROVE  AloneInv'
<1>1. /\ Types /\ CallObject /\ Single /\ Bsd /\ BsdHandlers
      /\ \A s \in owed : AnyCaught(s) /\ OnItsWay(s)
  BY DEF IInv, SafeInv, AloneInv, BsdAddSigaction
<1>2. /\ call.op = "add" /\ call.object \in alive /\ call.object \in Objects /\ call.sigs \subseteq Sigs
      /\ call'.op = "none" /\ alone
      /\ UNCHANGED <<platform, alive, global_instance, registered_signals, queue, handling, owed>>
  BY <1>1 DEF BsdAddSigaction, In, Return, NoCall, objectVars, Types, CallObject
<1>3. CASE UNCHANGED <<handled, caught>>
  <2>1. Single' /\ BsdHandlers'
    BY <1>1, <1>2, <1>3 DEF Single, BsdHandlers, AnyCaught
  <2>2. \A s \in owed' : AnyCaught(s)' /\ OnItsWay(s)'
    BY <1>1, <1>2, <1>3 DEF AnyCaught, OnItsWay, InQueue
  <2> QED
    BY <1>1, <1>2, <2>1, <2>2 DEF AloneInv, Bsd
<1>4. CASE handled' = handled \cup call.sigs /\ Catches(call.object, call.sigs)
  <2>1. \A i \in Objects : caught'[i] = IF i = call.object THEN caught[i] \cup call.sigs ELSE caught[i]
    BY Zenon, <1>1, <1>2, <1>4 DEF Catches, Types
  <2>2. \A s \in Sigs : AnyCaught(s)' <=> AnyCaught(s) \/ s \in call.sigs
    BY Zenon, <1>2, <2>1 DEF AnyCaught
  <2>3. Single'
    BY <1>1, <1>2, <2>1 DEF Single
  <2>4. BsdHandlers'
    BY Zenon, <1>1, <1>2, <1>4, <2>1, <2>2 DEF BsdHandlers, Types
  <2>5. \A s \in owed' : AnyCaught(s)' /\ OnItsWay(s)'
    BY <1>1, <1>2, <2>2 DEF OnItsWay, InQueue, Types
  <2> QED
    BY <1>1, <1>2, <2>3, <2>4, <2>5 DEF AloneInv, Bsd
<1> QED
  BY <1>3, <1>4 DEF BsdAddSigaction

LEMMA InsertKeeps ==
  ASSUME NoObject \notin Objects, IInv, WinAddInsert, alone'
  PROVE  AloneInv'
<1>1. /\ Types /\ CallObject /\ Single /\ ~Bsd /\ WinHandlers
      /\ \A s \in owed : AnyCaught(s) /\ OnItsWay(s)
  BY DEF IInv, SafeInv, AloneInv, InsertInv, WinAddInsert, In
<1>2. /\ call.op = "add_insert" /\ call.object \in alive /\ call.object \in Objects
      /\ call'.op = "none" /\ alone
      /\ UNCHANGED <<platform, alive, global_instance, queue, handling, console, owed>>
  BY <1>1 DEF WinAddInsert, In, Return, NoCall, systemVars, Types, CallObject
<1>3. PICK s \in Sigs : call.sigs = {s}
  BY <1>2 DEF IInv, InsertInv
<1>4. Inserted(call.object, s) /\ Catches(call.object, {s})
  BY <1>3 DEF WinAddInsert
<1>5. \A i \in Objects :
        /\ caught'[i] = IF i = call.object THEN caught[i] \cup {s} ELSE caught[i]
        /\ registered_signals'[i] =
             IF i = call.object THEN registered_signals[i] \cup {s} ELSE registered_signals[i]
  BY Zenon, <1>1, <1>2, <1>4 DEF Inserted, Catches, Types
<1>6. \A t \in Sigs : AnyCaught(t)' <=> AnyCaught(t) \/ t = s
  <2>1. s \in caught'[call.object] /\ call.object \in Objects
    BY Zenon, <1>2, <1>5
  <2>2. \A i \in Objects : caught[i] \subseteq caught'[i] /\ caught'[i] \subseteq caught[i] \cup {s}
    BY Zenon, <1>5
  <2> QED
    BY <2>1, <2>2 DEF AnyCaught
<1>7. Single'
  BY Zenon, <1>1, <1>2, <1>5 DEF Single
<1>8. WinHandlers'
  BY Zenon, <1>1, <1>2, <1>5, <1>6 DEF WinHandlers
<1>9. \A t \in owed' : AnyCaught(t)' /\ OnItsWay(t)'
  BY <1>1, <1>2, <1>6 DEF OnItsWay, InQueue, Types
<1> QED
  BY <1>1, <1>2, <1>7, <1>8, <1>9 DEF AloneInv, Bsd

LEMMA EraseKeeps ==
  ASSUME NoObject \notin Objects, IInv, alone',
         NEW i \in Objects, NEW s \in Sigs, RemoveErase(i, s)
  PROVE  AloneInv'
<1>1. /\ Types /\ Single /\ (Bsd => BsdHandlers) /\ (~Bsd => WinHandlers)
      /\ \A t \in owed : AnyCaught(t) /\ OnItsWay(t)
  BY DEF IInv, SafeInv, AloneInv, RemoveErase, GivesUp
<1>2. /\ i \in alive /\ call.op = "none" /\ call' = [op |-> "remove", object |-> i, sigs |-> {s}]
      /\ owed' = owed \ {s}
      /\ UNCHANGED <<platform, alive, global_instance, queue, handling, handled, console>>
  BY DEF RemoveErase, May, NoCall, Begin, GivesUp, systemVars
<1>3. \A j \in Objects :
        /\ caught'[j] = IF j = i THEN caught[j] \ {s} ELSE caught[j]
        /\ registered_signals'[j] = IF j = i THEN registered_signals[j] \ {s} ELSE registered_signals[j]
  BY Zenon, <1>1 DEF RemoveErase, Erased, GivesUp, Types
<1>4. \A j \in Objects : j # i => caught[j] = {} /\ registered_signals[j] = {}
  BY <1>1, <1>2 DEF Single
<1>5. \A t \in Sigs : AnyCaught(t)' <=> AnyCaught(t) /\ t # s
  BY Zenon, <1>3, <1>4 DEF AnyCaught
<1>6. Single'
  BY <1>1, <1>2, <1>3 DEF Single
<1>7. ASSUME Bsd PROVE BsdHandlers'
  BY Zenon, <1>1, <1>2, <1>3, <1>5, <1>7 DEF BsdHandlers, Types
<1>8. ASSUME ~Bsd PROVE WinHandlers'
  BY Zenon, <1>1, <1>2, <1>3, <1>5, <1>8 DEF WinHandlers
<1>9. \A t \in owed' : AnyCaught(t)' /\ OnItsWay(t)'
  BY <1>1, <1>2, <1>5 DEF OnItsWay, InQueue, Types
<1> QED
  BY <1>2, <1>6, <1>7, <1>8, <1>9 DEF AloneInv, Bsd

LEMMA ReadKeeps ==
  ASSUME NoObject \notin Objects, IInv, PendingRead, alone'
  PROVE  AloneInv'
<1> DEFINE o == call.object
           q == queue[o]
<1>1. /\ Types /\ CallObject /\ Single /\ (Bsd => BsdHandlers) /\ (~Bsd => WinHandlers)
      /\ \A s \in owed : AnyCaught(s) /\ OnItsWay(s)
  BY DEF IInv, SafeInv, AloneInv, PendingRead, historyVars
<1>2. /\ call.op = "pending" /\ q # <<>>
      /\ call' = [op |-> "pending", object |-> o, sigs |-> call.sigs \cup {Head(q)}]
      /\ queue' = [queue EXCEPT ![o] = Tail(q)]
      /\ UNCHANGED <<platform, alive, global_instance, registered_signals, handling, handled, console,
                     caught, owed>>
  BY DEF PendingRead, In, Begin, systemVars, historyVars
<1>3. o \in alive /\ o \in Objects /\ q \in Seq(Sigs)
  BY <1>1, <1>2 DEF CallObject, Types
<1>4. Single' /\ (Bsd' => BsdHandlers') /\ (~Bsd' => WinHandlers')
  BY <1>1, <1>2 DEF Single, Bsd, BsdHandlers, WinHandlers, AnyCaught
<1>5. ASSUME NEW s \in Sigs, NEW k \in 1..Len(q), q[k] = s
      PROVE  s \in call'.sigs \/ InQueue(o, s)'
  <2>1. CASE k = 1
    BY <1>2, <1>3, <1>5, <2>1
  <2>2. CASE k # 1
    <3>1. k - 1 \in 1..Len(Tail(q)) /\ Tail(q)[k - 1] = s
      BY <1>2, <1>3, <1>5, <2>2
    <3>2. queue'[o] = Tail(q) /\ call'.object = o
      BY <1>1, <1>2, <1>3 DEF Types
    <3> QED
      BY Zenon, <3>1, <3>2 DEF InQueue
  <2> QED
    BY <2>1, <2>2
<1>6. ASSUME NEW s \in owed PROVE AnyCaught(s)' /\ OnItsWay(s)'
  <2>1. AnyCaught(s)' /\ OnItsWay(s) /\ s \in Sigs
    BY <1>1, <1>2 DEF AnyCaught, Types
  <2>2. CASE handling[s] # "none" \/ (call.op = "pending" /\ s \in call.sigs)
    BY <1>2, <2>1, <2>2 DEF OnItsWay
  <2>3. CASE \E i \in alive : InQueue(i, s)
    <3>1. PICK k \in 1..Len(q) : q[k] = s
      BY <1>1, <1>3, <2>3 DEF Single, InQueue
    <3>2. s \in call'.sigs \/ InQueue(o, s)'
      BY <1>5, <2>1, <3>1
    <3>3. InQueue(o, s)' => \E i \in alive' : InQueue(i, s)'
      BY <1>2, <1>3
    <3> QED
      BY <1>2, <2>1, <3>2, <3>3 DEF OnItsWay
  <2> QED
    BY <2>1, <2>2, <2>3 DEF OnItsWay
<1> QED
  BY <1>2, <1>4, <1>6 DEF AloneInv

LEMMA UninstallKeeps ==
  ASSUME NoObject \notin Objects, IInv, WinRemoveUninstall, alone'
  PROVE  AloneInv'
<1>1. /\ Types /\ CallObject /\ Single /\ ~Bsd /\ WinHandlers
      /\ \A s \in owed : AnyCaught(s) /\ OnItsWay(s)
  BY DEF IInv, SafeInv, AloneInv, WinRemoveUninstall, historyVars
<1>2. /\ call.op = "remove" /\ call.object \in alive /\ call'.op = "none"
      /\ console' = IF registered_signals[call.object] = {} THEN Uninstalled(console) ELSE console
      /\ UNCHANGED <<platform, alive, global_instance, registered_signals, queue, handling, caught, owed>>
  BY <1>1 DEF WinRemoveUninstall, In, Return, NoCall, objectVars, historyVars, CallObject
<1>3. \A s \in Sigs : AnyCaught(s)' <=> AnyCaught(s)
  BY <1>2 DEF AnyCaught
<1>4. (\E s \in Sigs : AnyCaught(s)) <=> registered_signals[call.object] # {}
  <2>1. \A i \in Objects : i # call.object => caught[i] = {}
    BY <1>1, <1>2 DEF Single
  <2>2. call.object \in Objects /\ caught[call.object] = registered_signals[call.object]
    BY <1>1, <1>2 DEF WinHandlers, Types
  <2> QED
    BY <1>1, <2>1, <2>2 DEF AnyCaught, Types
<1>5. Single'
  BY <1>1, <1>2 DEF Single
<1>6. WinHandlers'
  BY <1>1, <1>2, <1>3, <1>4 DEF WinHandlers, Uninstalled
<1>7. \A s \in owed' : AnyCaught(s)' /\ OnItsWay(s)'
  BY <1>1, <1>2, <1>3 DEF OnItsWay, InQueue, Types
<1> QED
  BY <1>1, <1>2, <1>5, <1>6, <1>7 DEF AloneInv, Bsd

LEMMA InstallKeeps ==
  ASSUME NoObject \notin Objects, IInv, alone',
         NEW i \in Objects, NEW s \in Sigs, WinAddInstall(i, s)
  PROVE  AloneInv'
<1>1. /\ Types /\ Single /\ ~Bsd /\ WinHandlers
      /\ \A t \in owed : AnyCaught(t) /\ OnItsWay(t)
  BY DEF IInv, SafeInv, AloneInv, WinAddInstall, historyVars
<1>2. /\ i \in alive /\ call.op = "none" /\ call' = [op |-> "add_insert", object |-> i, sigs |-> {s}]
      /\ console' = IF registered_signals[i] = {} THEN console + 1 ELSE console
      /\ UNCHANGED <<platform, alive, global_instance, registered_signals, queue, handling, caught, owed>>
  BY DEF WinAddInstall, May, NoCall, Begin, objectVars, historyVars
<1>3. \A t \in Sigs : AnyCaught(t)' <=> AnyCaught(t)
  BY <1>2 DEF AnyCaught
<1>4. (\E t \in Sigs : AnyCaught(t)) <=> registered_signals[i] # {}
  <2>1. \A j \in Objects : j # i => caught[j] = {}
    BY <1>1, <1>2 DEF Single
  <2>2. caught[i] = registered_signals[i]
    BY <1>1, <1>2 DEF WinHandlers
  <2> QED
    BY Zenon, <1>1, <2>1, <2>2 DEF AnyCaught, Types
<1>5. Single'
  BY <1>1, <1>2 DEF Single
<1>6. WinHandlers'
  BY SMTT(20), <1>1, <1>2, <1>3, <1>4 DEF WinHandlers
<1>7. \A t \in owed' : AnyCaught(t)' /\ OnItsWay(t)'
  BY <1>1, <1>2, <1>3 DEF OnItsWay, InQueue, Types
<1> QED
  BY <1>1, <1>2, <1>5, <1>6, <1>7 DEF AloneInv, Bsd

LEMMA AddInsertKeeps ==
  ASSUME NoObject \notin Objects, IInv, alone',
         NEW i \in Objects, NEW s \in Sigs, BsdAddInsert(i, s)
  PROVE  AloneInv'
<1>1. /\ Types /\ Single /\ Bsd /\ BsdHandlers
      /\ \A t \in owed : AnyCaught(t) /\ OnItsWay(t)
  BY DEF IInv, SafeInv, AloneInv, BsdAddInsert, historyVars
<1>2. /\ i \in alive /\ call.op = "none" /\ call' = [op |-> "add", object |-> i, sigs |-> {s}]
      /\ UNCHANGED <<platform, alive, global_instance, queue, handling, handled, caught, owed>>
  BY DEF BsdAddInsert, May, NoCall, Begin, systemVars, historyVars
<1>3. \A j \in Objects : registered_signals'[j] =
        IF j = i THEN registered_signals[j] \cup {s} ELSE registered_signals[j]
  BY Zenon, <1>1 DEF BsdAddInsert, Inserted, Types
<1>4. \A t \in Sigs : AnyCaught(t)' <=> AnyCaught(t)
  BY <1>2 DEF AnyCaught
<1>5. Single'
  BY <1>1, <1>2, <1>3 DEF Single
<1>6. BsdHandlers'
  BY Zenon, <1>1, <1>2, <1>3, <1>4 DEF BsdHandlers, Types
<1>7. \A t \in owed' : AnyCaught(t)' /\ OnItsWay(t)'
  BY <1>1, <1>2, <1>4 DEF OnItsWay, InQueue, Types
<1> QED
  BY <1>1, <1>2, <1>5, <1>6, <1>7 DEF AloneInv, Bsd

LEMMA WriteKeeps ==
  ASSUME NoObject \notin Objects, IInv, alone', NEW s \in Sigs, HandlerWrites(s)
  PROVE  AloneInv'
<1> DEFINE g == global_instance
           full == Len(queue[g]) >= PipeCap
<1>1. /\ Types /\ PointerInv /\ Single /\ (Bsd => BsdHandlers) /\ (~Bsd => WinHandlers)
      /\ \A t \in owed : AnyCaught(t) /\ OnItsWay(t)
  BY DEF IInv, SafeInv, AloneInv, HandlerWrites
<1>2. /\ handling[s] = "checked" /\ handling' = [handling EXCEPT ![s] = "none"]
      /\ queue' = IF full THEN queue ELSE [queue EXCEPT ![g] = Append(@, s)]
      /\ owed' = IF full THEN owed \ {s} ELSE owed
      /\ UNCHANGED <<platform, alive, global_instance, registered_signals, call, handled, console, caught>>
  BY DEF HandlerWrites
<1>3. g \in alive /\ g \in Objects /\ queue[g] \in Seq(Sigs)
  BY <1>1, <1>2 DEF PointerInv, Types
<1>4. Single' /\ (Bsd' => BsdHandlers') /\ (~Bsd' => WinHandlers')
  BY Zenon, <1>1, <1>2 DEF Single, Bsd, BsdHandlers, WinHandlers, AnyCaught
<1>5. ASSUME NEW t \in Sigs, NEW i \in alive, InQueue(i, t) PROVE InQueue(i, t)'
  <2>1. PICK k \in 1..Len(queue[i]) : queue[i][k] = t
    BY <1>5 DEF InQueue
  <2>2. queue[i] \in Seq(Sigs) /\ i \in Objects
    BY <1>1 DEF Types
  <2>3. queue'[i] = queue[i] \/ queue'[i] = Append(queue[i], s)
    BY <1>1, <1>2, <1>3 DEF Types
  <2>4. k \in 1..Len(queue'[i]) /\ queue'[i][k] = t
    BY <2>1, <2>2, <2>3
  <2> QED
    BY <2>4 DEF InQueue
<1>6. ~full => InQueue(g, s)'
  <2>1. SUFFICES ASSUME ~full PROVE InQueue(g, s)'
    OBVIOUS
  <2>2. queue'[g] = Append(queue[g], s) /\ global_instance' = g
    BY <1>1, <1>2, <1>3, <2>1 DEF Types
  <2>3. /\ Len(queue[g]) + 1 \in 1..Len(Append(queue[g], s))
        /\ Append(queue[g], s)[Len(queue[g]) + 1] = s
    BY <1>3
  <2> QED
    BY <2>2, <2>3 DEF InQueue
<1>7. ASSUME NEW t \in owed' PROVE AnyCaught(t)' /\ OnItsWay(t)'
  <2>1. t \in owed /\ t \in Sigs /\ AnyCaught(t)' /\ OnItsWay(t)
    BY <1>1, <1>2, <1>7 DEF AnyCaught, Types
  <2>2. CASE t = s
    <3>1. ~full
      BY <1>2, <1>7, <2>2
    <3>2. g \in alive' /\ g' = g
      BY <1>2, <1>3
    <3>3. \E i \in alive' : InQueue(i, t)'
      BY <1>6, <2>2, <3>1, <3>2
    <3> QED
      BY <2>1, <3>3 DEF OnItsWay
  <2>3. CASE t # s
    <3>1. handling'[t] = handling[t]
      BY <1>1, <1>2, <2>1, <2>3 DEF Types
    <3>2. (\E i \in alive : InQueue(i, t)) => \E i \in alive' : InQueue(i, t)'
      BY <1>2, <1>5, <2>1
    <3> QED
      BY <1>2, <2>1, <3>1, <3>2 DEF OnItsWay
  <2> QED
    BY <2>2, <2>3, <2>1
<1> QED
  BY <1>4, <1>7 DEF AloneInv

LEMMA ChecksKeeps ==
  ASSUME NoObject \notin Objects, IInv, alone', NEW s \in Sigs, WinHandlerChecks(s)
  PROVE  AloneInv'
<1>1. /\ Types /\ PointerInv /\ Single /\ ~Bsd /\ WinHandlers
      /\ \A t \in owed : AnyCaught(t) /\ OnItsWay(t)
  BY DEF IInv, SafeInv, AloneInv, WinHandlerChecks, historyVars
<1>2. /\ handling' = [handling EXCEPT ![s] =
           IF global_instance # NoObject /\ s \in registered_signals[global_instance]
           THEN "checked" ELSE "none"]
      /\ UNCHANGED <<platform, alive, global_instance, registered_signals, queue, call, console,
                     caught, owed>>
  BY Zenon DEF WinHandlerChecks, objectVars, historyVars
<1>3. Single' /\ WinHandlers'
  BY Zenon, <1>1, <1>2 DEF Single, WinHandlers, AnyCaught
<1>4. AnyCaught(s) => global_instance # NoObject /\ s \in registered_signals[global_instance]
  <2>1. SUFFICES ASSUME NEW i \in Objects, s \in caught[i]
                 PROVE  global_instance # NoObject /\ s \in registered_signals[global_instance]
    BY DEF AnyCaught
  <2>2. i \in alive /\ call.op \notin {"new", "drop", "drop_close"}
    BY <1>1, <2>1 DEF Single
  <2>3. global_instance = i /\ caught[i] = registered_signals[i]
    BY <1>1, <2>2 DEF Single, WinHandlers
  <2> QED
    BY <2>1, <2>3
<1>5. ASSUME NEW t \in owed PROVE AnyCaught(t)' /\ OnItsWay(t)'
  <2>1. AnyCaught(t) /\ AnyCaught(t)' /\ OnItsWay(t) /\ t \in Sigs
    BY <1>1, <1>2 DEF AnyCaught, Types
  <2>2. handling[t] # "none" => handling'[t] # "none"
    BY <1>1, <1>2, <1>4, <2>1 DEF Types
  <2> QED
    BY <1>2, <2>1, <2>2 DEF OnItsWay, InQueue
<1> QED
  BY <1>1, <1>2, <1>3, <1>5 DEF AloneInv, Bsd

LEMMA NewGlobalKeeps ==
  ASSUME NoObject \notin Objects, IInv, NewGlobal, alone'
  PROVE  AloneInv'
<1>1. /\ Types /\ CallObject /\ Single /\ (Bsd => BsdHandlers) /\ (~Bsd => WinHandlers)
      /\ \A s \in owed : AnyCaught(s)
  BY DEF IInv, SafeInv, AloneInv, NewGlobal, historyVars
<1>2. /\ call.op = "new" /\ call.object \in alive /\ call'.op = "none" /\ global_instance' = call.object
      /\ UNCHANGED <<platform, alive, registered_signals, handled, console, caught, owed>>
  BY <1>1 DEF NewGlobal, In, Return, NoCall, systemVars, historyVars, CallObject
<1>3. \A i \in Objects : registered_signals[i] = {} /\ caught[i] = {}
  BY Zenon, <1>1, <1>2 DEF Single
<1>4. \A s \in Sigs : ~AnyCaught(s) /\ ~AnyCaught(s)'
  BY <1>2, <1>3 DEF AnyCaught
<1>5. owed' = {}
  BY <1>1, <1>2, <1>4 DEF Types
<1>6. Single'
  BY <1>1, <1>2, <1>3 DEF Single
<1>7. Bsd' => BsdHandlers'
  BY Zenon, <1>1, <1>2, <1>3, <1>4 DEF Bsd, BsdHandlers, Types
<1>8. ~Bsd' => WinHandlers'
  BY <1>1, <1>2, <1>3, <1>4 DEF Bsd, WinHandlers
<1> QED
  BY <1>5, <1>6, <1>7, <1>8 DEF AloneInv

LEMMA DropGlobalKeeps ==
  ASSUME IInv, BsdDropGlobal, alone'
  PROVE  AloneInv'
<1>1. /\ Types /\ Single /\ Bsd /\ BsdHandlers /\ \A s \in owed : AnyCaught(s)
  BY DEF IInv, SafeInv, AloneInv, BsdDropGlobal, historyVars
<1>2. /\ call.op = "drop" /\ call'.op = "drop_close"
      /\ UNCHANGED <<platform, alive, registered_signals, handled, caught, owed>>
  BY DEF BsdDropGlobal, In, Begin, systemVars, historyVars
<1>3. \A s \in Sigs : ~AnyCaught(s) /\ ~AnyCaught(s)'
  BY <1>1, <1>2 DEF Single, AnyCaught
<1>4. owed' = {}
  BY <1>1, <1>2, <1>3 DEF Types
<1>5. Single'
  BY <1>1, <1>2 DEF Single
<1>6. BsdHandlers'
  BY Zenon, <1>1, <1>2, <1>3 DEF BsdHandlers, Types
<1> QED
  BY <1>1, <1>2, <1>4, <1>5, <1>6 DEF AloneInv, Bsd

LEMMA DefaultKeeps ==
  ASSUME IInv, BsdRemoveDefault, alone'
  PROVE  AloneInv'
<1>1. /\ Types /\ Single /\ Bsd /\ BsdHandlers /\ \A s \in owed : AnyCaught(s) /\ OnItsWay(s)
  BY DEF IInv, SafeInv, AloneInv, BsdRemoveDefault, historyVars
<1>2. /\ call.op = "remove" /\ call'.op = "none" /\ handled' = handled \ call.sigs
      /\ UNCHANGED <<platform, alive, global_instance, registered_signals, queue, handling, caught, owed>>
  BY DEF BsdRemoveDefault, In, Return, NoCall, objectVars, historyVars
<1>3. \A s : AnyCaught(s)' <=> AnyCaught(s)
  BY <1>2 DEF AnyCaught
<1>4. Single'
  BY <1>1, <1>2 DEF Single
<1>5. BsdHandlers'
  BY Zenon, <1>1, <1>2, <1>3 DEF BsdHandlers, Types
<1>6. \A s \in owed' : AnyCaught(s)' /\ OnItsWay(s)'
  BY <1>1, <1>2, <1>3 DEF OnItsWay, InQueue
<1> QED
  BY <1>1, <1>2, <1>4, <1>5, <1>6 DEF AloneInv, Bsd

LEMMA PendingCallKeeps ==
  ASSUME IInv, PendingReturn \/ \E i \in Objects : PendingBegin(i), alone'
  PROVE  AloneInv'
<1>1. /\ Types /\ CallObject /\ Single /\ (Bsd => BsdHandlers) /\ (~Bsd => WinHandlers)
      /\ \A s \in owed : AnyCaught(s) /\ OnItsWay(s)
  BY Zenon DEF IInv, SafeInv, AloneInv, PendingReturn, PendingBegin, historyVars
<1>2. /\ call.op \in {"none", "pending"} /\ call'.op \in {"none", "pending"} /\ owed' \subseteq owed
      /\ UNCHANGED <<platform, alive, global_instance, registered_signals, queue,
                     handling, handled, console, caught>>
  <2>1. CASE PendingReturn
    BY <2>1 DEF PendingReturn, In, Return, NoCall, objectVars, systemVars
  <2>2. ASSUME NEW i \in Objects, PendingBegin(i)
        PROVE  /\ call.op = "none" /\ call'.op = "pending" /\ owed' = owed
               /\ UNCHANGED <<platform, alive, global_instance, registered_signals, queue,
                              handling, handled, console, caught>>
    BY <2>2 DEF PendingBegin, May, Begin, NoCall, objectVars, systemVars, historyVars
  <2> QED
    BY <2>1, <2>2
<1>3. \A s : AnyCaught(s)' <=> AnyCaught(s)
  BY <1>2 DEF AnyCaught
<1>4. Single'
  BY Zenon, <1>1, <1>2 DEF Single
<1>5. Bsd' => BsdHandlers'
  BY Zenon, <1>1, <1>2, <1>3 DEF Bsd, BsdHandlers
<1>6. ~Bsd' => WinHandlers'
  BY <1>1, <1>2, <1>3 DEF Bsd, WinHandlers
<1>7. ASSUME NEW s \in owed' PROVE OnItsWay(s)'
  <2>1. s \in owed /\ OnItsWay(s)
    BY <1>1, <1>2
  <2>2. CASE PendingReturn /\ s \in call.sigs
    <3>1. Again(s) /\ call.object \in alive
      BY Zenon, <1>1, <2>1, <2>2 DEF PendingReturn, In, CallObject
    <3> QED
      BY <1>2, <3>1 DEF Again, OnItsWay, InQueue
  <2>3. CASE ~(PendingReturn /\ s \in call.sigs)
    <3>1. ~(call.op = "pending" /\ s \in call.sigs)
      BY <2>3 DEF PendingBegin, May, NoCall
    <3> QED
      BY <1>2, <2>1, <3>1 DEF OnItsWay, InQueue
  <2> QED
    BY <2>2, <2>3
<1> QED
  BY <1>1, <1>2, <1>3, <1>4, <1>5, <1>6, <1>7 DEF AloneInv

LEMMA NewPipeKeeps ==
  ASSUME IInv, NEW i \in Objects, NewPipe(i), alone'
  PROVE  AloneInv'
<1>1. alive = {} /\ alone /\ UNCHANGED <<alone, caught, owed>>
  BY Zenon DEF NewPipe, historyVars
<1>2. /\ Types /\ Single /\ (Bsd => BsdHandlers) /\ (~Bsd => WinHandlers)
      /\ \A s \in owed : AnyCaught(s)
  BY <1>1 DEF IInv, SafeInv, AloneInv
<1>3. /\ call.op = "none" /\ call'.op = "new" /\ alive' = {i}
      /\ UNCHANGED <<platform, registered_signals, handled, console>>
  BY <1>1 DEF NewPipe, Begin, NoCall, systemVars
<1>4. \A j \in Objects : registered_signals[j] = {} /\ caught[j] = {}
  BY <1>1, <1>2 DEF Single
<1>5. \A s \in Sigs : ~AnyCaught(s) /\ ~AnyCaught(s)'
  BY <1>1, <1>4 DEF AnyCaught
<1>6. owed' = {}
  BY <1>1, <1>2, <1>5 DEF Types
<1>7. Single'
  BY <1>1, <1>3, <1>4 DEF Single
<1>8. Bsd' => BsdHandlers'
  BY Zenon, <1>1, <1>2, <1>3, <1>4, <1>5 DEF Bsd, BsdHandlers, Types
<1>9. ~Bsd' => WinHandlers'
  BY Zenon, <1>1, <1>2, <1>3, <1>4, <1>5 DEF Bsd, WinHandlers
<1> QED
  BY <1>6, <1>7, <1>8, <1>9 DEF AloneInv

LEMMA DropBeginsKeeps ==
  ASSUME NoObject \notin Objects, IInv, NEW i \in Objects, BsdDropReset(i) \/ WinDropGlobal(i), alone'
  PROVE  AloneInv'
<1>1. /\ Types /\ Single /\ (Bsd => BsdHandlers) /\ (~Bsd => WinHandlers)
  BY Zenon DEF IInv, SafeInv, AloneInv, BsdDropReset, WinDropGlobal, GivesUp
<1>2. /\ call.op = "none" /\ call'.op \in {"drop", "drop_close"} /\ i \in alive
      /\ caught' = [caught EXCEPT ![i] = @ \ Sigs] /\ owed' = owed \ Sigs
      /\ UNCHANGED <<platform, alive, registered_signals>>
  <2>1. CASE BsdDropReset(i)
    BY Zenon, <2>1 DEF BsdDropReset, May, NoCall, Begin, GivesUp, objectVars
  <2>2. CASE WinDropGlobal(i)
    BY Zenon, <2>2 DEF WinDropGlobal, May, NoCall, Begin, GivesUp
  <2> QED
    BY <2>1, <2>2
<1>3. global_instance = i /\ \A j \in Objects : j # i => j \notin alive
  BY Zenon, <1>1, <1>2 DEF Single
<1>4. (\A j \in Objects : caught'[j] = {}) /\ \A j \in Objects : j # i => caught[j] = {}
  BY <1>1, <1>2, <1>3 DEF Single, Types
<1>5. \A s \in Sigs : ~AnyCaught(s)'
  BY Zenon, <1>4 DEF AnyCaught
<1>6. owed' = {}
  BY <1>1, <1>2 DEF Types
<1>7. Single'
  <2>1. call'.op = "drop" => global_instance' = i
    <3>1. CASE BsdDropReset(i)
      BY <1>3, <3>1 DEF BsdDropReset, objectVars
    <3>2. CASE WinDropGlobal(i)
      BY Zenon, <3>2 DEF WinDropGlobal, Begin
    <3> QED
      BY <3>1, <3>2
  <2> QED
    BY Zenon, <1>1, <1>2, <1>3, <1>4, <2>1 DEF Single
<1>8. Bsd' => BsdHandlers'
  <2>1. ASSUME Bsd PROVE handled' = {}
    <3>1. \A s \in handled : s \in caught[i]
      BY <1>1, <1>2, <1>4, <2>1 DEF BsdHandlers, AnyCaught
    <3>2. handled \subseteq registered_signals[i]
      BY <1>1, <2>1, <3>1 DEF BsdHandlers
    <3>3. handled' = handled \ registered_signals[i]
      BY <1>3, <2>1 DEF BsdDropReset, WinDropGlobal
    <3> QED
      BY <3>2, <3>3
  <2> QED
    BY <1>2, <1>4, <1>5, <2>1 DEF Bsd, BsdHandlers
<1>9. ~Bsd' => WinHandlers'
  <2>1. ASSUME ~Bsd PROVE console' = 0 /\ call'.op = "drop_close"
    <3>1. WinDropGlobal(i) /\ console \in {0, 1}
      BY Zenon, <1>1, <2>1 DEF WinHandlers, BsdDropReset
    <3>2. console' = Uninstalled(console)
      BY <1>3, <3>1 DEF WinDropGlobal
    <3>3. call'.op = "drop_close"
      BY Zenon, <3>1 DEF WinDropGlobal, Begin
    <3> QED
      BY <3>1, <3>2, <3>3 DEF Uninstalled
  <2> QED
    BY <1>2, <1>5, <2>1 DEF Bsd, WinHandlers
<1> QED
  BY <1>6, <1>7, <1>8, <1>9 DEF AloneInv

\* A caught signal has its handler and its object.
LEMMA CaughtHandled ==
  ASSUME NoObject \notin Objects, IInv, alone, NEW s \in Sigs, AnyCaught(s)
  PROVE  (IF Bsd THEN s \in handled ELSE console > 0) /\ global_instance # NoObject
<1>1. Types /\ Single /\ (Bsd => BsdHandlers) /\ (~Bsd => WinHandlers)
  BY DEF IInv, SafeInv, AloneInv
<1>2. PICK i \in Objects : s \in caught[i]
  BY DEF AnyCaught
<1>3. i \in alive /\ call.op \notin {"new", "drop", "drop_close"}
  BY <1>1, <1>2 DEF Single
<1>4. global_instance = i
  BY <1>1, <1>3 DEF Single
<1>5. Bsd => s \in handled
  BY <1>1 DEF BsdHandlers
<1>6. ~Bsd => console = 1
  BY <1>1 DEF WinHandlers
<1> QED
  BY <1>4, <1>5, <1>6

LEMMA RaiseKeeps ==
  ASSUME NoObject \notin Objects, IInv, NEW s \in Sigs, Raise(s) \/ BsdHandlerChecks(s), alone'
  PROVE  AloneInv'
<1>1. /\ UNCHANGED <<platform, alive, global_instance, registered_signals, queue, call,
                     handled, console, caught>>
      /\ alone
  BY Zenon DEF Raise, BsdHandlerChecks, objectVars, historyVars
<1>2. /\ Types /\ Single /\ (Bsd => BsdHandlers) /\ (~Bsd => WinHandlers)
      /\ \A t \in owed : AnyCaught(t) /\ OnItsWay(t)
  BY <1>1 DEF IInv, SafeInv, AloneInv
<1>3. \A t : AnyCaught(t)' <=> AnyCaught(t)
  BY <1>1 DEF AnyCaught
<1>4. Single' /\ (Bsd' => BsdHandlers') /\ (~Bsd' => WinHandlers')
  <2>1. Single'
    BY Zenon, <1>1, <1>2 DEF Single
  <2>2. Bsd' => BsdHandlers'
    BY Zenon, <1>1, <1>2, <1>3 DEF Bsd, BsdHandlers
  <2>3. ~Bsd' => WinHandlers'
    BY Zenon, <1>1, <1>2, <1>3 DEF Bsd, WinHandlers
  <2> QED
    BY <2>1, <2>2, <2>3
<1>5. /\ \A t \in owed' : AnyCaught(t)
      /\ owed' \subseteq owed \cup {s}
  BY <1>1, <1>2 DEF Raise, BsdHandlerChecks, AnyCaught, historyVars
<1>6. \A t \in Sigs : t # s => handling'[t] = handling[t]
  BY Zenon, <1>2 DEF Raise, BsdHandlerChecks, Types
<1>7. s \in owed' => handling'[s] # "none"
  <2>1. SUFFICES ASSUME s \in owed' PROVE handling'[s] # "none"
    OBVIOUS
  <2>2. (IF Bsd THEN s \in handled ELSE console > 0) /\ global_instance # NoObject
    BY <1>1, <1>5, <2>1, CaughtHandled
  <2>3. handling' = [handling EXCEPT ![s] = "begun"] \/ handling' = [handling EXCEPT ![s] = "checked"]
    BY Zenon, <2>2 DEF Raise, BsdHandlerChecks
  <2> QED
    BY <1>2, <2>3 DEF Types
<1>8. ASSUME NEW t \in owed' PROVE OnItsWay(t)'
  <2>1. CASE t = s
    BY <1>7, <2>1 DEF OnItsWay
  <2>2. CASE t # s
    <3>1. t \in owed /\ t \in Sigs /\ OnItsWay(t)
      BY <1>2, <1>5, <2>2 DEF Types
    <3> QED
      BY <1>1, <1>6, <2>2, <3>1 DEF OnItsWay, InQueue
  <2> QED
    BY <2>1, <2>2
<1> QED
  BY <1>3, <1>4, <1>5, <1>8 DEF AloneInv

------------------------------------------------------------------------------
LEMMA AloneStep ==
  ASSUME NoObject \notin Objects, IInv, [Next]_vars
  PROVE  AloneInv'
<1>1. CASE UNCHANGED vars
  <2>1. UNCHANGED <<platform, alive, global_instance, registered_signals, queue, call,
                    handling, handled, console, alone, caught, owed>>
    BY <1>1 DEF vars, objectVars, systemVars, historyVars
  <2>2. Single' <=> Single
    BY <2>1 DEF Single
  <2>3. (\A s : AnyCaught(s)' <=> AnyCaught(s)) /\ (Bsd' <=> Bsd)
    BY <2>1 DEF AnyCaught, Bsd
  <2>4. BsdHandlers => BsdHandlers'
    BY Zenon, <2>1, <2>3 DEF BsdHandlers
  <2>5. WinHandlers => WinHandlers'
    BY <2>1, <2>3 DEF WinHandlers
  <2>6. \A s : OnItsWay(s)' <=> OnItsWay(s)
    BY <2>1 DEF OnItsWay, InQueue
  <2> QED
    BY <2>1, <2>2, <2>3, <2>4, <2>5, <2>6 DEF IInv, AloneInv
<1>2. CASE ~alone'
  BY <1>2 DEF AloneInv
<1>3. CASE alone' /\ ~UNCHANGED vars
  <2>1. CASE NewGlobal \/ BsdDropGlobal \/ DropClose \/ BsdAddSigaction \/ WinAddInsert
             \/ BsdRemoveDefault \/ WinRemoveUninstall \/ PendingRead
    BY <1>3, <2>1, NewGlobalKeeps, DropGlobalKeeps, DropCloseKeeps, SigactionKeeps, InsertKeeps,
       DefaultKeeps, UninstallKeeps, ReadKeeps
  <2>2. CASE PendingReturn \/ \E i \in Objects : PendingBegin(i)
    BY <1>3, <2>2, PendingCallKeeps
  <2>3. CASE \E i \in Objects : NewPipe(i) \/ BsdDropReset(i) \/ WinDropGlobal(i)
    BY <1>3, <2>3, NewPipeKeeps, DropBeginsKeeps
  <2>4. CASE \E i \in Objects, s \in Sigs : BsdAddInsert(i, s) \/ WinAddInstall(i, s) \/ RemoveErase(i, s)
    BY <1>3, <2>4, AddInsertKeeps, InstallKeeps, EraseKeeps
  <2>5. CASE \E s \in Sigs : Raise(s) \/ BsdHandlerChecks(s) \/ WinHandlerChecks(s) \/ HandlerWrites(s)
    BY <1>3, <2>5, RaiseKeeps, ChecksKeeps, WriteKeeps
  <2> QED
    BY <1>3, <2>1, <2>2, <2>3, <2>4, <2>5, NextCases
<1> QED
  BY <1>1, <1>2, <1>3

------------------------------------------------------------------------------
\* IInv is inductive: handlers, objects and what each call has done so far.  A program
\* without Signals objects is one that has not begun.
LEMMA Begins ==
  ASSUME NoObject \notin Objects, NEW running, InitAs(running)
  PROVE  IInv
<1>1. SafeInv /\ InsertInv
  BY SMTT(20) DEF InitAs, SafeInv, InsertInv, Types, CallObject, PointerInv, Ops, NoCall
<1>2. AloneInv
  BY DEF InitAs, NoCall, AloneInv, Single, Bsd, BsdHandlers, WinHandlers, AnyCaught
<1> QED
  BY <1>1, <1>2 DEF IInv

LEMMA Continues ==
  ASSUME NoObject \notin Objects, IInv, [Next]_vars
  PROVE  IInv'
  BY SafeStep, InsertStep, AloneStep DEF IInv

LEMMA Inductive ==
  ASSUME NoObject \notin Objects
  PROVE  Spec => []IInv
<1>1. Init => IInv
  BY Begins DEF Init
<1>2. IInv /\ [Next]_vars => IInv'
  BY Continues
<1> QED
  BY <1>1, <1>2, PTL DEF Spec

LEMMA Safe == IInv => HandlerSafe
  BY Zenon DEF IInv, SafeInv, Types, PointerInv, HandlerSafe

LEMMA Kept == IInv => CaughtNotLost
  BY Zenon DEF IInv, AloneInv, CaughtNotLost, OnItsWay

LEMMA Restored == IInv => HandlersRestored
<1>1. SUFFICES ASSUME IInv, alone, call = NoCall PROVE HandlersRestored
  BY DEF HandlersRestored
<1> DEFINE all == UNION {caught[i] : i \in Objects}
<1>2. \A s : s \in all <=> AnyCaught(s)
  BY DEF AnyCaught
<1>3. Types /\ call.op = "none" /\ (Bsd => BsdHandlers) /\ (~Bsd => WinHandlers)
  BY <1>1 DEF IInv, SafeInv, AloneInv, NoCall
<1>4. all \subseteq Sigs
  BY <1>3 DEF Types
<1> HIDE DEF all
<1>5. Bsd => handled = all
  BY Zenon, <1>2, <1>3, <1>4 DEF BsdHandlers, Types
<1>6. ~Bsd => console = IF all = {} THEN 0 ELSE 1
  BY <1>2, <1>3, <1>4 DEF WinHandlers
<1> QED
  BY Zenon, <1>5, <1>6 DEF HandlersRestored, all

\* Handlers look through a pointer that is null or points to an object, and write
\* through one that points to an object: HandlerSafe of a run, for any number of
\* signals and objects.
THEOREM HandlersSafe ==
  ASSUME NoObject \notin Objects
  PROVE  Spec => []HandlerSafe
  BY Safe, Inductive, PTL

\* With one object at a time, a signal raised between add and remove stays on its way
\* to pending() on both platforms, whatever the size of the pipe: only a full pipe
\* drops it.
THEOREM SignalsKept ==
  ASSUME NoObject \notin Objects
  PROVE  Spec => []CaughtNotLost
  BY Kept, Inductive, PTL

\* With one object at a time, between two calls exactly the signals that are caught
\* have a handler on BSD, and the console handler is there once if there are any on
\* Windows: remove and the destructor undo what add did.
THEOREM DispositionsRestored ==
  ASSUME NoObject \notin Objects
  PROVE  Spec => []HandlersRestored
  BY Restored, Inductive, PTL

------------------------------------------------------------------------------
\* Types

\* What TypeOK says beyond Types: a handler that finds the pipe full writes nothing.
Sized ==
  /\ platform \in {"bsd", "windows"}
  /\ process \in {"absent", "runs", "killed"}
  /\ \A i \in Objects : Len(queue[i]) <= PipeCap

LEMMA SizedBegins ==
  ASSUME PipeCap \in Nat, NEW running \in {"absent", "runs"}, InitAs(running)
  PROVE  Sized
  BY DEF InitAs, Sized

LEMMA SizedContinues ==
  ASSUME PipeCap \in Nat, IInv, Sized, [Next]_vars
  PROVE  Sized'
<1> USE DEF objectVars
<1>0. queue \in [Objects -> Seq(Sigs)]
  BY DEF IInv, SafeInv, Types
<1>1. platform' = platform /\ process' \in {process, "killed"}
  BY Zenon, NextCases DEF vars, NewGlobal, BsdDropGlobal, DropClose, BsdAddSigaction, WinAddInsert,
     BsdRemoveDefault, WinRemoveUninstall, PendingRead, PendingReturn, NewPipe, BsdDropReset,
     WinDropGlobal, PendingBegin, BsdAddInsert, WinAddInstall, RemoveErase, Raise,
     BsdHandlerChecks, WinHandlerChecks, HandlerWrites
<1>2. CASE UNCHANGED queue
  BY <1>1, <1>2 DEF Sized
<1>3. CASE DropClose
  <2>1. \A i \in Objects : queue'[i] = queue[i] \/ queue'[i] = <<>>
    BY <1>0, <1>3 DEF DropClose
  <2>2. QED
    BY <1>1, <2>1 DEF Sized
<1>4. CASE PendingRead
  <2>1. \A i \in Objects : queue'[i] = queue[i] \/ (queue[i] # <<>> /\ queue'[i] = Tail(queue[i]))
    BY <1>0, <1>4 DEF PendingRead
  <2>2. \A i \in Objects : Len(queue'[i]) <= Len(queue[i])
    BY <1>0, <2>1
  <2>3. \A i \in Objects : Len(queue'[i]) \in Nat /\ Len(queue[i]) \in Nat
    BY <1>0, <2>1
  <2>4. QED
    BY <1>1, <2>2, <2>3 DEF Sized
<1>5. ASSUME NEW s \in Sigs, HandlerWrites(s) PROVE Sized'
  <2>1. \A i \in Objects : \/ queue'[i] = queue[i]
                           \/ Len(queue[i]) < PipeCap /\ queue'[i] = Append(queue[i], s)
    <3>1. CASE Len(queue[global_instance]) >= PipeCap
      BY <1>5, <3>1 DEF HandlerWrites
    <3>2. CASE ~(Len(queue[global_instance]) >= PipeCap)
      <4>1. queue' = [queue EXCEPT ![global_instance] = Append(queue[global_instance], s)]
        BY Zenon, <1>5, <3>2 DEF HandlerWrites
      <4>2. ASSUME global_instance \in Objects PROVE Len(queue[global_instance]) < PipeCap
        BY <1>0, <3>2, <4>2
      <4>3. QED
        BY <1>0, <4>1, <4>2
    <3>3. QED
      BY <3>1, <3>2
  <2>2. ASSUME NEW i \in Objects PROVE Len(queue'[i]) <= PipeCap
    <3>1. CASE queue'[i] = queue[i]
      BY <3>1 DEF Sized
    <3>2. CASE Len(queue[i]) < PipeCap /\ queue'[i] = Append(queue[i], s)
      BY <1>0, <3>2
    <3>3. QED
      BY <2>1, <3>1, <3>2
  <2>3. QED
    BY <1>1, <2>2 DEF Sized
<1>6. QED
  BY Zenon, NextCases, <1>2, <1>3, <1>4, <1>5 DEF vars, NewGlobal, BsdDropGlobal, BsdAddSigaction,
     WinAddInsert, BsdRemoveDefault, WinRemoveUninstall, PendingReturn, NewPipe, BsdDropReset,
     WinDropGlobal, PendingBegin, BsdAddInsert, WinAddInstall, RemoveErase, Raise,
     BsdHandlerChecks, WinHandlerChecks

LEMMA Typed == IInv /\ Sized => TypeOK
  BY DEF IInv, SafeInv, Types, Sized, TypeOK

\* TypeOK with a pipe of any size: it never holds more than fits.
THEOREM TypeCorrect ==
  ASSUME NoObject \notin Objects, PipeCap \in Nat
  PROVE  Spec => []TypeOK
<1>1. Init => Sized
  BY SizedBegins DEF Init
<1>2. IInv /\ Sized /\ [Next]_vars => Sized'
  BY SizedContinues
<1> QED
  BY <1>1, <1>2, Typed, Inductive, PTL DEF Spec

=============================================================================
