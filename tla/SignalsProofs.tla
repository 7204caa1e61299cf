---------------------------- MODULE SignalsProofs ----------------------------
(***************************************************************************)
(* Proofs about Signals for any sets of signals, objects and threads: in a *)
(* careful program caught signals are not lost, and the mask of the main   *)
(* thread is what its objects catch.  At the end the three platforms of    *)
(* MCSignals together.                                                     *)
(***************************************************************************)
EXTENDS MCSignals, TLAPS

\* The call main is in.
Doing(name, i) == call[main].op = name /\ call[main].object = i

\* Only main calls, and only pending has something to return.
MainOnly ==
  /\ main \in started
  /\ \A t \in Threads : t # main => call[t] = NoCall
  /\ call[main].op \in {"add", "remove", "drop"} => call[main].got = {}

\* How far the call on i has got with the object, its signalfd and what is promised.
ObjectInv(i) ==
  /\ watch[i] = NoFd => caught[i] = {} /\ (Doing("drop", i) \/ mask[i] = {})
  /\ watch[i] # NoFd => Doing("add", i) \/ Doing("remove", i) \/ (mask[i] = watch[i] /\ caught[i] = watch[i])
  /\ Doing("add", i) => watch[i] # NoFd /\ caught[i] = mask[i] /\ mask[i] = watch[i] \cup call[main].sig
  /\ Doing("remove", i) => /\ watch[i] # NoFd /\ mask[i] = watch[i]
                           /\ caught[i] = watch[i] \ call[main].sig
                           /\ call[main].sig \subseteq watch[i]
  /\ Doing("drop", i) => watch[i] = NoFd
  /\ Doing("pending", i) => watch[i] # NoFd /\ call[main].got \subseteq watch[i]

\* The signals that main means to block.
Wanted(s) == (\E i \in Objects : s \in mask[i]) /\ ~(call[main].op = "remove" /\ s \in call[main].sig)

\* main blocks these, the other threads at least these, and what is pending is blocked.
MaskInv ==
  /\ \A i, j \in Objects : i # j => mask[i] \cap mask[j] = {}
  /\ \A s \in Sigs : s \in blocked[main] <=> Wanted(s)
  /\ \A t \in started : blocked[main] \subseteq blocked[t]
  /\ Pending(main) \subseteq blocked[main]

OwedInv ==
  \A s \in owed :
    \/ /\ s \in Pending(main)
       /\ \E i \in Objects : s \in caught[i] /\ (s \in watch[i] \/ Adding(i))
    \/ call[main] # NoCall /\ s \in call[main].got

CarefulInv == MainOnly /\ (\A i \in Objects : ObjectInv(i)) /\ MaskInv /\ OwedInv

IInv == TypeOK /\ (Careful => CarefulInv)

------------------------------------------------------------------------------
\* The steps of Next, one by one.
LEMMA NextCases ==
  ASSUME [Next]_vars
  PROVE  \/ UNCHANGED vars
         \/ \E t \in Threads : AddFd(t) \/ RemoveFd(t) \/ DropUnblock(t) \/ PendingReturn(t)
         \/ \E t \in Threads, s \in Sigs : PendingRead(t, s) \/ SendToThread(t, s)
         \/ \E t \in Threads, i \in Objects : New(t, i) \/ DropClose(t, i) \/ PendingBegin(t, i)
         \/ \E t \in Threads, i \in Objects, s \in Sigs : AddBlock(t, i, s) \/ RemoveUnblock(t, i, s)
         \/ \E i \in Objects : \/ RegisterHandle(i) \/ DeregisterHandle(i) \/ RegisterSource(i)
                               \/ ReregisterSource(i) \/ DeregisterSource(i) \/ PollReport(i)
         \/ \E s \in Sigs : SendToProcess(s)
         \/ \E t \in Workers, by \in Threads : StartThread(t, by)
  BY DEF Next, CallGoesOn, CallBegins, RegistryCall, Signal

\* What sigprocmask does to the mask and to what is pending.
LEMMA MaskSet ==
  ASSUME TypeOK, NEW t \in Threads, NEW m \in SUBSET Sigs, SetMask(t, m)
  PROVE  /\ blocked' \in [Threads -> SUBSET Sigs] /\ blocked'[t] = m
         /\ \A u \in Threads : u # t => blocked'[u] = blocked[u]
         /\ pendingOf' \in [Threads -> SUBSET Sigs] /\ pendingAll' \subseteq Sigs
         /\ Pending(t)' = Pending(t) \cap m
         /\ process' \in {process, "killed"}
  BY DEF SetMask, TypeOK, Pending

LEMMA TypeStep ==
  ASSUME TypeOK, [Next]_vars
  PROVE  TypeOK'
<1> USE DEF objectVars, epollVars, signalVars
<1>1. CASE UNCHANGED vars
  BY <1>1 DEF vars, TypeOK
<1>2. ASSUME NEW t \in Threads, AddFd(t) PROVE TypeOK'
  BY <1>2 DEF AddFd, In, SetFd, Return, TypeOK, Calls, NoCall
<1>3. ASSUME NEW t \in Threads, RemoveFd(t) PROVE TypeOK'
  BY <1>3 DEF RemoveFd, In, SetFd, Return, TypeOK, Calls, NoCall
<1>4. ASSUME NEW t \in Threads, DropUnblock(t) PROVE TypeOK'
  <2>1. call[t].object \in Objects /\ blocked[t] \ mask[call[t].object] \in SUBSET Sigs
    BY <1>4 DEF DropUnblock, In, TypeOK, Calls, NoCall
  <2> QED
    BY <1>4, <2>1, MaskSet DEF DropUnblock, Return, TypeOK
<1>5. ASSUME NEW t \in Threads, PendingReturn(t) PROVE TypeOK'
  BY <1>5 DEF PendingReturn, Return, TypeOK
<1>6. ASSUME NEW t \in Threads, NEW s \in Sigs, PendingRead(t, s) PROVE TypeOK'
  <2>1. call[t] \in Calls
    BY <1>6 DEF PendingRead, In, TypeOK, NoCall
  <2>2. call' \in [Threads -> Calls \cup {NoCall}]
    <3>1. [call[t] EXCEPT !.got = @ \cup {s}] \in Calls
      BY <2>1 DEF Calls
    <3>2. call' = [call EXCEPT ![t] = [call[t] EXCEPT !.got = @ \cup {s}]]
      BY <1>6 DEF PendingRead
    <3> QED
      BY <3>1, <3>2 DEF TypeOK
  <2> QED
    BY <1>6, <2>2 DEF PendingRead, TypeOK
<1>7. ASSUME NEW t \in Threads, NEW s \in Sigs, SendToThread(t, s) PROVE TypeOK'
  BY <1>7 DEF SendToThread, Woken, Owes, TypeOK
<1>8. ASSUME NEW t \in Threads, NEW i \in Objects, New(t, i) PROVE TypeOK'
  BY <1>8 DEF New, TypeOK
<1>9. ASSUME NEW t \in Threads, NEW i \in Objects, DropClose(t, i) PROVE TypeOK'
  BY <1>9 DEF DropClose, Begin, TypeOK, Calls
<1>10. ASSUME NEW t \in Threads, NEW i \in Objects, PendingBegin(t, i) PROVE TypeOK'
  BY <1>10 DEF PendingBegin, Begin, TypeOK, Calls
<1>11. ASSUME NEW t \in Threads, NEW i \in Objects, NEW s \in Sigs, AddBlock(t, i, s) PROVE TypeOK'
  <2>1. mask' \in [Objects -> SUBSET Sigs] /\ blocked[t] \cup mask'[i] \in SUBSET Sigs
    BY <1>11 DEF AddBlock, TypeOK
  <2>2. call' \in [Threads -> Calls \cup {NoCall}]
    BY Zenon, <1>11 DEF AddBlock, Begin, TypeOK, Calls
  <2> QED
    BY <1>11, <2>1, <2>2, MaskSet DEF AddBlock, Catches, TypeOK
<1>12. ASSUME NEW t \in Threads, NEW i \in Objects, NEW s \in Sigs, RemoveUnblock(t, i, s) PROVE TypeOK'
  <2>1. blocked[t] \ {s} \in SUBSET Sigs
    BY DEF TypeOK
  <2>2. call' \in [Threads -> Calls \cup {NoCall}]
    BY <1>12 DEF RemoveUnblock, Begin, TypeOK, Calls
  <2> QED
    BY <1>12, <2>1, <2>2, MaskSet DEF RemoveUnblock, TypeOK
<1>13. ASSUME NEW i \in Objects,
              \/ RegisterHandle(i) \/ DeregisterHandle(i) \/ RegisterSource(i)
              \/ ReregisterSource(i) \/ DeregisterSource(i) \/ PollReport(i)
       PROVE  TypeOK'
  BY Zenon, <1>13 DEF RegisterHandle, DeregisterHandle, RegisterSource, ReregisterSource, DeregisterSource,
     PollReport, Adds, Deletes, TypeOK
<1>14. ASSUME NEW s \in Sigs, SendToProcess(s) PROVE TypeOK'
  BY <1>14 DEF SendToProcess, Woken, Owes, TypeOK
<1>15. ASSUME NEW t \in Workers, NEW by \in Threads, StartThread(t, by) PROVE TypeOK'
  BY <1>15 DEF StartThread, Threads, TypeOK
<1> QED
  BY NextCases, <1>1, <1>2, <1>3, <1>4, <1>5, <1>6, <1>7, <1>8, <1>9, <1>10, <1>11, <1>12, <1>13,
     <1>14, <1>15

------------------------------------------------------------------------------
\* Steps that touch no object, mask or pending signal.
LEMMA QuietStep ==
  ASSUME CarefulInv,
         UNCHANGED <<mask, call, watch, started, blocked, pendingOf, pendingAll, caught, owed>>
  PROVE  CarefulInv'
<1>1. MainOnly' /\ MaskInv' /\ OwedInv'
  BY DEF CarefulInv, MainOnly, MaskInv, Wanted, Pending, OwedInv, Adding
<1>2. \A i \in Objects : ObjectInv(i)'
  BY DEF CarefulInv, ObjectInv, Doing
<1> QED
  BY <1>1, <1>2 DEF CarefulInv

\* Steps of signals and threads: the objects and their calls stay.
LEMMA ObjectsStay ==
  ASSUME CarefulInv, UNCHANGED <<mask, call, watch, caught>>
  PROVE  /\ \A i \in Objects : ObjectInv(i)'
         /\ main \in started' => MainOnly'
         /\ \A s \in Sigs : Wanted(s)' <=> Wanted(s)
  BY Zenon DEF CarefulInv, MainOnly, ObjectInv, Doing, Wanted

\* What is caught is read by its object, or about to be, and blocked by all threads.
LEMMA CaughtBlocked ==
  ASSUME TypeOK, CarefulInv, NEW i \in Objects, NEW s \in caught[i]
  PROVE  /\ watch[i] # NoFd /\ (s \in watch[i] \/ Adding(i)) /\ s \in mask[i] /\ s \in Sigs
         /\ \A t \in started : s \in blocked[t]
<1>1. s \in Sigs
  BY DEF TypeOK
<1>2. watch[i] # NoFd /\ (s \in watch[i] \/ Adding(i)) /\ s \in mask[i]
  BY DEF CarefulInv, ObjectInv, Doing, Adding
<1>3. Wanted(s)
  <2>1. CASE call[main].op # "remove"
    BY <1>2, <2>1 DEF Wanted
  <2>2. CASE call[main].op = "remove"
    <3>1. call[main] \in Calls
      BY <2>2 DEF TypeOK, Threads, NoCall
    <3>2. PICK j \in Objects : Doing("remove", j)
      BY <2>2, <3>1 DEF Doing, Calls
    <3>3. call[main].sig \subseteq mask[j] /\ caught[j] \cap call[main].sig = {}
      BY <3>2 DEF CarefulInv, ObjectInv
    <3>4. s \notin call[main].sig
      BY <1>2, <3>3 DEF CarefulInv, MaskInv
    <3> QED
      BY <1>2, <3>4 DEF Wanted
  <2> QED
    BY <2>1, <2>2
<1>4. s \in blocked[main]
  BY <1>1, <1>3 DEF CarefulInv, MaskInv
<1> QED
  BY <1>1, <1>2, <1>4 DEF CarefulInv, MaskInv

LEMMA ToProcessKeeps ==
  ASSUME TypeOK, CarefulInv, NEW s \in Sigs, SendToProcess(s)
  PROVE  CarefulInv'
<1>1. /\ UNCHANGED <<mask, call, watch, caught, started, blocked, pendingOf>>
      /\ main \in started /\ main \in Threads
  BY DEF SendToProcess, objectVars, CarefulInv, MainOnly, Threads
<1>2. /\ s \in pendingAll' \/ pendingAll' = pendingAll
      /\ pendingAll' \subseteq pendingAll \cup {s}
      /\ pendingAll \subseteq pendingAll'
      /\ s \in pendingAll' /\ s \notin pendingAll => s \in blocked[main]
  BY <1>1 DEF SendToProcess, Takers
<1>3. MaskInv'
  BY <1>1, <1>2, ObjectsStay DEF CarefulInv, MaskInv, Pending
<1>4. ASSUME NEW i \in Objects, s \in caught[i] PROVE s \in Pending(main)'
  <2>1. Takers(s, blocked) = {}
    BY <1>4, CaughtBlocked DEF Takers
  <2> QED
    BY <2>1 DEF SendToProcess, Pending
<1>5. OwedInv'
  <2>1. \A r \in owed : r \in Pending(main) => r \in Pending(main)'
    BY <1>1, <1>2 DEF Pending
  <2>2. \A r \in owed' : r \in owed \/ (r = s /\ \E i \in Objects : s \in caught[i])
    BY DEF SendToProcess, Owes
  <2>3. ASSUME NEW r \in owed'
        PROVE  \/ /\ r \in Pending(main)'
                  /\ \E i \in Objects : r \in caught[i] /\ (r \in watch[i] \/ Adding(i))
               \/ call[main] # NoCall /\ r \in call[main].got
    <3>1. CASE r \in owed
      BY <2>1, <3>1 DEF CarefulInv, OwedInv
    <3>2. CASE r = s /\ \E i \in Objects : s \in caught[i]
      BY <1>4, <3>2, CaughtBlocked
    <3> QED
      BY <2>2, <3>1, <3>2
  <2> QED
    BY <1>1, <2>3 DEF OwedInv, Adding
<1> QED
  BY <1>1, <1>3, <1>5, ObjectsStay DEF CarefulInv

LEMMA ToThreadKeeps ==
  ASSUME TypeOK, CarefulInv, NEW t \in Threads, NEW s \in Sigs, SendToThread(t, s)
  PROVE  CarefulInv'
<1>1. /\ UNCHANGED <<mask, call, watch, caught, started, blocked, pendingAll>>
      /\ main \in started /\ main \in Threads
  BY DEF SendToThread, objectVars, CarefulInv, MainOnly, Threads
<1>2. /\ pendingOf'[main] \subseteq pendingOf[main] \cup {s}
      /\ pendingOf[main] \subseteq pendingOf'[main]
      /\ s \in pendingOf'[main] /\ s \notin pendingOf[main] => s \in blocked[main]
  BY <1>1 DEF SendToThread, TypeOK
<1>3. MaskInv'
  BY Zenon, <1>1, <1>2, ObjectsStay DEF CarefulInv, MaskInv, Pending
<1>4. ASSUME NEW i \in Objects, s \in caught[i], t = main PROVE s \in Pending(main)'
  <2>1. s \in blocked[main]
    BY <1>1, <1>4, CaughtBlocked
  <2> QED
    BY <1>4, <2>1 DEF SendToThread, Pending, TypeOK
<1>5. OwedInv'
  <2>1. \A r \in owed : r \in Pending(main) => r \in Pending(main)'
    BY <1>1, <1>2 DEF Pending
  <2>2. \A r \in owed' : r \in owed \/ (r = s /\ t = main /\ \E i \in Objects : s \in caught[i])
    BY DEF SendToThread, Owes
  <2>3. ASSUME NEW r \in owed'
        PROVE  \/ /\ r \in Pending(main)'
                  /\ \E i \in Objects : r \in caught[i] /\ (r \in watch[i] \/ Adding(i))
               \/ call[main] # NoCall /\ r \in call[main].got
    <3>1. CASE r \in owed
      BY <2>1, <3>1 DEF CarefulInv, OwedInv
    <3>2. CASE r = s /\ t = main /\ \E i \in Objects : s \in caught[i]
      BY <1>4, <3>2, CaughtBlocked
    <3> QED
      BY <2>2, <3>1, <3>2
  <2> QED
    BY <1>1, <2>3 DEF OwedInv, Adding
<1> QED
  BY <1>1, <1>3, <1>5, ObjectsStay DEF CarefulInv

LEMMA StartKeeps ==
  ASSUME TypeOK, CarefulInv, NEW t \in Workers, NEW by \in Threads, StartThread(t, by)
  PROVE  CarefulInv'
<1>1. /\ UNCHANGED <<mask, call, watch, caught, owed, pendingOf, pendingAll>>
      /\ main \in started /\ main \in Threads /\ t \in Threads /\ t # main /\ by \in started
      /\ started' = started \cup {t} /\ blocked' = [blocked EXCEPT ![t] = blocked[by]]
  BY DEF StartThread, objectVars, epollVars, CarefulInv, MainOnly, Threads
<1>2. /\ blocked'[main] = blocked[main] /\ blocked'[t] = blocked[by]
      /\ \A u \in started : u # t => blocked'[u] = blocked[u]
  BY <1>1 DEF TypeOK
<1>3. MaskInv'
  BY <1>1, <1>2, ObjectsStay DEF CarefulInv, MaskInv, Pending
<1>4. OwedInv'
  BY SMTT(30), <1>1 DEF CarefulInv, OwedInv, Pending, Adding
<1> QED
  BY <1>1, <1>3, <1>4, ObjectsStay DEF CarefulInv

------------------------------------------------------------------------------
\* Between two calls the three views of an object agree, and all that is owed is pending.
LEMMA Between ==
  ASSUME CarefulInv, call[main] = NoCall
  PROVE  /\ \A j \in Objects :
              /\ watch[j] = NoFd => caught[j] = {} /\ mask[j] = {}
              /\ watch[j] # NoFd => mask[j] = watch[j] /\ caught[j] = watch[j]
         /\ \A s \in owed : s \in Pending(main) /\ \E i \in Objects : s \in caught[i] /\ s \in watch[i]
         /\ \A s \in Sigs : s \in blocked[main] <=> \E i \in Objects : s \in mask[i]
<1>1. call[main].op = "none"
  BY DEF NoCall
<1>2. \A j \in Objects :
              /\ watch[j] = NoFd => caught[j] = {} /\ mask[j] = {}
              /\ watch[j] # NoFd => mask[j] = watch[j] /\ caught[j] = watch[j]
  BY Zenon, <1>1 DEF CarefulInv, ObjectInv, Doing
<1> QED
  BY <1>1, <1>2 DEF CarefulInv, OwedInv, MaskInv, Wanted

\* A call of main begins on i: the other objects are as they were.
LEMMA Began ==
  ASSUME CarefulInv, main \in Threads, call[main] = NoCall, started' = started,
         NEW i \in Objects, call'[main].object = i, call'[main].got = {},
         \A u \in Threads : u # main => call'[u] = call[u],
         \A j \in Objects : j # i => watch'[j] = watch[j] /\ mask'[j] = mask[j] /\ caught'[j] = caught[j]
  PROVE  MainOnly' /\ \A j \in Objects : j # i => ObjectInv(j)'
<1>1. MainOnly'
  <2>1. main \in started /\ \A u \in Threads : u # main => call[u] = NoCall
    BY Zenon DEF CarefulInv, MainOnly
  <2> QED
    BY <2>1 DEF MainOnly
<1>2. ASSUME NEW j \in Objects, j # i PROVE ObjectInv(j)'
  <2>1. ~Doing("add", j)' /\ ~Doing("remove", j)' /\ ~Doing("drop", j)' /\ ~Doing("pending", j)'
    BY Zenon, <1>2 DEF Doing
  <2>2. /\ watch'[j] = NoFd => caught'[j] = {} /\ mask'[j] = {}
        /\ watch'[j] # NoFd => mask'[j] = watch'[j] /\ caught'[j] = watch'[j]
    BY <1>2, Between
  <2> QED
    BY Zenon, <2>1, <2>2 DEF ObjectInv
<1> QED
  BY Zenon, <1>1, <1>2

LEMMA AddBlockKeeps ==
  ASSUME TypeOK, CarefulInv, Careful, NEW t \in Threads, NEW i \in Objects, NEW s \in Sigs, AddBlock(t, i, s)
  PROVE  CarefulInv'
<1>1. /\ t = main /\ main \in Threads /\ call[main] = NoCall /\ started = {main} /\ watch[i] # NoFd
      /\ \A j \in Objects \ {i} : s \notin mask[j]
      /\ mask' = [mask EXCEPT ![i] = @ \cup {s}]
      /\ call' = [call EXCEPT ![main] = [op |-> "add", object |-> i, sig |-> {s}, got |-> {}]]
      /\ caught' = [caught EXCEPT ![i] = @ \cup {s}]
      /\ UNCHANGED <<watch, started, owed>>
  BY Zenon DEF AddBlock, Catches, Free, CarefulAdd, Begin, epollVars
<1>2. /\ mask'[i] = mask[i] \cup {s} /\ mask' \in [Objects -> SUBSET Sigs]
      /\ caught'[i] = caught[i] \cup {s}
      /\ \A j \in Objects : j # i => mask'[j] = mask[j] /\ caught'[j] = caught[j]
      /\ call'[main] = [op |-> "add", object |-> i, sig |-> {s}, got |-> {}]
      /\ \A u \in Threads : u # main => call'[u] = call[u]
  BY Zenon, <1>1 DEF TypeOK
<1>3. blocked'[main] = blocked[main] \cup mask'[i] /\ Pending(main)' = Pending(main)
  <2>1. blocked[main] \cup mask'[i] \in SUBSET Sigs
    BY Zenon, <1>1, <1>2 DEF TypeOK
  <2>2. SetMask(main, blocked[main] \cup mask'[i])
    BY Zenon, <1>1 DEF AddBlock
  <2>3. /\ blocked'[main] = blocked[main] \cup mask'[i] /\ Pending(main)' = Pending(main) \cap (blocked[main] \cup mask'[i])
    BY Zenon, <1>1, <2>1, <2>2, MaskSet
  <2>4. Pending(main) \subseteq blocked[main]
    BY Zenon DEF CarefulInv, MaskInv
  <2> QED
    BY Zenon, <1>1, <2>3, <2>4
<1>4. /\ call'[main].op = "add" /\ call'[main].object = i
      /\ call'[main].sig = {s} /\ call'[main].got = {}
  <2>1. PICK o : o = call'[main]
    BY Zenon
  <2>2. o = [op |-> "add", object |-> i, sig |-> {s}, got |-> {}]
    BY Zenon, <1>2, <2>1
  <2>3. o.op = "add" /\ o.object = i /\ o.sig = {s} /\ o.got = {}
    BY Zenon, <2>2
  <2> QED
    BY Zenon, <2>1, <2>3
<1>5. MainOnly' /\ \A j \in Objects : j # i => ObjectInv(j)'
  <2>1. \A j \in Objects : j # i => watch'[j] = watch[j] /\ mask'[j] = mask[j] /\ caught'[j] = caught[j]
    BY Zenon, <1>1, <1>2
  <2>2. \A u \in Threads : u # main => call'[u] = call[u]
    BY <1>2
  <2>3. started' = started /\ main \in Threads /\ call[main] = NoCall
    BY <1>1
  <2> QED
    BY <1>4, <2>1, <2>2, <2>3, Began
<1>6. /\ \A j \in Objects : /\ watch[j] = NoFd => caught[j] = {} /\ mask[j] = {}
                            /\ watch[j] # NoFd => mask[j] = watch[j] /\ caught[j] = watch[j]
      /\ \A r \in owed : r \in Pending(main) /\ \E k \in Objects : r \in caught[k] /\ r \in watch[k]
      /\ \A r \in Sigs : r \in blocked[main] <=> \E k \in Objects : r \in mask[k]
  BY Zenon, <1>1, Between
<1>7. ASSUME NEW j \in Objects PROVE ObjectInv(j)'
  <2>1. /\ Doing("add", i)'
        /\ ~Doing("remove", i)' /\ ~Doing("drop", i)' /\ ~Doing("pending", i)'
    BY <1>4 DEF Doing
  <2>2. watch'[i] # NoFd /\ caught'[i] = mask'[i] /\ mask'[i] = watch'[i] \cup {s}
    BY ZenonT(30), <1>1, <1>2, <1>6
  <2>3. ObjectInv(i)'
    BY Zenon, <1>4, <2>1, <2>2 DEF ObjectInv
  <2> QED
    BY <1>5, <2>3
<1>8. MaskInv'
  <2>1. \A j, k \in Objects : j # k => mask'[j] \cap mask'[k] = {}
    <3>1. ASSUME NEW j \in Objects, NEW k \in Objects, j # k PROVE mask'[j] \cap mask'[k] = {}
      <4>1. mask[j] \cap mask[k] = {}
        BY Zenon, <3>1 DEF CarefulInv, MaskInv
      <4>0. mask'[i] = mask[i] \cup {s} /\ \A l \in Objects : l # i => mask'[l] = mask[l] /\ s \notin mask[l]
        BY Zenon, <1>1, <1>2
      <4>2. CASE j = i
        BY ZenonT(30), <3>1, <4>0, <4>1, <4>2
      <4>3. CASE k = i
        BY ZenonT(30), <3>1, <4>0, <4>1, <4>3
      <4>4. CASE j # i /\ k # i
        BY Zenon, <1>2, <4>1, <4>4
      <4> QED
        BY Zenon, <4>2, <4>3, <4>4
    <3> QED
      BY <3>1
  <2>2. \A r \in Sigs : r \in blocked'[main] <=> Wanted(r)'
    <3>1. \A r \in Sigs : Wanted(r)' <=> \E k \in Objects : r \in mask'[k]
      BY <1>4 DEF Wanted
    <3>2. ASSUME NEW r \in Sigs
          PROVE  (\E k \in Objects : r \in mask'[k]) <=> (\E k \in Objects : r \in mask[k]) \/ r \in mask'[i]
      BY Zenon, <1>2
    <3> QED
      BY Zenon, <1>3, <1>6, <3>1, <3>2
  <2> QED
    BY Zenon, <1>1, <1>3, <2>1, <2>2 DEF CarefulInv, MaskInv
<1>9. OwedInv'
  <2>1. \A k \in Objects : caught[k] \subseteq caught'[k]
    BY Zenon, <1>2
  <2> QED
    BY ZenonT(60), <1>1, <1>3, <1>6, <2>1 DEF OwedInv
<1> QED
  BY <1>5, <1>7, <1>8, <1>9 DEF CarefulInv

LEMMA RemoveUnblockKeeps ==
  ASSUME TypeOK, CarefulInv, Careful, NEW t \in Threads, NEW i \in Objects, NEW s \in Sigs, RemoveUnblock(t, i, s)
  PROVE  CarefulInv'
<1>1. /\ t = main /\ main \in Threads /\ call[main] = NoCall /\ watch[i] # NoFd
      /\ s \in mask[i] /\ s \notin Pending(main)
      /\ caught' = [caught EXCEPT ![i] = @ \ {s}]
      /\ call' = [call EXCEPT ![main] = [op |-> "remove", object |-> i, sig |-> {s}, got |-> {}]]
      /\ UNCHANGED <<mask, watch, started, owed>>
  BY Zenon DEF RemoveUnblock, Free, CarefulRemove, Begin, epollVars
<1>2. /\ caught'[i] = caught[i] \ {s}
      /\ \A j \in Objects : j # i => caught'[j] = caught[j]
      /\ call'[main] = [op |-> "remove", object |-> i, sig |-> {s}, got |-> {}]
      /\ \A u \in Threads : u # main => call'[u] = call[u]
  BY Zenon, <1>1 DEF TypeOK
<1>3. /\ blocked'[main] = blocked[main] \ {s} /\ Pending(main)' = Pending(main)
      /\ \A u \in Threads : u # main => blocked'[u] = blocked[u]
  <2>1. blocked[main] \ {s} \in SUBSET Sigs
    BY <1>1 DEF TypeOK
  <2>2. SetMask(main, blocked[main] \ {s})
    BY Zenon, <1>1 DEF RemoveUnblock
  <2>3. /\ blocked'[main] = blocked[main] \ {s} /\ Pending(main)' = Pending(main) \cap (blocked[main] \ {s})
        /\ \A u \in Threads : u # main => blocked'[u] = blocked[u]
    BY Zenon, <1>1, <2>1, <2>2, MaskSet
  <2>4. Pending(main) \subseteq blocked[main]
    BY Zenon DEF CarefulInv, MaskInv
  <2> QED
    BY Zenon, <1>1, <2>3, <2>4
<1>4. /\ call'[main].op = "remove" /\ call'[main].object = i
      /\ call'[main].sig = {s} /\ call'[main].got = {}
  <2>1. PICK x, y : x = {s} /\ y = {}
    BY Zenon
  <2>2. call'[main] = [op |-> "remove", object |-> i, sig |-> x, got |-> y]
    BY Zenon, <1>2, <2>1
  <2>3. PICK o : o = call'[main]
    BY Zenon
  <2>4. o = [op |-> "remove", object |-> i, sig |-> x, got |-> y]
    BY Zenon, <2>2, <2>3
  <2>5. o.op = "remove" /\ o.object = i /\ o.sig = x /\ o.got = y
    BY Zenon, <2>4
  <2> QED
    BY Zenon, <2>1, <2>3, <2>5
<1>5. MainOnly' /\ \A j \in Objects : j # i => ObjectInv(j)'
  <2>1. \A j \in Objects : j # i => watch'[j] = watch[j] /\ mask'[j] = mask[j] /\ caught'[j] = caught[j]
    BY Zenon, <1>1, <1>2
  <2>2. \A u \in Threads : u # main => call'[u] = call[u]
    BY <1>2
  <2>3. started' = started /\ main \in Threads /\ call[main] = NoCall
    BY <1>1
  <2> QED
    BY Zenon, <1>4, <2>1, <2>2, <2>3, Began
<1>6. /\ \A j \in Objects : /\ watch[j] = NoFd => caught[j] = {} /\ mask[j] = {}
                            /\ watch[j] # NoFd => mask[j] = watch[j] /\ caught[j] = watch[j]
      /\ \A r \in owed : r \in Pending(main) /\ \E k \in Objects : r \in caught[k] /\ r \in watch[k]
      /\ \A r \in Sigs : r \in blocked[main] <=> \E k \in Objects : r \in mask[k]
  BY Zenon, <1>1, Between
<1>7. ASSUME NEW j \in Objects PROVE ObjectInv(j)'
  <2>1. /\ Doing("remove", i)'
        /\ ~Doing("add", i)' /\ ~Doing("drop", i)' /\ ~Doing("pending", i)'
    BY <1>4 DEF Doing
  <2>2. /\ watch'[i] # NoFd /\ mask'[i] = watch'[i] /\ caught'[i] = watch'[i] \ {s}
        /\ {s} \subseteq watch'[i]
    BY Zenon, <1>1, <1>2, <1>6
  <2>3. ObjectInv(i)'
    BY Zenon, <1>4, <2>1, <2>2 DEF ObjectInv
  <2> QED
    BY <1>5, <2>3
<1>8. MaskInv'
  <2>1. \A r \in Sigs : r \in blocked'[main] <=> Wanted(r)'
    <3>1. \A r \in Sigs : Wanted(r)' <=> (\E k \in Objects : r \in mask[k]) /\ r # s
      BY Zenon, <1>1, <1>4 DEF Wanted
    <3> QED
      BY Zenon, <1>3, <1>6, <3>1
  <2>2. \A u \in started : blocked'[main] \subseteq blocked'[u]
    BY Zenon, <1>1, <1>3 DEF CarefulInv, MaskInv, TypeOK
  <2> QED
    BY Zenon, <1>1, <1>3, <2>1, <2>2 DEF CarefulInv, MaskInv
<1>9. OwedInv'
  <2>1. ASSUME NEW r \in owed'
        PROVE  r \in Pending(main)' /\ \E k \in Objects : r \in caught'[k] /\ r \in watch'[k]
    <3>1. PICK k \in Objects : r \in caught[k] /\ r \in watch[k]
      BY Zenon, <1>1, <1>6, <2>1
    <3>2. r \in Pending(main) /\ r # s
      BY Zenon, <1>1, <1>6, <2>1
    <3>3. r \in caught'[k] /\ r \in watch'[k]
      BY Zenon, <1>1, <1>2, <3>1, <3>2
    <3> QED
      BY Zenon, <1>3, <3>2, <3>3
  <2> QED
    BY <2>1 DEF OwedInv
<1> QED
  BY <1>5, <1>7, <1>8, <1>9 DEF CarefulInv

LEMMA DropCloseKeeps ==
  ASSUME TypeOK, CarefulInv, Careful, NEW t \in Threads, NEW i \in Objects, DropClose(t, i)
  PROVE  CarefulInv'
<1>1. /\ t = main /\ main \in Threads /\ call[main] = NoCall /\ watch[i] # NoFd
      /\ mask[i] \cap Pending(main) = {}
      /\ watch' = [watch EXCEPT ![i] = NoFd]
      /\ caught' = [caught EXCEPT ![i] = {}]
      /\ call' = [call EXCEPT ![main] = [op |-> "drop", object |-> i, sig |-> {}, got |-> {}]]
      /\ UNCHANGED <<mask, started, blocked, pendingOf, pendingAll, owed>>
  BY Zenon DEF DropClose, Free, CarefulRemove, Begin, signalVars
<1>2. /\ caught'[i] = {} /\ watch'[i] = NoFd
      /\ \A j \in Objects : j # i => caught'[j] = caught[j] /\ watch'[j] = watch[j]
      /\ call'[main] = [op |-> "drop", object |-> i, sig |-> {}, got |-> {}]
      /\ \A u \in Threads : u # main => call'[u] = call[u]
  BY Zenon, <1>1 DEF TypeOK
<1>3. Pending(main)' = Pending(main)
  BY Zenon, <1>1 DEF Pending
<1>4. /\ call'[main].op = "drop" /\ call'[main].object = i
      /\ call'[main].sig = {} /\ call'[main].got = {}
  <2>1. PICK x, y : x = {} /\ y = {}
    BY Zenon
  <2>2. call'[main] = [op |-> "drop", object |-> i, sig |-> x, got |-> y]
    BY Zenon, <1>2, <2>1
  <2>3. call'[main].op = "drop" /\ call'[main].object = i /\ call'[main].sig = x /\ call'[main].got = y
    BY ONLY <2>2
  <2> QED
    BY Zenon, <2>1, <2>3
<1>5. MainOnly' /\ \A j \in Objects : j # i => ObjectInv(j)'
  <2>1. \A j \in Objects : j # i => watch'[j] = watch[j] /\ mask'[j] = mask[j] /\ caught'[j] = caught[j]
    BY Zenon, <1>1, <1>2
  <2>2. \A u \in Threads : u # main => call'[u] = call[u]
    BY <1>2
  <2>3. started' = started /\ main \in Threads /\ call[main] = NoCall
    BY Zenon, <1>1
  <2> QED
    BY Zenon, <1>4, <2>1, <2>2, <2>3, Began
<1>6. /\ \A j \in Objects : /\ watch[j] = NoFd => caught[j] = {} /\ mask[j] = {}
                            /\ watch[j] # NoFd => mask[j] = watch[j] /\ caught[j] = watch[j]
      /\ \A r \in owed : r \in Pending(main) /\ \E k \in Objects : r \in caught[k] /\ r \in watch[k]
      /\ \A r \in Sigs : r \in blocked[main] <=> \E k \in Objects : r \in mask[k]
  BY Zenon, <1>1, Between
<1>7. ASSUME NEW j \in Objects PROVE ObjectInv(j)'
  <2>1. /\ Doing("drop", i)'
        /\ ~Doing("add", i)' /\ ~Doing("remove", i)' /\ ~Doing("pending", i)'
    BY <1>4 DEF Doing
  <2>2. watch'[i] = NoFd /\ caught'[i] = {}
    BY Zenon, <1>2
  <2>3. ObjectInv(i)'
    BY Zenon, <1>4, <2>1, <2>2 DEF ObjectInv
  <2> QED
    BY <1>5, <2>3
<1>8. MaskInv'
  <2>1. \A r \in Sigs : r \in blocked'[main] <=> Wanted(r)'
    BY Zenon, <1>1, <1>4, <1>6 DEF Wanted
  <2> QED
    BY Zenon, <1>1, <1>3, <2>1 DEF CarefulInv, MaskInv
<1>9. OwedInv'
  <2>1. ASSUME NEW r \in owed PROVE \E k \in Objects : r \in caught'[k] /\ r \in watch'[k]
    <3>1. PICK k \in Objects : r \in caught[k] /\ r \in watch[k]
      BY Zenon, <1>6
    <3>2. caught[i] = mask[i] /\ r \in Pending(main)
      BY Zenon, <1>1, <1>6
    <3>3. k # i
      BY Zenon, <1>1, <3>1, <3>2
    <3> QED
      BY Zenon, <1>2, <3>1, <3>3
  <2> QED
    BY Zenon, <1>1, <1>3, <1>6, <2>1 DEF OwedInv
<1> QED
  BY <1>5, <1>7, <1>8, <1>9 DEF CarefulInv

LEMMA PendingBeginKeeps ==
  ASSUME TypeOK, CarefulInv, Careful, NEW t \in Threads, NEW i \in Objects, PendingBegin(t, i)
  PROVE  CarefulInv'
<1>1. /\ t = main /\ main \in Threads /\ call[main] = NoCall /\ watch[i] # NoFd
      /\ call' = [call EXCEPT ![main] = [op |-> "pending", object |-> i, sig |-> {}, got |-> {}]]
      /\ UNCHANGED <<mask, watch, started, blocked, pendingOf, pendingAll, caught, owed>>
  BY Zenon DEF PendingBegin, Free, Begin, signalVars, epollVars
<1>2. /\ call'[main] = [op |-> "pending", object |-> i, sig |-> {}, got |-> {}]
      /\ \A u \in Threads : u # main => call'[u] = call[u]
  BY Zenon, <1>1 DEF TypeOK
<1>3. Pending(main)' = Pending(main)
  BY Zenon, <1>1 DEF Pending
<1>4. /\ call'[main].op = "pending" /\ call'[main].object = i
      /\ call'[main].sig = {} /\ call'[main].got = {}
  BY <1>2
<1>5. MainOnly' /\ \A j \in Objects : j # i => ObjectInv(j)'
  <2>1. \A j \in Objects : j # i => watch'[j] = watch[j] /\ mask'[j] = mask[j] /\ caught'[j] = caught[j]
    BY Zenon, <1>1, <1>2
  <2>2. \A u \in Threads : u # main => call'[u] = call[u]
    BY <1>2
  <2>3. started' = started /\ main \in Threads /\ call[main] = NoCall
    BY <1>1
  <2> QED
    BY Zenon, <1>4, <2>1, <2>2, <2>3, Began
<1>6. /\ \A j \in Objects : /\ watch[j] = NoFd => caught[j] = {} /\ mask[j] = {}
                            /\ watch[j] # NoFd => mask[j] = watch[j] /\ caught[j] = watch[j]
      /\ \A r \in owed : r \in Pending(main) /\ \E k \in Objects : r \in caught[k] /\ r \in watch[k]
      /\ \A r \in Sigs : r \in blocked[main] <=> \E k \in Objects : r \in mask[k]
  BY Zenon, <1>1, Between
<1>7. ASSUME NEW j \in Objects PROVE ObjectInv(j)'
  <2>1. /\ Doing("pending", i)'
        /\ ~Doing("add", i)' /\ ~Doing("remove", i)' /\ ~Doing("drop", i)'
    BY <1>4 DEF Doing
  <2>2. watch'[i] # NoFd /\ caught'[i] = watch'[i] /\ mask'[i] = watch'[i]
    BY Zenon, <1>1, <1>6
  <2>3. ObjectInv(i)'
    BY Zenon, <1>4, <2>1, <2>2 DEF ObjectInv
  <2> QED
    BY <1>5, <2>3
<1>8. MaskInv'
  <2>1. \A r \in Sigs : r \in blocked'[main] <=> Wanted(r)'
    BY Zenon, <1>1, <1>4, <1>6 DEF Wanted
  <2> QED
    BY Zenon, <1>1, <1>3, <2>1 DEF CarefulInv, MaskInv
<1>9. OwedInv'
  BY Zenon, <1>1, <1>3, <1>6 DEF OwedInv
<1> QED
  BY <1>5, <1>7, <1>8, <1>9 DEF CarefulInv

LEMMA NewKeeps ==
  ASSUME NoFd \notin SUBSET Sigs,
         TypeOK, CarefulInv, NEW t \in Threads, NEW i \in Objects, New(t, i)
  PROVE  CarefulInv'
<1>1. /\ main \in Threads /\ watch[i] = NoFd /\ (call[main] # NoCall => call[main].object # i)
      /\ watch' = [watch EXCEPT ![i] = {}]
      /\ mask' = [mask EXCEPT ![i] = {}]
      /\ UNCHANGED <<call, started, blocked, pendingOf, pendingAll, caught, owed>>
  BY DEF New, Free, signalVars, Threads
<1>2. /\ watch'[i] = {} /\ mask'[i] = {}
      /\ \A j \in Objects : j # i => watch'[j] = watch[j] /\ mask'[j] = mask[j]
  BY <1>1 DEF TypeOK
<1>3. /\ \A name \in {"add", "remove", "drop", "pending"} : ~Doing(name, i)
      /\ caught[i] = {} /\ mask[i] = {}
  <2>1. \A name \in {"add", "remove", "drop", "pending"} : ~Doing(name, i)
    <3>1. CASE call[main] = NoCall
      BY <3>1 DEF Doing, NoCall
    <3>2. CASE call[main] # NoCall
      BY Zenon, <1>1, <3>2 DEF Doing
    <3> QED
      BY <3>1, <3>2
  <2>2. ObjectInv(i)
    BY DEF CarefulInv
  <2> QED
    BY Zenon, <1>1, <2>1, <2>2 DEF ObjectInv
<1>4. mask' = mask
  BY <1>1, <1>3 DEF TypeOK
<1>5. MainOnly'
  BY Zenon, <1>1 DEF CarefulInv, MainOnly
<1>6. ASSUME NEW j \in Objects PROVE ObjectInv(j)'
  <2>1. CASE j = i
    BY Zenon, <1>1, <1>2, <1>3, <2>1 DEF ObjectInv, Doing
  <2>2. CASE j # i
    <3>1. \A n : Doing(n, j)' <=> Doing(n, j)
      BY <1>1 DEF Doing
    <3>2. ObjectInv(j)
      BY DEF CarefulInv
    <3> QED
      BY Zenon, <1>1, <1>2, <2>2, <3>1, <3>2 DEF ObjectInv
  <2> QED
    BY <2>1, <2>2
<1>7. MaskInv'
  BY Zenon, <1>1, <1>4 DEF CarefulInv, MaskInv, Wanted, Pending
<1>8. OwedInv'
  BY Zenon, <1>1, <1>2, <1>3 DEF CarefulInv, OwedInv, Pending, Adding
<1> QED
  BY SMTT(30), <1>5, <1>6, <1>7, <1>8 DEF CarefulInv

\* A call in progress is one of main's.
LEMMA InMain ==
  ASSUME TypeOK, CarefulInv, NEW t \in Threads, NEW name \in {"add", "remove", "drop", "pending"}, In(t, name)
  PROVE  /\ t = main /\ main \in Threads /\ call[main] \in Calls /\ call[main].op = name
         /\ call[main].object \in Objects /\ Doing(name, call[main].object)
         /\ ObjectInv(call[main].object)
         /\ \A j \in Objects : j # call[main].object =>
              /\ watch[j] = NoFd => caught[j] = {} /\ mask[j] = {}
              /\ watch[j] # NoFd => mask[j] = watch[j] /\ caught[j] = watch[j]
<1>1. t = main /\ main \in Threads /\ call[main].op = name
  BY DEF In, CarefulInv, MainOnly, NoCall, Threads
<1>2. call[main] \in Calls
  BY <1>1 DEF TypeOK, NoCall
<1>3. call[main].object \in Objects /\ Doing(name, call[main].object)
  BY <1>1, <1>2 DEF Calls, Doing
<1> QED
  BY Zenon, <1>1, <1>2, <1>3 DEF CarefulInv, ObjectInv, Doing

\* When the call returns, the objects agree again.
LEMMA Returned ==
  ASSUME TypeOK, CarefulInv, UNCHANGED started, call' = [call EXCEPT ![main] = NoCall],
         \A j \in Objects : \/ watch'[j] = NoFd /\ caught'[j] = {} /\ mask'[j] = {}
                            \/ watch'[j] # NoFd /\ mask'[j] = watch'[j] /\ caught'[j] = watch'[j]
  PROVE  /\ MainOnly' /\ (\A j \in Objects : ObjectInv(j)') /\ call'[main].op = "none"
         /\ \A s \in Sigs : Wanted(s)' <=> \E i \in Objects : s \in mask'[i]
<1>1. main \in Threads /\ call'[main] = NoCall /\ \A u \in Threads : u # main => call'[u] = call[u]
  BY Zenon DEF TypeOK, Threads
<1>2. call'[main].op = "none"
  BY <1>1 DEF NoCall
<1>3. MainOnly'
  BY <1>1, <1>2 DEF CarefulInv, MainOnly
<1> QED
  BY Zenon, <1>2, <1>3 DEF ObjectInv, Doing, Wanted

LEMMA AddFdKeeps ==
  ASSUME NoFd \notin SUBSET Sigs, TypeOK, CarefulInv, NEW t \in Threads, AddFd(t)
  PROVE  CarefulInv'
<1> DEFINE i == call[main].object
<1>1. /\ t = main /\ main \in Threads /\ call[main] \in Calls /\ call[main].op = "add" /\ i \in Objects
      /\ watch[i] # NoFd /\ caught[i] = mask[i] /\ mask[i] = watch[i] \cup call[main].sig
      /\ \A j \in Objects : j # i =>
           /\ watch[j] = NoFd => caught[j] = {} /\ mask[j] = {}
           /\ watch[j] # NoFd => mask[j] = watch[j] /\ caught[j] = watch[j]
  BY Zenon, InMain DEF AddFd, ObjectInv
<1>2. /\ watch' = [watch EXCEPT ![i] = mask[i]]
      /\ call' = [call EXCEPT ![main] = NoCall]
      /\ UNCHANGED <<mask, started, blocked, pendingOf, pendingAll, caught, owed>>
  BY Zenon, <1>1 DEF AddFd, SetFd, Return, signalVars
<1>3. /\ watch'[i] = mask[i] /\ caught'[i] = mask[i] /\ watch'[i] # NoFd
      /\ \A j \in Objects : j # i => watch'[j] = watch[j] /\ caught'[j] = caught[j]
  <2> HIDE DEF i
  <2>1. DOMAIN watch = Objects /\ mask[i] \in SUBSET Sigs
    BY Zenon, <1>1 DEF TypeOK
  <2>2. watch'[i] = mask[i] /\ \A j \in Objects : j # i => watch'[j] = watch[j]
    BY <1>1, <1>2, <2>1
  <2> QED
    BY Zenon, <1>1, <1>2, <2>1, <2>2
<1>4. /\ MainOnly' /\ (\A j \in Objects : ObjectInv(j)')
      /\ \A s \in Sigs : Wanted(s)' <=> \E k \in Objects : s \in mask'[k]
  <2>1. ASSUME NEW j \in Objects
        PROVE  \/ watch'[j] = NoFd /\ caught'[j] = {} /\ mask'[j] = {}
               \/ watch'[j] # NoFd /\ mask'[j] = watch'[j] /\ caught'[j] = watch'[j]
    <3> HIDE DEF i
    <3>1. CASE j = i
      BY Zenon, <1>2, <1>3, <3>1
    <3>2. CASE j # i
      BY ZenonT(30), <1>1, <1>2, <1>3, <3>2
    <3> QED
      BY Zenon, <3>1, <3>2
  <2> QED
    BY Zenon, <1>2, <2>1, Returned
<1>5. MaskInv'
  <2>1. \A s \in Sigs : s \in blocked[main] <=> \E k \in Objects : s \in mask[k]
    BY Zenon, <1>1 DEF CarefulInv, MaskInv, Wanted
  <2> QED
    BY Zenon, <1>2, <1>4, <2>1 DEF CarefulInv, MaskInv, Pending
<1>6. OwedInv'
  <2>1. \A s \in owed : s \in Pending(main) /\ \E k \in Objects : s \in caught[k]
    BY Zenon, <1>1 DEF CarefulInv, OwedInv, MainOnly
  <2>2. ASSUME NEW k \in Objects PROVE caught'[k] # {} => caught'[k] = watch'[k]
    <3> HIDE DEF i
    <3>1. CASE k = i
      BY Zenon, <1>3, <3>1
    <3>2. CASE k # i
      BY Zenon, <1>1, <1>3, <3>2
    <3> QED
      BY Zenon, <3>1, <3>2
  <2>3. \A k \in Objects : caught[k] = caught'[k]
    BY Zenon, <1>2
  <2> QED
    BY Zenon, <1>2, <2>1, <2>2, <2>3 DEF OwedInv, Pending
<1> QED
  BY <1>4, <1>5, <1>6 DEF CarefulInv

LEMMA RemoveFdKeeps ==
  ASSUME NoFd \notin SUBSET Sigs, TypeOK, CarefulInv, NEW t \in Threads, RemoveFd(t)
  PROVE  CarefulInv'
<1> DEFINE i == call[main].object
<1>1. /\ t = main /\ main \in Threads /\ call[main] \in Calls /\ call[main].op = "remove" /\ i \in Objects
      /\ watch[i] # NoFd /\ caught[i] = watch[i] \ call[main].sig /\ mask[i] = watch[i]
      /\ call[main].sig \subseteq watch[i]
      /\ \A j \in Objects : j # i =>
           /\ watch[j] = NoFd => caught[j] = {} /\ mask[j] = {}
           /\ watch[j] # NoFd => mask[j] = watch[j] /\ caught[j] = watch[j]
  BY Zenon, InMain DEF RemoveFd, ObjectInv
<1>2. /\ mask' = [mask EXCEPT ![i] = @ \ call[main].sig]
      /\ watch' = [watch EXCEPT ![i] = mask'[i]]
      /\ call' = [call EXCEPT ![main] = NoCall]
      /\ UNCHANGED <<caught, started, blocked, pendingOf, pendingAll, owed>>
  BY Zenon, <1>1 DEF RemoveFd, SetFd, Return, signalVars
<1>3. /\ mask'[i] = mask[i] \ call[main].sig /\ watch'[i] = mask'[i] /\ watch'[i] # NoFd
      /\ \A j \in Objects : j # i => watch'[j] = watch[j] /\ mask'[j] = mask[j]
  BY Zenon, <1>1, <1>2 DEF TypeOK
<1>4. /\ MainOnly' /\ (\A j \in Objects : ObjectInv(j)')
      /\ \A s \in Sigs : Wanted(s)' <=> \E k \in Objects : s \in mask'[k]
  <2>1. ASSUME NEW j \in Objects
        PROVE  \/ watch'[j] = NoFd /\ caught'[j] = {} /\ mask'[j] = {}
               \/ watch'[j] # NoFd /\ mask'[j] = watch'[j] /\ caught'[j] = watch'[j]
    <3> HIDE DEF i
    <3>1. CASE j = i
      <4>1. caught'[i] = caught[i]
        BY <1>2
      <4>2. caught'[i] = watch'[i] /\ mask'[i] = watch'[i]
        BY Zenon, <1>1, <1>3, <4>1
      <4> QED
        BY <1>3, <3>1, <4>2
    <3>2. CASE j # i
      BY Zenon, <1>1, <1>2, <1>3, <3>2
    <3> QED
      BY Zenon, <3>1, <3>2
  <2> QED
    BY Zenon, <1>2, <2>1, Returned
<1>5. MaskInv'
  <2>1. \A s \in Sigs : s \in blocked[main] <=> (\E k \in Objects : s \in mask[k]) /\ s \notin call[main].sig
    BY Zenon, <1>1 DEF CarefulInv, MaskInv, Wanted
  <2>2. \A j, k \in Objects : j # k => mask'[j] \cap mask'[k] = {}
    <3>1. \A j \in Objects : mask'[j] \subseteq mask[j]
      BY Zenon, <1>3
    <3>2. \A j, k \in Objects : j # k => mask[j] \cap mask[k] = {}
      BY Zenon DEF CarefulInv, MaskInv
    <3> QED
      BY <3>1, <3>2
  <2>3. \A s \in Sigs : (\E k \in Objects : s \in mask'[k])
                          <=> (\E k \in Objects : s \in mask[k]) /\ s \notin call[main].sig
    <3>1. \A j, k \in Objects : j # k => mask[j] \cap mask[k] = {}
      BY Zenon DEF CarefulInv, MaskInv
    <3>2. call[main].sig \subseteq mask[i] /\ i \in Objects
      BY Zenon, <1>1
    <3> HIDE DEF i
    <3>3. \A k \in Objects : k # i => mask[k] \cap call[main].sig = {}
      BY Zenon, <3>1, <3>2
    <3>4. \A k \in Objects : mask'[k] = mask[k] \ call[main].sig
      BY Zenon, <1>3, <3>3
    <3> QED
      BY <3>4
  <2> QED
    BY Zenon, <1>2, <1>4, <2>1, <2>2, <2>3 DEF CarefulInv, MaskInv, Pending
<1>6. OwedInv'
  <2>1. \A s \in owed : s \in Pending(main) /\ \E k \in Objects : s \in caught[k] /\ s \in watch[k]
    BY Zenon, <1>1 DEF CarefulInv, OwedInv, MainOnly
  <2>2. \A k \in Objects : caught[k] # {} => caught[k] \subseteq watch'[k]
    BY ZenonT(30), <1>1, <1>3
  <2> QED
    BY Zenon, <1>2, <2>1, <2>2 DEF OwedInv, Pending
<1> QED
  BY Zenon, <1>4, <1>5, <1>6 DEF CarefulInv

LEMMA DropUnblockKeeps ==
  ASSUME TypeOK, CarefulInv, NEW t \in Threads, DropUnblock(t)
  PROVE  CarefulInv'
<1> DEFINE i == call[main].object
<1>1. /\ t = main /\ main \in Threads /\ call[main] \in Calls /\ call[main].op = "drop" /\ i \in Objects
      /\ watch[i] = NoFd /\ caught[i] = {}
      /\ \A j \in Objects : j # i =>
           /\ watch[j] = NoFd => caught[j] = {} /\ mask[j] = {}
           /\ watch[j] # NoFd => mask[j] = watch[j] /\ caught[j] = watch[j]
  BY Zenon, InMain DEF DropUnblock, ObjectInv
<1>2. /\ mask' = [mask EXCEPT ![i] = {}]
      /\ call' = [call EXCEPT ![main] = NoCall]
      /\ UNCHANGED <<watch, caught, started, owed>>
  BY Zenon, <1>1 DEF DropUnblock, Return, epollVars
<1>3. /\ blocked'[main] = blocked[main] \ mask[i] /\ Pending(main)' = Pending(main) \cap blocked'[main]
      /\ \A u \in Threads : u # main => blocked'[u] = blocked[u]
  <2>1. blocked[main] \ mask[i] \in SUBSET Sigs
    BY <1>1 DEF TypeOK
  <2>2. SetMask(main, blocked[main] \ mask[i])
    BY Zenon, <1>1 DEF DropUnblock
  <2>3. PICK m \in SUBSET Sigs : m = blocked[main] \ mask[i] /\ SetMask(main, m)
    BY Zenon, <2>1, <2>2
  <2>4. main \in Threads
    BY Zenon, <1>1
  <2>5. /\ blocked'[main] = m /\ Pending(main)' = Pending(main) \cap m
        /\ \A u \in Threads : u # main => blocked'[u] = blocked[u]
    BY Zenon, <2>3, <2>4, MaskSet
  <2> QED
    BY Zenon, <2>3, <2>5
<1>4. mask'[i] = {} /\ \A j \in Objects : j # i => mask'[j] = mask[j]
  BY <1>1, <1>2 DEF TypeOK
<1>5. /\ MainOnly' /\ (\A j \in Objects : ObjectInv(j)')
      /\ \A s \in Sigs : Wanted(s)' <=> \E k \in Objects : s \in mask'[k]
  <2>1. \A j \in Objects : \/ watch'[j] = NoFd /\ caught'[j] = {} /\ mask'[j] = {}
                           \/ watch'[j] # NoFd /\ mask'[j] = watch'[j] /\ caught'[j] = watch'[j]
    BY Zenon, <1>1, <1>2, <1>4
  <2> QED
    BY Zenon, <1>2, <2>1, Returned
<1>6. MaskInv'
  <2>1. \A s \in Sigs : s \in blocked[main] <=> \E k \in Objects : s \in mask[k]
    BY Zenon, <1>1 DEF CarefulInv, MaskInv, Wanted
  <2>2. \A j, k \in Objects : j # k => mask'[j] \cap mask'[k] = {}
    BY Zenon, <1>1, <1>4 DEF CarefulInv, MaskInv
  <2>3. \A s \in Sigs : (\E k \in Objects : s \in mask'[k])
                          <=> (\E k \in Objects : s \in mask[k]) /\ s \notin mask[i]
    BY Zenon, <1>1, <1>4 DEF CarefulInv, MaskInv
  <2>4. \A u \in started : blocked'[main] \subseteq blocked'[u]
    BY Zenon, <1>1, <1>3 DEF CarefulInv, MaskInv, TypeOK
  <2> QED
    BY Zenon, <1>2, <1>3, <1>5, <2>1, <2>2, <2>3, <2>4 DEF MaskInv
<1>7. OwedInv'
  <2>1. \A s \in owed : s \in Pending(main) /\ \E k \in Objects : s \in caught[k] /\ s \in watch[k]
    BY Zenon, <1>1 DEF CarefulInv, OwedInv, MainOnly
  <2>2. ASSUME NEW s \in owed PROVE s \in blocked'[main]
    <3>1. PICK k \in Objects : s \in caught[k]
      BY Zenon, <2>1
    <3>2. s \in blocked[main] /\ s \in mask[k]
      BY <3>1, CaughtBlocked DEF CarefulInv, MainOnly
    <3>3. s \notin mask[i]
      BY Zenon, <1>1, <3>1, <3>2 DEF CarefulInv, MaskInv
    <3> QED
      BY Zenon, <1>3, <3>2, <3>3
  <2> QED
    BY Zenon, <1>2, <1>3, <2>1, <2>2 DEF OwedInv
<1> QED
  BY Zenon, <1>5, <1>6, <1>7 DEF CarefulInv

LEMMA PendingReadKeeps ==
  ASSUME TypeOK, CarefulInv, NEW t \in Threads, NEW s \in Sigs, PendingRead(t, s)
  PROVE  CarefulInv'
<1> DEFINE i == call[main].object
<1>1. /\ t = main /\ main \in Threads /\ call[main] \in Calls /\ call[main].op = "pending" /\ i \in Objects
      /\ watch[i] # NoFd /\ call[main].got \subseteq watch[i]
  BY Zenon, InMain DEF PendingRead, ObjectInv
<1>2. /\ s \in Pending(main) /\ s \in watch[i]
      /\ call' = [call EXCEPT ![main].got = @ \cup {s}]
      /\ UNCHANGED <<mask, watch, caught, started, blocked, owed>>
  BY <1>1 DEF PendingRead, epollVars
<1>3. /\ call'[main] = [op |-> "pending", object |-> i, sig |-> call[main].sig,
                        got |-> call[main].got \cup {s}]
      /\ \A u \in Threads : u # main => call'[u] = call[u]
  BY Zenon, <1>1, <1>2 DEF TypeOK, Calls
<1>4. /\ call'[main].op = "pending" /\ call'[main].object = i
      /\ call'[main].got = call[main].got \cup {s}
  <2>1. PICK x, y : x = call[main].sig /\ y = call[main].got \cup {s}
    BY Zenon
  <2>2. call'[main] = [op |-> "pending", object |-> i, sig |-> x, got |-> y]
    BY Zenon, <1>3, <2>1
  <2>3. PICK o : o = call'[main]
    BY Zenon
  <2>4. o = [op |-> "pending", object |-> i, sig |-> x, got |-> y]
    BY Zenon, <2>2, <2>3
  <2>5. o.op = "pending" /\ o.object = i /\ o.sig = x /\ o.got = y
    BY Zenon, <2>4
  <2> QED
    BY Zenon, <2>1, <2>3, <2>5
<1>5. Pending(main)' \subseteq Pending(main) /\ Pending(main) \subseteq Pending(main)' \cup {s}
  BY <1>1 DEF PendingRead, Pending, TypeOK
<1>6. MainOnly'
  BY <1>1, <1>2, <1>3 DEF CarefulInv, MainOnly
<1>7. ASSUME NEW j \in Objects PROVE ObjectInv(j)'
  <2>1. /\ Doing("add", j)' = Doing("add", j) /\ Doing("remove", j)' = Doing("remove", j)
        /\ Doing("drop", j)' = Doing("drop", j) /\ Doing("pending", j)' = Doing("pending", j)
        /\ ~Doing("add", j) /\ ~Doing("remove", j)
    <3>1. call'[main].op = call[main].op /\ call'[main].object = call[main].object
      BY Zenon, <1>1, <1>4
    <3> QED
      BY Zenon, <1>1, <3>1 DEF Doing
  <2>2. Doing("pending", j) => j = i
    BY DEF Doing
  <2>3. call'[main].got = call[main].got \cup {s}
    BY Zenon, <1>4
  <2> QED
    <3>1. ObjectInv(j)
      BY DEF CarefulInv
    <3> QED
      BY <1>1, <1>2, <2>1, <2>2, <2>3, <3>1 DEF ObjectInv
<1>8. MaskInv'
  <2>1. \A r \in Sigs : Wanted(r)' <=> Wanted(r)
    BY <1>1, <1>2, <1>4 DEF Wanted
  <2> QED
    BY <1>2, <1>5, <2>1 DEF CarefulInv, MaskInv
<1>9. OwedInv'
  <2>1. call'[main] # NoCall /\ call'[main].got = call[main].got \cup {s}
    <3>1. NoCall.op = "none"
      BY DEF NoCall
    <3> QED
      BY <1>4, <3>1
  <2>2. \A r \in owed : r # s => (r \in Pending(main) => r \in Pending(main)')
    BY <1>5
  <2>3. \A k \in Objects : ~Adding(k)
    BY <1>1 DEF Adding
  <2> QED
    BY <1>2, <2>1, <2>2, <2>3 DEF CarefulInv, OwedInv
<1> QED
  BY <1>6, <1>7, <1>8, <1>9 DEF CarefulInv

LEMMA PendingReturnKeeps ==
  ASSUME TypeOK, CarefulInv, NEW t \in Threads, PendingReturn(t)
  PROVE  CarefulInv'
<1> DEFINE i == call[main].object
<1>1. /\ t = main /\ main \in Threads /\ call[main] \in Calls /\ call[main].op = "pending" /\ i \in Objects
      /\ watch[i] # NoFd /\ call[main].got \subseteq watch[i]
      /\ \A j \in Objects : \/ watch[j] = NoFd /\ caught[j] = {} /\ mask[j] = {}
                            \/ watch[j] # NoFd /\ mask[j] = watch[j] /\ caught[j] = watch[j]
  <2>1. t = main /\ main \in Threads /\ call[main] \in Calls /\ call[main].op = "pending" /\ i \in Objects
    BY Zenon, InMain DEF PendingReturn
  <2> QED
    BY Zenon, <2>1 DEF CarefulInv, ObjectInv, Doing
<1>2. /\ call' = [call EXCEPT ![main] = NoCall]
      /\ owed' = owed \ (call[main].got \ Pending(main))
      /\ UNCHANGED <<mask, watch, caught, started, blocked, pendingOf, pendingAll>>
  BY Zenon, <1>1 DEF PendingReturn, Return, epollVars, signalVars
<1>3. /\ MainOnly' /\ (\A j \in Objects : ObjectInv(j)')
      /\ \A s \in Sigs : Wanted(s)' <=> \E k \in Objects : s \in mask'[k]
  BY Zenon, <1>1, <1>2, Returned
<1>4. MaskInv'
  <2>1. \A s \in Sigs : s \in blocked[main] <=> \E k \in Objects : s \in mask[k]
    BY Zenon, <1>1 DEF CarefulInv, MaskInv, Wanted
  <2> QED
    BY Zenon, <1>2, <1>3, <2>1 DEF CarefulInv, MaskInv, Pending
<1>5. OwedInv'
  <2>1. watch[i] = caught[i]
    BY <1>1
  <2>2. ASSUME NEW s \in owed'
        PROVE  s \in Pending(main) /\ \E k \in Objects : s \in caught[k] /\ s \in watch[k]
    <3>1. s \in owed /\ (s \in call[main].got => s \in Pending(main))
      BY <1>2, <2>2
    <3>2. CASE s \in call[main].got
      BY Zenon, <1>1, <2>1, <3>1, <3>2
    <3>3. CASE s \notin call[main].got
      BY <1>1, <3>1, <3>3 DEF CarefulInv, OwedInv, Adding
    <3> QED
      BY Zenon, <3>2, <3>3
  <2> QED
    BY Zenon, <1>2, <2>2 DEF OwedInv, Pending
<1> QED
  BY Zenon, <1>3, <1>4, <1>5 DEF CarefulInv

------------------------------------------------------------------------------
LEMMA CarefulStep ==
  ASSUME NoFd \notin SUBSET Sigs, TypeOK, Careful, CarefulInv, [Next]_vars
  PROVE  CarefulInv'
<1>1. CASE UNCHANGED vars
  BY <1>1, QuietStep DEF vars, objectVars, epollVars, signalVars
<1>2. CASE \E i \in Objects : \/ RegisterHandle(i) \/ DeregisterHandle(i) \/ RegisterSource(i)
                              \/ ReregisterSource(i) \/ DeregisterSource(i) \/ PollReport(i)
  <2>1. UNCHANGED <<mask, call, watch, started, blocked, pendingOf, pendingAll, caught, owed>>
    BY Zenon, <1>2 DEF RegisterHandle, DeregisterHandle, RegisterSource, ReregisterSource, DeregisterSource,
       PollReport, objectVars, signalVars
  <2> QED
    BY <2>1, QuietStep
<1> QED
  BY Zenon, NextCases, <1>1, <1>2, AddFdKeeps, RemoveFdKeeps, DropUnblockKeeps, PendingReturnKeeps,
     PendingReadKeeps, ToThreadKeeps, NewKeeps, DropCloseKeeps, PendingBeginKeeps, AddBlockKeeps,
     RemoveUnblockKeeps, ToProcessKeeps, StartKeeps

LEMMA Begins ==
  ASSUME NEW running \in {"absent", "runs"}, InitAs(running)
  PROVE  IInv
<1>1. TypeOK
  BY DEF InitAs, TypeOK, Threads
<1>2. main \in Threads /\ call[main] = NoCall /\ call[main].op = "none"
  BY DEF InitAs, Threads, NoCall
<1>3. MainOnly /\ \A i \in Objects : ObjectInv(i)
  BY Zenon, <1>2 DEF InitAs, MainOnly, ObjectInv, Doing
<1>4. MaskInv /\ OwedInv
  BY Zenon, <1>2 DEF InitAs, MaskInv, OwedInv, Wanted, Pending
<1> QED
  BY <1>1, <1>3, <1>4 DEF IInv, CarefulInv

LEMMA Continues ==
  ASSUME NoFd \notin SUBSET Sigs, IInv, [Next]_vars
  PROVE  IInv'
  BY TypeStep, CarefulStep DEF IInv

LEMMA Inductive ==
  ASSUME NoFd \notin SUBSET Sigs
  PROVE  Spec => []IInv
<1>1. Init => IInv
  BY Begins DEF Init
<1>2. IInv /\ [Next]_vars => IInv'
  BY Continues
<1> QED
  BY <1>1, <1>2, PTL DEF Spec

\* In a careful program with any number of threads, objects and signals, a signal
\* raised after add has returned and before remove is called is not lost and does not
\* take its default action: it stays blocked and pending for an object that reads it
\* until pending() returns it.
THEOREM OwedKept ==
  ASSUME NoFd \notin SUBSET Sigs
  PROVE  Spec => []OwedNotLost
<1>1. IInv => OwedNotLost
  BY DEF IInv, CarefulInv, OwedInv, OwedNotLost
<1> QED
  BY <1>1, Inductive, PTL

\* Between two calls the main thread of a careful program blocks exactly the signals
\* that its objects catch, and each object reads what it catches: remove and the
\* destructor take back what add has done.
THEOREM MaskGivenBack ==
  ASSUME NoFd \notin SUBSET Sigs
  PROVE  Spec => []MaskRestored
<1>1. IInv => MaskRestored
  <2>1. SUFFICES ASSUME IInv, Careful, call[main] = NoCall
                 PROVE  /\ blocked[main] = UNION {caught[i] : i \in Objects}
                        /\ \A i \in Objects : caught[i] = IF watch[i] = NoFd THEN {} ELSE watch[i]
    BY DEF MaskRestored
  <2>2. /\ \A i \in Objects : caught[i] = mask[i] /\ caught[i] = IF watch[i] = NoFd THEN {} ELSE watch[i]
        /\ \A s \in Sigs : s \in blocked[main] <=> \E i \in Objects : s \in mask[i]
    BY Zenon, <2>1, Between DEF IInv
  <2>3. blocked[main] \subseteq Sigs /\ \A i \in Objects : caught[i] \subseteq Sigs
    BY <2>1 DEF IInv, TypeOK, Threads
  <2>4. \A s : s \in blocked[main] <=> \E i \in Objects : s \in caught[i]
    BY Zenon, <2>2, <2>3
  <2>5. blocked[main] = UNION {caught[i] : i \in Objects}
    BY Zenon, <2>4
  <2> QED
    BY Zenon, <2>2, <2>5
<1> QED
  BY <1>1, Inductive, PTL

------------------------------------------------------------------------------
\* The three platforms

PipeProofs == INSTANCE SelfPipeProofs
  WITH Objects <- Impls, process <- pipe_process, call <- pipe_call,
       caught <- pipe_caught, owed <- pipe_owed

\* Both instances of SelfPipe are one.
LEMMA SameInit == \A running : Pipe!InitAs(running) <=> PipeProofs!InitAs(running)
  BY Zenon DEF Pipe!InitAs, Pipe!NoCall, PipeProofs!InitAs, PipeProofs!NoCall

LEMMA SameNext == Pipe!Next <=> PipeProofs!Next
  BY Zenon DEF
    Pipe!Next, Pipe!CallGoesOn, Pipe!CallBegins, Pipe!Handler, Pipe!NewGlobal,
    Pipe!BsdDropGlobal, Pipe!DropClose, Pipe!BsdAddSigaction, Pipe!WinAddInsert,
    Pipe!BsdRemoveDefault, Pipe!WinRemoveUninstall, Pipe!PendingRead, Pipe!PendingReturn,
    Pipe!NewPipe, Pipe!BsdDropReset, Pipe!WinDropGlobal, Pipe!PendingBegin,
    Pipe!BsdAddInsert, Pipe!WinAddInstall, Pipe!RemoveErase, Pipe!Raise,
    Pipe!BsdHandlerChecks, Pipe!WinHandlerChecks, Pipe!HandlerWrites, Pipe!objectVars,
    Pipe!systemVars, Pipe!historyVars, Pipe!InQueue, Pipe!NoCall, Pipe!Running, Pipe!Bsd,
    Pipe!Locked, Pipe!HandlerLocked, Pipe!Free, Pipe!Turn, Pipe!May, Pipe!Begin, Pipe!In,
    Pipe!Return, Pipe!Catches, Pipe!GivesUp, Pipe!Uninstalled, Pipe!Inserted, Pipe!Erased,
    Pipe!Again, PipeProofs!Next, PipeProofs!CallGoesOn, PipeProofs!CallBegins,
    PipeProofs!Handler, PipeProofs!NewGlobal, PipeProofs!BsdDropGlobal,
    PipeProofs!DropClose, PipeProofs!BsdAddSigaction, PipeProofs!WinAddInsert,
    PipeProofs!BsdRemoveDefault, PipeProofs!WinRemoveUninstall, PipeProofs!PendingRead,
    PipeProofs!PendingReturn, PipeProofs!NewPipe, PipeProofs!BsdDropReset,
    PipeProofs!WinDropGlobal, PipeProofs!PendingBegin, PipeProofs!BsdAddInsert,
    PipeProofs!WinAddInstall, PipeProofs!RemoveErase, PipeProofs!Raise,
    PipeProofs!BsdHandlerChecks, PipeProofs!WinHandlerChecks, PipeProofs!HandlerWrites,
    PipeProofs!objectVars, PipeProofs!systemVars, PipeProofs!historyVars,
    PipeProofs!InQueue, PipeProofs!NoCall, PipeProofs!Running, PipeProofs!Bsd,
    PipeProofs!Locked, PipeProofs!HandlerLocked, PipeProofs!Free, PipeProofs!Turn,
    PipeProofs!May, PipeProofs!Begin, PipeProofs!In, PipeProofs!Return, PipeProofs!Catches,
    PipeProofs!GivesUp, PipeProofs!Uninstalled, PipeProofs!Inserted, PipeProofs!Erased,
    PipeProofs!Again

\* Only one of the programs runs, but both keep their invariants.
AnyInv == IInv /\ PipeProofs!IInv /\ PipeProofs!Sized

LEMMA AnyInductive ==
  ASSUME NoFd \notin SUBSET Sigs, NoObject \notin Impls, PipeCap \in Nat
  PROVE  AnySpec => []AnyInv
<1>1. AnyInit => AnyInv
  <2> SUFFICES ASSUME AnyInit PROVE AnyInv
    OBVIOUS
  <2>1. PICK running \in {"absent", "runs"} : InitAs(running)
    BY DEF AnyInit
  <2>2. PICK other \in {"absent", "runs"} : PipeProofs!InitAs(other)
    BY SameInit DEF AnyInit
  <2>3. IInv
    BY <2>1, Begins
  <2>4. PipeProofs!IInv
    BY <2>2, PipeProofs!Begins
  <2>5. PipeProofs!Sized
    BY <2>2, PipeProofs!SizedBegins
  <2> QED
    BY <2>3, <2>4, <2>5 DEF AnyInv
<1>2. AnyInv /\ [AnyNext]_<<vars, pipeVars>> => AnyInv'
  <2> SUFFICES ASSUME AnyInv, [AnyNext]_<<vars, pipeVars>> PROVE AnyInv'
    OBVIOUS
  <2>1. [Next]_vars
    BY DEF AnyNext
  <2>2. pipeVars' = pipeVars => PipeProofs!vars' = PipeProofs!vars
    BY DEF pipeVars, PipeProofs!vars, PipeProofs!objectVars, PipeProofs!systemVars,
           PipeProofs!historyVars
  <2>3. [PipeProofs!Next]_(PipeProofs!vars)
    BY <2>2, SameNext DEF AnyNext
  <2>4. IInv'
    BY <2>1, Continues DEF AnyInv
  <2>5. PipeProofs!IInv'
    BY <2>3, PipeProofs!Continues DEF AnyInv
  <2>6. PipeProofs!Sized'
    BY <2>3, PipeProofs!SizedContinues DEF AnyInv
  <2> QED
    BY <2>4, <2>5, <2>6 DEF AnyInv
<1> QED
  BY <1>1, <1>2, PTL DEF AnySpec

\* TypesOK of the run Signals: types on all three platforms, and a pipe of any size
\* never holds more than fits.
THEOREM TypesCorrect ==
  ASSUME NoFd \notin SUBSET Sigs, NoObject \notin Impls, PipeCap \in Nat
  PROVE  AnySpec => []TypesOK
<1>1. PipeProofs!TypeOK <=> Pipe!TypeOK
  BY Zenon DEF PipeProofs!TypeOK, Pipe!TypeOK
<1>2. AnyInv => TypesOK
  BY <1>1, PipeProofs!Typed DEF AnyInv, IInv, TypesOK
<1> QED
  BY <1>2, AnyInductive, PTL

\* HandlerSafe of the run Signals: no handler_routine follows a pointer to an object
\* that is gone.
THEOREM AnyHandlerSafe ==
  ASSUME NoFd \notin SUBSET Sigs, NoObject \notin Impls, PipeCap \in Nat
  PROVE  AnySpec => []HandlerSafe
<1>1. PipeProofs!HandlerSafe <=> Pipe!HandlerSafe
  BY DEF PipeProofs!HandlerSafe, PipeProofs!Bsd, PipeProofs!Free, PipeProofs!Locked,
         PipeProofs!HandlerLocked, Pipe!HandlerSafe, Pipe!Bsd, Pipe!Free, Pipe!Locked,
         Pipe!HandlerLocked
<1>2. AnyInv => HandlerSafe
  BY <1>1, PipeProofs!Safe DEF AnyInv, HandlerSafe
<1> QED
  BY <1>2, AnyInductive, PTL

\* CaughtNotLost of the run Signals: what handler_routine was called for reaches
\* pending(), unless the pipe is full.
THEOREM AnyCaughtKept ==
  ASSUME NoFd \notin SUBSET Sigs, NoObject \notin Impls, PipeCap \in Nat
  PROVE  AnySpec => []CaughtNotLost
<1>1. PipeProofs!CaughtNotLost <=> Pipe!CaughtNotLost
  BY DEF PipeProofs!CaughtNotLost, PipeProofs!InQueue, Pipe!CaughtNotLost, Pipe!InQueue
<1>2. AnyInv => CaughtNotLost
  BY <1>1, PipeProofs!Kept DEF AnyInv, CaughtNotLost
<1> QED
  BY <1>2, AnyInductive, PTL

\* HandlersRestored of the run Signals: remove and the destructor take back the
\* dispositions and the console handler that add has put in place.
THEOREM AnyRestored ==
  ASSUME NoFd \notin SUBSET Sigs, NoObject \notin Impls, PipeCap \in Nat
  PROVE  AnySpec => []HandlersRestored
<1>1. PipeProofs!HandlersRestored <=> Pipe!HandlersRestored
  BY Zenon DEF PipeProofs!HandlersRestored, PipeProofs!Bsd, PipeProofs!NoCall,
         Pipe!HandlersRestored, Pipe!Bsd, Pipe!NoCall
<1>2. AnyInv => HandlersRestored
  BY <1>1, PipeProofs!Restored DEF AnyInv, HandlersRestored
<1> QED
  BY <1>2, AnyInductive, PTL

==============================================================================
