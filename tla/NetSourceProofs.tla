--------------------------- MODULE NetSourceProofs ---------------------------
(***************************************************************************)
(* Proofs about NetSource for any number of objects and descriptors: who   *)
(* owns a descriptor, what an object remembers, and that no readiness is   *)
(* missed.                                                                 *)
(***************************************************************************)
EXTENDS NetSource, FiniteSetTheorems, TLAPS

\* What is known of a descriptor.  An AFD socket is armed for all it has not told,
\* ready or not: nothing arms it when it gets ready.
FdInv(fd) ==
  /\ fd \notin opened => watch[fd] = {} /\ held[fd] = NoClass
  /\ backend = "epoll" \/ fd \notin adrift => watch[fd] \cap Level(fd) \subseteq told[fd] \cup armed[fd]
  /\ backend = "afd" /\ held[fd] # NoClass => watch[fd] = {}
  /\ backend = "afd" /\ terminated = "no" /\ fd \notin adrift => watch[fd] \subseteq told[fd] \cup armed[fd]

\* What an object with a descriptor has to do with it.
ObjInv(o) ==
  LET fd == socket_[o]
  IN fd # NoFd =>
       /\ fd \in opened /\ held[fd] = NoClass
       /\ interests_[o] # NoReg =>
            /\ class[o] \in NetClasses
            /\ fd \notin adrift => registrations_[fd] = interests_[o]
            /\ backend = "epoll" /\ registrations_[fd] # NoReg => watch[fd] # {}
       /\ backend = "afd" /\ watch[fd] # {} => interests_[o] # NoReg /\ source_kind(o) = "socket"

\* No two objects have one descriptor, and none is lost.
OwnerInv ==
  /\ \A o, p \in Objects : Valid(o) /\ socket_[o] = socket_[p] => o = p
  /\ \A fd \in opened : held[fd] # NoClass \/ \E o \in Objects : socket_[o] = fd

\* Rearming ends the process for an entry that was removed by handle.
RearmSeen ==
  terminated = "rearm" =>
    \E o \in Objects : /\ Valid(o) /\ interests_[o] # NoReg
                       /\ socket_[o] \in adrift /\ registrations_[socket_[o]] = NoReg

IInv ==
  /\ TypeOK
  /\ \A fd \in Fds : FdInv(fd)
  /\ \A o \in Objects : ObjInv(o)
  /\ OwnerInv
  /\ RearmSeen

------------------------------------------------------------------------------
\* The steps of Next, by what they do

\* At most a unit is taken from a descriptor with data.
DataTaken ==
  UNCHANGED data \/ \E l \in Objects : Valid(l) /\ data[socket_[l]] > 0 /\ Taken(socket_[l])

Creates(o, fd, c, w) == Owns(One(o, fd), One(o, c), w) /\ DataTaken

CreatesTwo(o, fd, c, p, gd, d) ==
  /\ o # p /\ fd # gd
  /\ Owns(Two(o, fd, p, gd), Two(o, c, p, d), TRUE) /\ UNCHANGED data

Moves(o, p, c) == MoveTo(o, p, c) /\ class[o] \in {c, "TcpSocket"}

\* A constructor throws in a noexcept function.
Dies ==
  /\ terminated' \in {"unbound", "prepare_fd"}
  /\ UNCHANGED <<backend, objectVars, registrations_, backendVars, kernelVars, historyVars>>

\* Something is taken or sent, or nothing happens.
Uses ==
  /\ DataTaken
  /\ space' = space \/ \E o \in Objects : Valid(o) /\ space' = [space EXCEPT ![socket_[o]] = FALSE]
  /\ UNCHANGED <<backend, objectVars, registrations_, backendVars, opened, shut, historyVars, terminated>>

LEMMA NextCases ==
  ASSUME [Next]_vars
  PROVE  \/ UNCHANGED vars
         \/ \E o \in Objects, fd \in Fds, c \in Classes, w \in BOOLEAN : Creates(o, fd, c, w)
         \/ \E o, p \in Objects, fd, gd \in Fds, c, d \in Classes : CreatesTwo(o, fd, c, p, gd, d)
         \/ \E o, p \in Objects, c \in Classes : Moves(o, p, c)
         \/ \E o \in Objects : Destroy(o) \/ Deregister(o)
         \/ Dies
         \/ \E c \in UnixClasses : Adopt(c) \/ Release(c)
         \/ \E fd \in Fds : ProgramCloses(fd) \/ \E c \in UnixClasses : ProgramOpens(c, fd)
         \/ \E o \in Objects, interests \in InterestSets : RegisterSource(o, interests) \/ Reregister(o, interests)
         \/ \E fd \in Fds : DeregisterHandle(fd)
         \/ \E fd \in Fds, interests \in InterestSets : SourceFd_register(fd, interests)
         \/ Uses
         \/ \E o \in Objects, kind \in IoKinds : WouldBlock(o, kind)
         \/ \E o \in Objects, kinds \in SUBSET IoKinds : Valid(o) /\ Ends(socket_[o], kinds)
         \/ \E fd \in Fds : \/ Arrive(fd) \/ Drained(fd) \/ PollReport(fd)
                            \/ \E kinds \in SUBSET IoKinds : Ends(fd, kinds)
<1> USE DEF Classes, NetClasses, UnixClasses, IoKinds
<1>1. CASE UNCHANGED vars
  BY <1>1
<1>2. ASSUME NEW c \in Classes, NEW w \in BOOLEAN, make_socket(c, w)
      PROVE  \E o \in Objects, fd \in Fds : Creates(o, fd, c, w)
  BY <1>2 DEF make_socket, Creates, DataTaken
<1>3. ASSUME NEW c \in Classes, NEW d \in Classes, MakePair(c, d)
      PROVE  Dies \/ \E o, p \in Objects, fd, gd \in Fds : CreatesTwo(o, fd, c, p, gd, d)
  BY Zenon, <1>3 DEF MakePair, CreatesTwo, prepare_fd, Dies
<1>4. ASSUME NEW c \in Classes, Life(c)
      PROVE  (\E o \in Objects : Destroy(o)) \/ \E o, p \in Objects : Moves(o, p, c)
  BY <1>4 DEF Life, Is, Moves
<1>5. CASE Lives
  <2>1. CASE \/ TcpSocket_life \/ TcpStream_life \/ TcpListener_life \/ UdpSocket_life
             \/ \E c \in UnixClasses : Life(c)
    BY <1>4, <2>1 DEF TcpSocket_life, TcpStream_life, TcpListener_life, UdpSocket_life
  <2>2. CASE TcpSocket_bind \/ TcpSocket_connect
    BY <2>2 DEF TcpSocket_bind, TcpSocket_connect, Is, Moves
  <2>3. CASE pipe \/ UnixStream_pair \/ UnixDatagram_pair
    BY <1>3, <2>3 DEF pipe, UnixStream_pair, UnixDatagram_pair
  <2>4. CASE \/ new_v4 \/ new_v6 \/ TcpStream_adopt \/ TcpStream_connect \/ TcpListener_adopt
             \/ TcpListener_bind \/ UdpSocket_adopt \/ UdpSocket_bind
    BY Zenon, <1>2, <2>4 DEF new_v4, new_v6, TcpStream_adopt, TcpStream_connect, TcpListener_adopt,
       TcpListener_bind, UdpSocket_adopt, UdpSocket_bind
  <2>5. CASE \/ UnixStream_connect \/ UnixListener_bind \/ UnixDatagram_bind
             \/ unix_make_socket("UnixDatagram", TRUE)
    BY Zenon, <1>2, <2>5 DEF unix_make_socket, prepare_fd, Dies, UnixStream_connect, UnixListener_bind,
       UnixDatagram_bind
  <2>6. CASE \/ UnixStream_adopt \/ UnixListener_adopt \/ UnixDatagram_adopt
             \/ Sender_life \/ Receiver_life \/ UnixStream_life \/ UnixListener_life \/ UnixDatagram_life
    <3>1. \E c \in UnixClasses : Adopt(c) \/ Release(c) \/ Life(c)
      BY <2>6 DEF UnixStream_adopt, UnixListener_adopt, UnixDatagram_adopt, Sender_life, Receiver_life,
         UnixStream_life, UnixListener_life, UnixDatagram_life
    <3> QED
      BY Zenon, <2>1, <3>1
  <2> QED
    BY Zenon, <1>5, <2>1, <2>2, <2>3, <2>4, <2>5, <2>6 DEF Lives, UnixDatagram_unbound, Dies
<1>6. CASE RegistryCall
  BY <1>6 DEF RegistryCall
<1>7. ASSUME NEW o \in Objects, NEW c, Receive(o, c)
      PROVE  Uses \/ WouldBlock(o, "READABLE")
  BY <1>7 DEF Receive, Is, Uses, DataTaken
<1>8. ASSUME NEW o \in Objects, NEW c, Transmit(o, c)
      PROVE  Uses \/ WouldBlock(o, "WRITABLE")
  BY <1>8 DEF Transmit, Is, Uses, DataTaken
<1>9. ASSUME NEW l \in Objects, NEW c, NEW d \in Classes, Accept(l, c, d)
      PROVE  WouldBlock(l, "READABLE") \/ \E o \in Objects, fd \in Fds : Creates(o, fd, d, TRUE)
  BY Zenon, <1>9 DEF Accept, Is, Creates, DataTaken
<1>10. ASSUME NEW l \in Objects, NEW c, AcceptFails(l, c) PROVE Uses
  BY <1>10 DEF AcceptFails, Is, Uses, DataTaken
<1>11. ASSUME NEW o \in Objects, Takes(o)
       PROVE  \/ Uses \/ (\E kind \in IoKinds : WouldBlock(o, kind))
              \/ Dies \/ \E p \in Objects, fd \in Fds, d \in Classes : Creates(p, fd, d, TRUE)
  <2>1. \/ \E c \in Classes : Receive(o, c)
        \/ UdpSocket_peek_from(o) \/ TcpListener_accept(o) \/ UnixListener_accept(o)
    BY <1>11 DEF Takes, TcpStream_read, TcpStream_read_vectored, UdpSocket_recv, UdpSocket_recv_from,
       UdpSocket_recv_vectored_from, Receiver_read, UnixStream_read, UnixDatagram_recv_from,
       UnixDatagram_recv_vectored_from
  <2>2. CASE TcpListener_accept(o) \/ UnixListener_accept(o)
    BY Zenon, <1>9, <1>10, <2>2 DEF TcpListener_accept, UnixListener_accept, prepare_fd, Dies
  <2> QED
    BY Zenon, <1>7, <2>1, <2>2 DEF UdpSocket_peek_from
<1>12. ASSUME NEW o \in Objects, Gives(o)
       PROVE  \/ Uses \/ (\E kind \in IoKinds : WouldBlock(o, kind))
              \/ \E kinds \in SUBSET IoKinds : Valid(o) /\ Ends(socket_[o], kinds)
  <2>1. \/ \E c \in Classes : Transmit(o, c)
        \/ TcpStream_shutdown(o) \/ UnixStream_shutdown(o)
    BY <1>12 DEF Gives, TcpStream_write, TcpStream_write_vectored, UdpSocket_send, UdpSocket_send_to,
       UdpSocket_send_vectored_to, Sender_write, UnixStream_write, UnixDatagram_send, UnixDatagram_send_to
  <2>2. CASE TcpStream_shutdown(o) \/ UnixStream_shutdown(o)
    BY <2>2 DEF TcpStream_shutdown, UnixStream_shutdown, Shutdown, Is
  <2> QED
    BY <1>8, <2>1, <2>2
<1>13. ASSUME NEW fd \in Fds, Arrive(fd) \/ PeerCloses(fd) \/ Drained(fd) \/ PollReport(fd)
       PROVE  \/ Arrive(fd) \/ Drained(fd) \/ PollReport(fd)
              \/ \E kinds \in SUBSET IoKinds : Ends(fd, kinds)
  BY <1>13 DEF PeerCloses
<1> QED
  BY Zenon, <1>1, <1>5, <1>6, <1>11, <1>12, <1>13 DEF Next

------------------------------------------------------------------------------
\* What a step leaves alone

\* A descriptor's readiness depends on its data, its space and its end.
LEMMA LevelFalls ==
  ASSUME NEW fd \in Fds, TypeOK, data' \in [Fds -> 0..MaxData],
         data'[fd] <= data[fd], space'[fd] => space[fd], shut'[fd] \subseteq shut[fd]
  PROVE  Level(fd)' \subseteq Level(fd)
<1>1. data[fd] \in 0..MaxData /\ data'[fd] \in 0..MaxData /\ MaxData \in Nat
  BY NetAssumption DEF TypeOK
<1>2. data'[fd] > 0 => data[fd] > 0
  BY <1>1
<1>3. space'[fd] => space[fd]
  OBVIOUS
<1> QED
  BY <1>2, <1>3 DEF Level

LEMMA DataTakenKeeps ==
  ASSUME TypeOK, DataTaken
  PROVE  data' \in [Fds -> 0..MaxData] /\ \A fd \in Fds : data'[fd] <= data[fd]
<1>1. data \in [Fds -> 0..MaxData] /\ MaxData \in Nat /\ socket_ \in [Objects -> Fds \cup {NoFd}]
  BY NetAssumption DEF TypeOK
<1>2. CASE UNCHANGED data
  BY <1>1, <1>2
<1>3. CASE \E l \in Objects : Valid(l) /\ data[socket_[l]] > 0 /\ Taken(socket_[l])
  <2>1. PICK l \in Objects : Valid(l) /\ data[socket_[l]] > 0 /\ Taken(socket_[l])
    BY <1>3
  <2>2. socket_[l] \in Fds
    BY <1>1, <2>1 DEF Valid
  <2> QED
    BY <1>1, <2>1, <2>2 DEF Taken
<1> QED
  BY <1>2, <1>3 DEF DataTaken

\* What is known of a descriptor does not change when nothing about it does, or when
\* its readiness goes.
LEMMA FdFrame ==
  ASSUME NEW fd \in Fds, FdInv(fd), backend' = backend, terminated = "no",
         watch'[fd] = watch[fd], armed'[fd] = armed[fd], told'[fd] = told[fd], held'[fd] = held[fd],
         fd \in opened' <=> fd \in opened, fd \in adrift' <=> fd \in adrift,
         Level(fd)' \subseteq Level(fd)
  PROVE  FdInv(fd)'
BY Zenon DEF FdInv

\* Nor what is known of an object.
LEMMA ObjFrame ==
  ASSUME NEW o \in Objects, ObjInv(o), backend' = backend,
         class'[o] = class[o], socket_'[o] = socket_[o], interests_'[o] = interests_[o],
         Valid(o) => LET fd == socket_[o]
                     IN /\ registrations_'[fd] = registrations_[fd]
                        /\ watch'[fd] = watch[fd] /\ held'[fd] = held[fd]
                        /\ fd \in opened' <=> fd \in opened
                        /\ fd \in adrift' <=> fd \in adrift
  PROVE  ObjInv(o)'
<1> DEFINE fd == socket_[o]
<1>1. source_kind(o)' = source_kind(o)
  BY DEF source_kind
<1>2. CASE fd = NoFd
  BY <1>2 DEF ObjInv
<1>3. CASE fd # NoFd
  <2>1. /\ registrations_'[fd] = registrations_[fd]
        /\ watch'[fd] = watch[fd] /\ held'[fd] = held[fd]
        /\ fd \in opened' <=> fd \in opened
        /\ fd \in adrift' <=> fd \in adrift
    BY <1>3 DEF Valid
  <2> QED
    BY Zenon, <1>1, <1>3, <2>1 DEF ObjInv
<1> QED
  BY <1>2, <1>3

\* A step about the descriptors F and the objects P.
LEMMA Elsewhere ==
  ASSUME IInv, terminated = "no", UNCHANGED <<backend, registrations_>>,
         NEW F \in SUBSET Fds, NEW P \in SUBSET Objects,
         \A n \in Fds \ F : /\ watch'[n] = watch[n] /\ armed'[n] = armed[n] /\ told'[n] = told[n]
                            /\ held'[n] = held[n] /\ (n \in opened' <=> n \in opened)
                            /\ (n \in adrift' <=> n \in adrift) /\ Level(n)' \subseteq Level(n),
         \A q \in Objects \ P : /\ class'[q] = class[q] /\ socket_'[q] = socket_[q]
                                /\ interests_'[q] = interests_[q] /\ (Valid(q) => socket_[q] \notin F)
  PROVE  (\A n \in Fds \ F : FdInv(n)') /\ (\A q \in Objects \ P : ObjInv(q)')
<1>1. ASSUME NEW n \in Fds \ F PROVE FdInv(n)'
  <2>1. FdInv(n)
    BY DEF IInv
  <2>2. Level(n)' \subseteq Level(n)
    BY Zenon
  <2> QED
    BY Zenon, <2>1, <2>2, FdFrame
<1>2. ASSUME NEW q \in Objects \ P PROVE ObjInv(q)'
  <2>1. ObjInv(q) /\ socket_[q] \in Fds \cup {NoFd}
    BY DEF IInv, TypeOK
  <2>2. Valid(q) => LET n == socket_[q]
                    IN /\ registrations_'[n] = registrations_[n]
                       /\ watch'[n] = watch[n] /\ held'[n] = held[n]
                       /\ n \in opened' <=> n \in opened
                       /\ n \in adrift' <=> n \in adrift
    BY <2>1 DEF Valid
  <2> QED
    BY Zenon, <2>1, <2>2, ObjFrame
<1> QED
  BY <1>1, <1>2

\* A step about one descriptor and at most two objects.
LEMMA AllBut ==
  ASSUME IInv, terminated = "no", UNCHANGED <<backend, registrations_>>,
         NEW fd \in Fds \cup {NoFd}, NEW o \in Objects, NEW p \in Objects,
         \A n \in Fds : n # fd =>
           /\ watch'[n] = watch[n] /\ armed'[n] = armed[n] /\ told'[n] = told[n]
           /\ held'[n] = held[n] /\ (n \in opened' <=> n \in opened)
           /\ (n \in adrift' <=> n \in adrift) /\ Level(n)' \subseteq Level(n),
         \A q \in Objects : q # o /\ q # p =>
           /\ class'[q] = class[q] /\ socket_'[q] = socket_[q]
           /\ interests_'[q] = interests_[q] /\ (Valid(q) => socket_[q] # fd)
  PROVE  /\ \A n \in Fds : n # fd => FdInv(n)'
         /\ \A q \in Objects : q # o /\ q # p => ObjInv(q)'
<1>1. PICK F \in SUBSET Fds, P \in SUBSET Objects : F = {fd} \cap Fds /\ P = {o, p} \cap Objects
  BY Zenon
<1>2. ASSUME NEW n \in Fds \ F
      PROVE  /\ watch'[n] = watch[n] /\ armed'[n] = armed[n] /\ told'[n] = told[n]
             /\ held'[n] = held[n] /\ (n \in opened' <=> n \in opened)
             /\ (n \in adrift' <=> n \in adrift) /\ Level(n)' \subseteq Level(n)
  BY Zenon, <1>1
<1>3. ASSUME NEW q \in Objects \ P
      PROVE  /\ class'[q] = class[q] /\ socket_'[q] = socket_[q]
             /\ interests_'[q] = interests_[q] /\ (Valid(q) => socket_[q] \notin F)
  BY Zenon, <1>1
<1>4. (\A n \in Fds \ F : FdInv(n)') /\ (\A q \in Objects \ P : ObjInv(q)')
  BY Zenon, <1>2, <1>3, Elsewhere
<1> QED
  BY <1>1, <1>4

\* Steps about one descriptor that leave its owner alone
LEMMA OnlyAt ==
  ASSUME IInv, terminated = "no", TypeOK', NEW fd \in Fds,
         UNCHANGED <<backend, class, socket_, held, opened>>, RearmSeen',
         \A n \in Fds \ {fd} : /\ registrations_'[n] = registrations_[n]
                               /\ watch'[n] = watch[n] /\ armed'[n] = armed[n]
                               /\ told'[n] = told[n] /\ (n \in adrift' <=> n \in adrift)
                               /\ data'[n] = data[n] /\ space'[n] = space[n] /\ shut'[n] = shut[n],
         \A o \in Objects : socket_[o] # fd => interests_'[o] = interests_[o],
         FdInv(fd)', \A o \in Objects : socket_[o] = fd => ObjInv(o)'
  PROVE  IInv'
<1>1. \A n \in Fds : FdInv(n)'
  <2> TAKE n \in Fds
  <2>1. CASE n = fd
    BY <2>1
  <2>2. CASE n # fd
    <3>1. Level(n)' \subseteq Level(n)
      BY <2>2 DEF Level
    <3>2. FdInv(n)
      BY DEF IInv
    <3> QED
      BY Zenon, <2>2, <3>1, <3>2, FdFrame
  <2> QED
    BY <2>1, <2>2
<1>2. \A o \in Objects : ObjInv(o)'
  <2> TAKE o \in Objects
  <2>1. CASE socket_[o] = fd
    BY <2>1
  <2>2. CASE socket_[o] # fd
    <3>1. ObjInv(o) /\ socket_[o] \in Fds \cup {NoFd}
      BY DEF IInv, TypeOK
    <3>2. Valid(o) => LET n == socket_[o]
                      IN /\ registrations_'[n] = registrations_[n]
                         /\ watch'[n] = watch[n] /\ held'[n] = held[n]
                         /\ n \in opened' <=> n \in opened
                         /\ n \in adrift' <=> n \in adrift
      BY <2>2, <3>1 DEF Valid
    <3> QED
      BY Zenon, <2>2, <3>1, <3>2, ObjFrame
  <2> QED
    BY <2>1, <2>2
<1>3. OwnerInv'
  BY Zenon DEF IInv, OwnerInv, Valid
<1> QED
  BY <1>1, <1>2, <1>3 DEF IInv

------------------------------------------------------------------------------
\* Registry

\* The entry of fd, and what the backend watches for it, is set for an object that
\* then remembers it.
LEMMA RegisteredKeeps ==
  ASSUME IInv, terminated = "no", NEW o \in Objects, NEW fd \in Fds, fd = socket_[o],
         NEW interests \in InterestSets,
         UNCHANGED <<backend, class, socket_, held, opened, data, space, shut, terminated, told>>,
         registrations_' = [registrations_ EXCEPT ![fd] = interests],
         interests_' = [interests_ EXCEPT ![o] = IF class[o] \in NetClasses THEN interests ELSE NoReg],
         adrift' = adrift \ {fd},
         \/ /\ backend = "afd" /\ (source_kind(o) # "socket" \/ watch[fd] = {})
            /\ UNCHANGED <<watch, armed>>
         \/ /\ backend = "epoll" \/ source_kind(o) = "socket"
            /\ watch' = [watch EXCEPT ![fd] = interests]
            /\ armed' = [armed EXCEPT ![fd] = interests]
  PROVE  IInv'
<1>1. TypeOK /\ ObjInv(o) /\ OwnerInv /\ FdInv(fd) /\ backend \in {"epoll", "afd"}
  BY NetAssumption DEF IInv, TypeOK
<1>2. fd # NoFd /\ interests \subseteq IoKinds /\ interests # {} /\ interests # NoReg
  BY NetAssumption
<1>3. TypeOK'
  BY <1>1, <1>2 DEF TypeOK
<1>4. \A p \in Objects : socket_[p] = fd => p = o
  BY <1>1, <1>2 DEF OwnerInv, Valid
<1>5. /\ registrations_'[fd] = interests
      /\ interests_'[o] = IF class[o] \in NetClasses THEN interests ELSE NoReg
      /\ \A p \in Objects : p # o => interests_'[p] = interests_[p]
      /\ \A n \in Fds \ {fd} : /\ registrations_'[n] = registrations_[n]
                               /\ watch'[n] = watch[n] /\ armed'[n] = armed[n]
                               /\ told'[n] = told[n] /\ (n \in adrift' <=> n \in adrift)
                               /\ data'[n] = data[n] /\ space'[n] = space[n] /\ shut'[n] = shut[n]
  BY <1>1 DEF TypeOK
<1>6. \/ backend = "afd" /\ watch'[fd] = {}
      \/ /\ backend = "epoll" \/ source_kind(o) = "socket"
         /\ watch'[fd] = interests /\ armed'[fd] = interests
  <2>1. CASE backend = "afd" /\ (source_kind(o) # "socket" \/ watch[fd] = {}) /\ UNCHANGED <<watch, armed>>
    BY Zenon, <1>1, <1>2, <2>1 DEF ObjInv
  <2>2. CASE /\ backend = "epoll" \/ source_kind(o) = "socket"
             /\ watch' = [watch EXCEPT ![fd] = interests]
             /\ armed' = [armed EXCEPT ![fd] = interests]
    BY <1>1, <2>2 DEF TypeOK
  <2> QED
    BY <2>1, <2>2
<1>7. fd \in opened /\ held[fd] = NoClass
  BY Zenon, <1>1, <1>2 DEF ObjInv
<1>8. FdInv(fd)'
  BY Zenon, <1>6, <1>7 DEF FdInv
<1>9. ObjInv(o)'
  <2>1. source_kind(o)' = source_kind(o)
    BY DEF source_kind
  <2>2. source_kind(o) = "socket" => class[o] \in NetClasses
    BY DEF source_kind, NetClasses
  <2> QED
    BY Zenon, <1>1, <1>2, <1>5, <1>6, <1>7, <2>1, <2>2 DEF ObjInv
<1>10. RearmSeen' /\ UNCHANGED <<backend, class, socket_, held, opened>>
  BY DEF RearmSeen
<1>11. \A p \in Objects : socket_[p] # fd => interests_'[p] = interests_[p]
  BY Zenon, <1>5
<1>12. \A p \in Objects : socket_[p] = fd => ObjInv(p)'
  BY Zenon, <1>4, <1>9
<1> QED
  BY Zenon, <1>3, <1>5, <1>8, <1>10, <1>11, <1>12, OnlyAt

LEMMA RegisterKeeps ==
  ASSUME IInv, terminated = "no", NEW o \in Objects, NEW interests \in InterestSets,
         RegisterSource(o, interests)
  PROVE  IInv'
<1> DEFINE fd == socket_[o]
<1>1. fd \in Fds /\ backend \in {"epoll", "afd"}
  BY NetAssumption DEF RegisterSource, Valid, IInv, TypeOK
<1>2. /\ UNCHANGED <<backend, class, socket_, held, opened, data, space, shut, terminated, told>>
      /\ registrations_' = [registrations_ EXCEPT ![fd] = interests]
      /\ interests_' = [interests_ EXCEPT ![o] = IF class[o] \in NetClasses THEN interests ELSE NoReg]
      /\ adrift' = adrift \ {fd}
  BY Zenon DEF RegisterSource, SetEntry, Remember, kernelVars
<1>3. IF backend = "afd" /\ source_kind(o) # "socket" THEN UNCHANGED <<watch, armed>>
      ELSE watch' = [watch EXCEPT ![fd] = interests] /\ armed' = [armed EXCEPT ![fd] = interests]
  BY DEF RegisterSource, AddToBackend, Arm, backendVars
<1> QED
  BY Zenon, <1>1, <1>2, <1>3, RegisteredKeeps

\* An entry that changes without its object: what the object remembers may now differ.
LEMMA AdriftKeeps ==
  ASSUME IInv, terminated = "no", NEW fd \in Fds, NEW entry \in InterestSets \cup {NoReg},
         UNCHANGED <<backend, class, socket_, interests_, held, opened, data, space, shut, terminated, told>>,
         registrations_' = [registrations_ EXCEPT ![fd] = entry], Adrift(fd),
         watch' \in [Fds -> SUBSET IoKinds], armed' \in [Fds -> SUBSET IoKinds],
         \A n \in Fds \ {fd} : watch'[n] = watch[n] /\ armed'[n] = armed[n],
         fd \notin opened => watch'[fd] = {},
         \/ watch'[fd] = {}
         \/ watch'[fd] = watch[fd] /\ armed'[fd] = armed[fd]
         \/ watch'[fd] = armed'[fd] /\ backend = "epoll"
         \/ /\ backend = "afd" /\ watch[fd] # {}
            /\ \E o \in Objects : socket_[o] = fd,
         backend = "epoll" /\ entry # NoReg =>
           \/ watch'[fd] # {}
           \/ \A o \in Objects : socket_[o] = fd => interests_[o] = NoReg
  PROVE  IInv'
<1>1. TypeOK /\ OwnerInv /\ FdInv(fd) /\ backend \in {"epoll", "afd"} /\ fd # NoFd
  BY NetAssumption DEF IInv, TypeOK
<1>2. adrift' \subseteq Fds /\ adrift \subseteq adrift' /\ \A n \in Fds \ {fd} : n \in adrift' <=> n \in adrift
  BY <1>1 DEF Adrift, TypeOK
<1>3. TypeOK'
  BY <1>1, <1>2 DEF TypeOK
<1>4. registrations_'[fd] = entry /\ \A n \in Fds \ {fd} : registrations_'[n] = registrations_[n]
  BY <1>1 DEF TypeOK
<1>5. \A o \in Objects : socket_[o] = fd /\ interests_[o] # NoReg => fd \in adrift'
  BY DEF Adrift
<1>6. \A o \in Objects : socket_[o] = fd => ObjInv(o) /\ ObjInv(o)'
  <2> SUFFICES ASSUME NEW o \in Objects, socket_[o] = fd PROVE ObjInv(o) /\ ObjInv(o)'
    OBVIOUS
  <2>1. ObjInv(o)
    BY DEF IInv
  <2>2. source_kind(o)' = source_kind(o)
    BY DEF source_kind
  <2>3. backend = "afd" /\ watch'[fd] # {} => watch[fd] # {}
    BY Zenon
  <2> QED
    BY Zenon, <1>1, <1>4, <1>5, <2>1, <2>2, <2>3 DEF ObjInv
<1>7. FdInv(fd)'
  <2>1. Level(fd)' = Level(fd)
    BY Zenon DEF Level
  <2>2. CASE watch'[fd] = {}
    BY Zenon, <1>1, <2>2 DEF FdInv
  <2>3. CASE watch'[fd] = watch[fd] /\ armed'[fd] = armed[fd]
    BY Zenon, <1>1, <1>2, <2>1, <2>3 DEF FdInv
  <2>4. CASE watch'[fd] = armed'[fd] /\ backend = "epoll"
    BY Zenon, <1>1, <2>4 DEF FdInv
  <2>5. CASE backend = "afd" /\ watch[fd] # {} /\ \E o \in Objects : socket_[o] = fd
    <3>1. fd \in adrift' /\ fd \in opened
      BY Zenon, <1>1, <1>5, <1>6, <2>5 DEF ObjInv
    <3> QED
      BY Zenon, <1>1, <2>5, <3>1 DEF FdInv
  <2> QED
    BY Zenon, <2>2, <2>3, <2>4, <2>5
<1> QED
  BY Zenon, <1>2, <1>3, <1>4, <1>6, <1>7, OnlyAt DEF RearmSeen

LEMMA ReregisterKeeps ==
  ASSUME IInv, terminated = "no", NEW o \in Objects, NEW interests \in InterestSets,
         Reregister(o, interests)
  PROVE  IInv'
<1> DEFINE fd == socket_[o]
<1>1. TypeOK /\ ObjInv(o) /\ OwnerInv /\ fd \in Fds /\ fd # NoFd /\ backend \in {"epoll", "afd"}
  BY NetAssumption DEF Reregister, Valid, IInv, TypeOK
<1>2. /\ UNCHANGED <<backend, class, socket_, held, opened, data, space, shut, terminated, told>>
      /\ registrations_' = [registrations_ EXCEPT ![fd] = interests]
      /\ registrations_[fd] # NoReg
  BY Zenon DEF Reregister, SetEntry, kernelVars
<1>3. \A p \in Objects : socket_[p] = fd => p = o
  BY Zenon, <1>1 DEF OwnerInv, Valid
<1>4. fd \in opened
  BY Zenon, <1>1 DEF ObjInv
<1>5. CASE UpdateFails(fd) /\ Adrift(fd) /\ UNCHANGED <<watch, armed, interests_>>
  <2>1. watch[fd] = {} /\ interests_[o] = NoReg
    BY Zenon, <1>1, <1>2, <1>5 DEF UpdateFails, ObjInv
  <2>2. watch' \in [Fds -> SUBSET IoKinds] /\ armed' \in [Fds -> SUBSET IoKinds]
    BY <1>1, <1>5 DEF TypeOK
  <2> QED
    BY Zenon, <1>1, <1>2, <1>3, <1>4, <1>5, <2>1, <2>2, AdriftKeeps
<1>6. CASE UpdateThrows(fd, source_kind(o), interests) /\ Adrift(fd) /\ UNCHANGED interests_
  <2>1. PICK kinds \in SUBSET interests : armed' = [armed EXCEPT ![fd] = kinds]
    BY Zenon, <1>6 DEF UpdateThrows
  <2>2. watch' = [watch EXCEPT ![fd] = interests] /\ backend = "afd" /\ watch[fd] # {}
    BY <1>6 DEF UpdateThrows, MayThrow
  <2>3. /\ watch' \in [Fds -> SUBSET IoKinds] /\ armed' \in [Fds -> SUBSET IoKinds]
        /\ \A n \in Fds \ {fd} : watch'[n] = watch[n] /\ armed'[n] = armed[n]
    BY <1>1, <2>1, <2>2, NetAssumption DEF TypeOK
  <2>4. backend # "epoll"
    BY <2>2
  <2> QED
    BY Zenon, <1>1, <1>2, <1>4, <1>6, <2>2, <2>3, <2>4, AdriftKeeps
<1>7. CASE /\ ~UpdateFails(fd) /\ UpdateBackend(fd, source_kind(o), interests)
           /\ Remember(o, interests) /\ adrift' = adrift \ {fd}
  <2>1. interests_' = [interests_ EXCEPT ![o] = IF class[o] \in NetClasses THEN interests ELSE NoReg]
    BY Zenon, <1>7 DEF Remember
  <2>2. IF backend = "afd" /\ (source_kind(o) # "socket" \/ watch[fd] = {}) THEN UNCHANGED <<watch, armed>>
        ELSE watch' = [watch EXCEPT ![fd] = interests] /\ armed' = [armed EXCEPT ![fd] = interests]
    BY <1>7 DEF UpdateBackend, Arm, backendVars
  <2> QED
    BY Zenon, <1>1, <1>2, <1>7, <2>1, <2>2, RegisteredKeeps
<1> QED
  BY Zenon, <1>5, <1>6, <1>7 DEF Reregister, backendVars

LEMMA DeregisterKeeps ==
  ASSUME IInv, terminated = "no", NEW o \in Objects, Deregister(o)
  PROVE  IInv'
<1> DEFINE fd == socket_[o]
<1>1. TypeOK /\ OwnerInv /\ ObjInv(o) /\ fd \in Fds /\ fd # NoFd /\ FdInv(fd)
  BY NetAssumption DEF Deregister, Valid, IInv, TypeOK
<1>2. /\ UNCHANGED <<backend, class, socket_, held, opened, data, space, shut, terminated, told>>
      /\ registrations_' = [registrations_ EXCEPT ![fd] = NoReg]
      /\ watch' = [watch EXCEPT ![fd] = {}] /\ armed' = [armed EXCEPT ![fd] = {}]
      /\ interests_' = [interests_ EXCEPT ![o] = NoReg]
      /\ adrift' = adrift \ {fd}
  BY Zenon DEF Deregister, Removed, SetEntry, Arm, Remember, kernelVars
<1>3. TypeOK'
  BY <1>1, <1>2 DEF TypeOK
<1>4. \A p \in Objects : socket_[p] = fd => p = o
  BY Zenon, <1>1 DEF OwnerInv, Valid
<1>5. /\ watch'[fd] = {} /\ interests_'[o] = NoReg
      /\ \A p \in Objects : p # o => interests_'[p] = interests_[p]
      /\ \A n \in Fds \ {fd} : /\ registrations_'[n] = registrations_[n]
                               /\ watch'[n] = watch[n] /\ armed'[n] = armed[n]
                               /\ told'[n] = told[n] /\ (n \in adrift' <=> n \in adrift)
                               /\ data'[n] = data[n] /\ space'[n] = space[n] /\ shut'[n] = shut[n]
  BY <1>1, <1>2 DEF TypeOK
<1>6. fd \in opened /\ held[fd] = NoClass
  BY Zenon, <1>1 DEF ObjInv
<1>7. FdInv(fd)' /\ ObjInv(o)'
  BY Zenon, <1>2, <1>5, <1>6 DEF FdInv, ObjInv
<1>8. RearmSeen' /\ UNCHANGED <<backend, class, socket_, held, opened>>
  BY <1>2 DEF RearmSeen
<1>9. \A p \in Objects : socket_[p] # fd => interests_'[p] = interests_[p]
  BY Zenon, <1>5
<1>10. \A p \in Objects : socket_[p] = fd => ObjInv(p)'
  BY Zenon, <1>4, <1>7
<1> QED
  BY Zenon, <1>1, <1>2, <1>3, <1>5, <1>7, <1>8, <1>9, <1>10, OnlyAt

LEMMA HandleKeeps ==
  ASSUME IInv, terminated = "no", NEW fd \in Fds,
         DeregisterHandle(fd) \/ \E interests \in InterestSets : SourceFd_register(fd, interests)
  PROVE  IInv'
<1>1. TypeOK /\ NoReg \notin InterestSets
  BY NetAssumption DEF IInv
<1>2. CASE DeregisterHandle(fd)
  <2>1. /\ UNCHANGED <<backend, class, socket_, interests_, held, opened, data, space, shut, terminated, told>>
        /\ registrations_' = [registrations_ EXCEPT ![fd] = NoReg] /\ Adrift(fd)
        /\ watch' = [watch EXCEPT ![fd] = {}] /\ armed' = [armed EXCEPT ![fd] = {}]
    BY Zenon, <1>2 DEF DeregisterHandle, Removed, SetEntry, Arm, objectVars, kernelVars
  <2>2. /\ watch' \in [Fds -> SUBSET IoKinds] /\ armed' \in [Fds -> SUBSET IoKinds]
        /\ \A n \in Fds \ {fd} : watch'[n] = watch[n] /\ armed'[n] = armed[n]
        /\ watch'[fd] = {}
    BY <1>1, <2>1 DEF TypeOK
  <2> QED
    BY Zenon, <2>1, <2>2, AdriftKeeps
<1>3. ASSUME NEW interests \in InterestSets, SourceFd_register(fd, interests) PROVE IInv'
  <2>1. /\ UNCHANGED <<backend, class, socket_, interests_, held, opened, data, space, shut, terminated, told>>
        /\ registrations_' = [registrations_ EXCEPT ![fd] = interests] /\ Adrift(fd)
        /\ watch' = [watch EXCEPT ![fd] = interests] /\ armed' = [armed EXCEPT ![fd] = interests]
        /\ backend = "epoll" /\ fd \in opened
    BY <1>3 DEF SourceFd_register, SetEntry, AddToBackend, Arm, objectVars, kernelVars
  <2>2. /\ watch' \in [Fds -> SUBSET IoKinds] /\ armed' \in [Fds -> SUBSET IoKinds]
        /\ \A n \in Fds \ {fd} : watch'[n] = watch[n] /\ armed'[n] = armed[n]
        /\ watch'[fd] = interests /\ armed'[fd] = interests /\ interests # {}
    BY <1>1, <2>1, NetAssumption DEF TypeOK
  <2> QED
    BY Zenon, <2>1, <2>2, AdriftKeeps
<1> QED
  BY Zenon, <1>2, <1>3

------------------------------------------------------------------------------
\* Operations and readiness

\* A would-block leaves what is armed, or arms all that is watched: what it exhausts
\* is told anew.
LEMMA WouldBlockKeeps ==
  ASSUME IInv, terminated = "no", NEW o \in Objects, NEW kind \in IoKinds, WouldBlock(o, kind)
  PROVE  IInv'
<1> DEFINE fd == socket_[o]
<1>1. TypeOK /\ ObjInv(o) /\ OwnerInv
  BY DEF IInv
<1>2. fd \in Fds /\ fd # NoFd /\ kind \notin Level(fd) /\ backend \in {"epoll", "afd"}
  BY <1>1, NetAssumption DEF WouldBlock, Valid, TypeOK
<1>3. /\ UNCHANGED <<backend, class, socket_, interests_, held, opened, data, space, shut>>
      /\ told' = [told EXCEPT ![fd] = @ \ {kind}]
  BY Zenon DEF WouldBlock, objectVars, kernelVars
<1>4. FdInv(fd) /\ fd \in opened /\ held[fd] = NoClass
  BY Zenon, <1>1, <1>2 DEF IInv, ObjInv
<1>5. told'[fd] = told[fd] \ {kind} /\ \A n \in Fds \ {fd} : told'[n] = told[n]
  BY <1>1, <1>2, <1>3 DEF TypeOK
<1>6. told' \in [Fds -> SUBSET IoKinds]
  BY <1>1, <1>2, <1>3 DEF TypeOK
<1>7. Level(fd)' = Level(fd)
  BY Zenon, <1>3 DEF Level
<1>8. CASE /\ UNCHANGED <<registrations_, watch, armed, adrift>>
           /\ terminated' \in {"no", "rearm", "afd"}
           /\ terminated' = "no" => interests_[o] = NoReg
           /\ terminated' = "rearm" => interests_[o] # NoReg /\ (registrations_[fd] = NoReg \/ UpdateFails(fd))
           /\ terminated' = "afd" => interests_[o] # NoReg
  <2>1. TypeOK'
    BY <1>1, <1>3, <1>6, <1>8 DEF TypeOK
  <2>2. \A p \in Objects : socket_[p] = fd => ObjInv(p)'
    <3> SUFFICES ASSUME NEW p \in Objects, socket_[p] = fd PROVE ObjInv(p)'
      OBVIOUS
    <3>1. ObjInv(p)
      BY DEF IInv
    <3> QED
      BY Zenon, <1>3, <1>8, <3>1, ObjFrame
  <2>3. terminated' = "no" => (backend = "afd" => watch[fd] = {})
    BY Zenon, <1>1, <1>2, <1>8 DEF ObjInv
  <2>4. watch'[fd] \cap Level(fd)' \subseteq told'[fd] \cup armed'[fd] \/ (backend = "afd" /\ fd \in adrift)
    BY Zenon, <1>2, <1>4, <1>5, <1>7, <1>8 DEF FdInv
  <2>5. FdInv(fd)'
    BY Zenon, <1>2, <1>3, <1>4, <1>8, <2>3, <2>4 DEF FdInv
  <2>6. RearmSeen'
    <3> SUFFICES ASSUME terminated' = "rearm"
                 PROVE  /\ Valid(o)' /\ interests_'[o] # NoReg
                        /\ socket_'[o] \in adrift' /\ registrations_'[socket_'[o]] = NoReg
      BY Zenon DEF RearmSeen
    <3>1. interests_[o] # NoReg /\ registrations_[fd] = NoReg
      BY Zenon, <1>1, <1>2, <1>8 DEF ObjInv, UpdateFails
    <3>2. fd \in adrift
      BY Zenon, <1>1, <1>2, <3>1 DEF ObjInv
    <3> QED
      BY Zenon, <1>2, <1>3, <1>8, <3>1, <3>2 DEF Valid
  <2> QED
    BY Zenon, <1>2, <1>3, <1>5, <1>8, <2>1, <2>2, <2>5, <2>6, OnlyAt
<1>9. CASE /\ interests_[o] # NoReg /\ terminated' = "no"
           /\ SetEntry(fd, interests_[o]) /\ UpdateBackend(fd, source_kind(o), interests_[o])
           /\ adrift' = adrift \ {fd}
  <2>1. /\ interests_[o] \in InterestSets /\ class[o] \in NetClasses
        /\ interests_[o] # {} /\ interests_[o] \subseteq IoKinds
    BY ZenonT(30), <1>1, <1>2, <1>9, NetAssumption DEF TypeOK, ObjInv
  <2>2. IF backend = "afd" /\ (source_kind(o) # "socket" \/ watch[fd] = {}) THEN UNCHANGED <<watch, armed>>
        ELSE watch' = [watch EXCEPT ![fd] = interests_[o]] /\ armed' = [armed EXCEPT ![fd] = interests_[o]]
    BY Zenon, <1>9 DEF UpdateBackend, Arm, backendVars
  <2>3. \/ backend = "afd" /\ watch'[fd] = {}
        \/ /\ backend = "epoll" \/ source_kind(o) = "socket"
           /\ watch'[fd] = interests_[o] /\ armed'[fd] = interests_[o]
    <3>1. CASE backend = "afd" /\ (source_kind(o) # "socket" \/ watch[fd] = {})
      BY Zenon, <1>1, <1>2, <2>2, <3>1 DEF ObjInv
    <3>2. CASE ~(backend = "afd" /\ (source_kind(o) # "socket" \/ watch[fd] = {}))
      BY <1>1, <1>2, <2>2, <3>2 DEF TypeOK
    <3> QED
      BY <3>1, <3>2
  <2>4. /\ registrations_'[fd] = interests_[o]
        /\ \A n \in Fds \ {fd} : /\ registrations_'[n] = registrations_[n]
                                 /\ watch'[n] = watch[n] /\ armed'[n] = armed[n]
                                 /\ told'[n] = told[n] /\ (n \in adrift' <=> n \in adrift)
                                 /\ data'[n] = data[n] /\ space'[n] = space[n] /\ shut'[n] = shut[n]
    BY SMTT(30), <1>1, <1>2, <1>3, <1>5, <1>9, <2>2 DEF TypeOK, SetEntry
  <2>5. TypeOK'
    BY <1>1, <1>2, <1>3, <1>6, <1>9, <2>1, <2>2 DEF TypeOK, SetEntry
  <2>6. FdInv(fd)'
    BY Zenon, <1>3, <1>4, <2>3 DEF FdInv
  <2>7. source_kind(o)' = source_kind(o)
    BY Zenon, <1>3 DEF source_kind
  <2>8. ObjInv(o)'
    BY Zenon, <1>1, <1>2, <1>3, <1>4, <1>9, <2>1, <2>3, <2>4, <2>7 DEF ObjInv
  <2>9. \A p \in Objects : socket_[p] = fd => ObjInv(p)'
    BY Zenon, <1>1, <1>2, <2>8 DEF OwnerInv, Valid
  <2>10. RearmSeen'
    BY <1>9 DEF RearmSeen
  <2> QED
    BY Zenon, <1>2, <1>3, <2>4, <2>5, <2>6, <2>9, <2>10, OnlyAt
<1> QED
  BY Zenon, <1>8, <1>9 DEF WouldBlock, rearm_after_would_block, backendVars

\* Readiness that arises is armed: by the edge with epoll, with AFD it was before.
LEMMA RisesKeeps ==
  ASSUME IInv, terminated = "no", NEW fd \in Fds, NEW kinds \in SUBSET IoKinds, Rises(fd, kinds),
         data' \in [Fds -> 0..MaxData], space' \in [Fds -> BOOLEAN], shut' \in [Fds -> SUBSET IoKinds],
         \A n \in Fds \ {fd} : data'[n] = data[n] /\ space'[n] = space[n] /\ shut'[n] = shut[n],
         Level(fd)' \subseteq Level(fd) \cup kinds
  PROVE  IInv'
<1>1. TypeOK /\ backend \in {"epoll", "afd"} /\ FdInv(fd)
  BY NetAssumption DEF IInv, TypeOK
<1>2. /\ UNCHANGED <<backend, class, socket_, interests_, held, told, adrift, registrations_, watch,
                     opened, terminated>>
      /\ armed' = IF backend = "epoll" THEN [armed EXCEPT ![fd] = @ \cup (watch[fd] \cap kinds)] ELSE armed
  BY Zenon DEF Rises, objectVars, historyVars
<1>3. /\ TypeOK'
      /\ armed'[fd] = IF backend = "epoll" THEN armed[fd] \cup (watch[fd] \cap kinds) ELSE armed[fd]
      /\ \A n \in Fds \ {fd} : armed'[n] = armed[n]
  BY <1>1, <1>2 DEF TypeOK
<1>4. FdInv(fd)'
  <2>1. CASE backend = "epoll"
    <3>1. armed'[fd] = armed[fd] \cup (watch[fd] \cap kinds)
      BY Zenon, <1>3, <2>1
    <3>2. watch[fd] \cap Level(fd)' \subseteq told[fd] \cup armed'[fd]
      BY Zenon, <1>1, <2>1, <3>1 DEF FdInv
    <3>3. fd \notin opened => watch[fd] = {} /\ held[fd] = NoClass
      BY Zenon, <1>1 DEF FdInv
    <3> QED
      BY Zenon, <1>2, <2>1, <3>2, <3>3 DEF FdInv
  <2>2. CASE backend = "afd"
    <3>1. armed'[fd] = armed[fd]
      BY Zenon, <1>3, <2>2
    <3> QED
      BY Zenon, <1>1, <1>2, <2>2, <3>1 DEF FdInv
  <2> QED
    BY <1>1, <2>1, <2>2
<1>5. \A o \in Objects : socket_[o] = fd => ObjInv(o)'
  <2> SUFFICES ASSUME NEW o \in Objects, socket_[o] = fd PROVE ObjInv(o)'
    OBVIOUS
  <2>1. ObjInv(o)
    BY DEF IInv
  <2> QED
    BY Zenon, <1>2, <2>1, ObjFrame
<1>6. RearmSeen'
  BY <1>2 DEF RearmSeen
<1> QED
  BY Zenon, <1>2, <1>3, <1>4, <1>5, <1>6, OnlyAt

LEMMA ArrivesKeeps ==
  ASSUME IInv, terminated = "no", NEW fd \in Fds,
         Arrive(fd) \/ Drained(fd) \/ \E kinds \in SUBSET IoKinds : Ends(fd, kinds)
  PROVE  IInv'
<1>1. TypeOK /\ MaxData \in Nat
  BY NetAssumption DEF IInv
<1>2. CASE Arrive(fd)
  <2>1. /\ data' = [data EXCEPT ![fd] = @ + 1] /\ data[fd] < MaxData
        /\ space' = space /\ shut' = shut /\ Rises(fd, {"READABLE"})
    BY Zenon, <1>2 DEF Arrive
  <2>2. /\ data' \in [Fds -> 0..MaxData] /\ space' \in [Fds -> BOOLEAN]
        /\ shut' \in [Fds -> SUBSET IoKinds] /\ \A n \in Fds \ {fd} : data'[n] = data[n]
    BY <1>1, <2>1 DEF TypeOK
  <2>3. Level(fd)' \subseteq Level(fd) \cup {"READABLE"}
    BY Zenon, <2>1 DEF Level, IoKinds
  <2> QED
    BY <2>1, <2>2, <2>3, RisesKeeps DEF IoKinds
<1>3. CASE Drained(fd)
  <2>1. /\ space' = [space EXCEPT ![fd] = TRUE]
        /\ data' = data /\ shut' = shut /\ Rises(fd, {"WRITABLE"})
    BY <1>3 DEF Drained
  <2>2. /\ data' \in [Fds -> 0..MaxData] /\ space' \in [Fds -> BOOLEAN]
        /\ shut' \in [Fds -> SUBSET IoKinds] /\ \A n \in Fds \ {fd} : space'[n] = space[n]
    BY <1>1, <2>1 DEF TypeOK
  <2>3. Level(fd)' \subseteq Level(fd) \cup {"WRITABLE"}
    BY Zenon, <2>1 DEF Level, IoKinds
  <2> QED
    BY Zenon, <2>1, <2>2, <2>3, RisesKeeps DEF IoKinds
<1>4. ASSUME NEW kinds \in SUBSET IoKinds, Ends(fd, kinds) PROVE IInv'
  <2>1. /\ shut' = [shut EXCEPT ![fd] = @ \cup kinds]
        /\ data' = data /\ space' = space /\ Rises(fd, kinds)
    BY <1>4 DEF Ends
  <2>2. /\ data' \in [Fds -> 0..MaxData] /\ space' \in [Fds -> BOOLEAN]
        /\ shut' \in [Fds -> SUBSET IoKinds] /\ shut'[fd] = shut[fd] \cup kinds
        /\ \A n \in Fds \ {fd} : shut'[n] = shut[n]
    BY <1>1, <2>1 DEF TypeOK
  <2>3. Level(fd)' \subseteq Level(fd) \cup kinds
    BY <2>1, <2>2 DEF Level
  <2> QED
    BY <2>1, <2>2, <2>3, RisesKeeps
<1> QED
  BY <1>2, <1>3, <1>4

LEMMA PollReportKeeps ==
  ASSUME IInv, terminated = "no", NEW fd \in Fds, PollReport(fd)
  PROVE  IInv'
<1> DEFINE kinds == IF backend = "epoll" THEN watch[fd] \cap Level(fd) ELSE armed[fd] \cap Level(fd)
<1>1. TypeOK /\ backend \in {"epoll", "afd"} /\ FdInv(fd)
  BY NetAssumption DEF IInv, TypeOK
<1>2. /\ UNCHANGED <<backend, class, socket_, interests_, held, registrations_, watch,
                     opened, data, space, shut, adrift, terminated>>
      /\ armed' = [armed EXCEPT ![fd] = IF backend = "epoll" THEN {} ELSE @ \ kinds]
      /\ told' = [told EXCEPT ![fd] = @ \cup kinds]
  BY Zenon DEF PollReport, objectVars, kernelVars
<1>3. kinds \subseteq IoKinds
  BY <1>1 DEF TypeOK
<1>4. /\ TypeOK'
      /\ armed'[fd] = IF backend = "epoll" THEN {} ELSE armed[fd] \ kinds
      /\ told'[fd] = told[fd] \cup kinds
      /\ \A n \in Fds \ {fd} : armed'[n] = armed[n] /\ told'[n] = told[n]
  <2> HIDE DEF kinds
  <2> QED
    BY <1>1, <1>2, <1>3 DEF TypeOK
<1>5. FdInv(fd)'
  <2>1. Level(fd)' = Level(fd)
    BY Zenon, <1>2 DEF Level
  <2>2. CASE backend = "epoll"
    <3>1. watch[fd] \cap Level(fd) \subseteq told'[fd]
      BY Zenon, <1>4, <2>2
    <3> QED
      BY Zenon, <1>1, <1>2, <2>1, <2>2, <3>1 DEF FdInv
  <2>3. CASE backend = "afd"
    <3>1. armed'[fd] = armed[fd] \ kinds /\ told'[fd] = told[fd] \cup kinds
      BY Zenon, <1>4, <2>3
    <3>2. told[fd] \cup armed[fd] \subseteq told'[fd] \cup armed'[fd]
      <4> HIDE DEF kinds
      <4> QED
        BY Zenon, <3>1
    <3> HIDE DEF kinds
    <3> QED
      BY Zenon, <1>1, <1>2, <2>1, <2>3, <3>2 DEF FdInv
  <2> QED
    BY Zenon, <1>1, <2>2, <2>3
<1>6. \A o \in Objects : socket_[o] = fd => ObjInv(o)'
  <2> SUFFICES ASSUME NEW o \in Objects, socket_[o] = fd PROVE ObjInv(o)'
    OBVIOUS
  <2>1. ObjInv(o)
    BY Zenon DEF IInv
  <2> QED
    BY Zenon, <1>2, <2>1, ObjFrame
<1>7. RearmSeen'
  BY <1>2 DEF RearmSeen
<1> QED
  BY Zenon, <1>2, <1>4, <1>5, <1>6, <1>7, OnlyAt

LEMMA UsesKeeps ==
  ASSUME IInv, terminated = "no", Uses \/ Dies \/ UNCHANGED vars
  PROVE  IInv'
<1>1. TypeOK /\ OwnerInv
  BY Zenon DEF IInv
<1>2. /\ UNCHANGED <<backend, class, socket_, interests_, held, told, adrift, registrations_, watch, armed,
                     opened, shut>>
      /\ terminated' \in {"no", "unbound", "prepare_fd"} /\ DataTaken
      /\ space' = space \/ \E o \in Objects : Valid(o) /\ space' = [space EXCEPT ![socket_[o]] = FALSE]
  BY ZenonT(30) DEF Uses, Dies, DataTaken, vars, objectVars, backendVars, kernelVars, historyVars
<1>3. data' \in [Fds -> 0..MaxData] /\ \A fd \in Fds : data'[fd] <= data[fd]
  BY Zenon, <1>1, <1>2, DataTakenKeeps
<1>4. space' \in [Fds -> BOOLEAN] /\ \A fd \in Fds : space'[fd] => space[fd]
  BY Zenon, <1>1, <1>2 DEF TypeOK
<1>5. TypeOK'
  BY <1>1, <1>2, <1>3, <1>4 DEF TypeOK
<1>6. ASSUME NEW n \in Fds PROVE FdInv(n)'
  <2>1. FdInv(n)
    BY DEF IInv
  <2>2. Level(n)' \subseteq Level(n)
    BY Zenon, <1>1, <1>2, <1>3, <1>4, LevelFalls
  <2> QED
    BY Zenon, <1>2, <2>1, <2>2, FdFrame
<1>7. ASSUME NEW q \in Objects PROVE ObjInv(q)'
  <2>1. ObjInv(q)
    BY DEF IInv
  <2> QED
    BY Zenon, <1>2, <2>1, ObjFrame
<1>8. OwnerInv' /\ RearmSeen'
  BY Zenon, <1>1, <1>2 DEF OwnerInv, RearmSeen, Valid
<1> QED
  BY <1>5, <1>6, <1>7, <1>8 DEF IInv

------------------------------------------------------------------------------
\* Steps that open and close descriptors, or hand them on

LEMMA OwnsKeeps ==
  ASSUME IInv, terminated = "no", NEW D \in SUBSET Objects, NEW new \in [D -> Fds],
         NEW c \in [D -> Classes], NEW w \in BOOLEAN,
         \A o, p \in D : new[o] = new[p] => o = p,
         Owns(new, c, w), DataTaken
  PROVE  IInv'
<1>1. TypeOK /\ OwnerInv /\ DOMAIN new = D /\ NoFd \notin Fds
  BY NetAssumption DEF IInv
<1> DEFINE fds == {new[o] : o \in D}
<1>2. fds \in SUBSET Fds /\ fds \cap opened = {} /\ \A o \in D : ~Valid(o) /\ new[o] \in fds
  BY <1>1 DEF Owns
<1>3. /\ opened' = opened \cup fds
      /\ UNCHANGED <<backend, held, told, adrift, registrations_, watch, armed, shut, terminated>>
      /\ socket_' = [o \in Objects |-> IF o \in D THEN new[o] ELSE socket_[o]]
      /\ class' = [o \in Objects |-> IF o \in D THEN c[o] ELSE class[o]]
      /\ interests_' = [o \in Objects |-> IF o \in D THEN NoReg ELSE interests_[o]]
  BY Zenon, <1>1 DEF Owns, backendVars, historyVars
<1>4. space' \in [Fds -> BOOLEAN] /\ \A n \in Fds \ fds : space'[n] => space[n]
  <2>1. space' = [n \in Fds |-> space[n] \/ \E o \in D : new[o] = n /\ c[o] \in Writers /\ w]
    BY Zenon, <1>1 DEF Owns
  <2>2. \A n \in Fds \ fds : \A o \in D : new[o] # n
    BY <1>2
  <2>3. space \in [Fds -> BOOLEAN]
    BY <1>1 DEF TypeOK
  <2> QED
    BY <2>1, <2>2, <2>3
<1>5. data' \in [Fds -> 0..MaxData] /\ \A fd \in Fds : data'[fd] <= data[fd]
  BY <1>1, DataTakenKeeps
<1>6. TypeOK'
  <2>1. /\ socket_' \in [Objects -> Fds \cup {NoFd}] /\ class' \in [Objects -> Classes \cup {NoClass}]
        /\ interests_' \in [Objects -> InterestSets \cup {NoReg}]
    BY <1>1, <1>3 DEF TypeOK
  <2> QED
    BY Zenon, <1>1, <1>2, <1>3, <1>4, <1>5, <2>1 DEF TypeOK
<1>7. \A o \in Objects : Valid(o) => socket_[o] \in opened /\ socket_[o] \in Fds
  BY Zenon, <1>1 DEF IInv, ObjInv, Valid, TypeOK
<1>8. (\A n \in Fds \ fds : FdInv(n)') /\ (\A q \in Objects \ D : ObjInv(q)')
  <2>1. ASSUME NEW n \in Fds \ fds
        PROVE  /\ watch'[n] = watch[n] /\ armed'[n] = armed[n] /\ told'[n] = told[n]
               /\ held'[n] = held[n] /\ (n \in opened' <=> n \in opened)
               /\ (n \in adrift' <=> n \in adrift) /\ Level(n)' \subseteq Level(n)
    <3>1. Level(n)' \subseteq Level(n)
      <4>1. (space'[n] => space[n]) /\ shut'[n] \subseteq shut[n] /\ n \in Fds
        BY Zenon, <1>3, <1>4
      <4> QED
        BY Zenon, <1>1, <1>5, <4>1, LevelFalls
    <3> QED
      BY Zenon, <1>3, <3>1
  <2>2. ASSUME NEW q \in Objects \ D
        PROVE  /\ class'[q] = class[q] /\ socket_'[q] = socket_[q]
               /\ interests_'[q] = interests_[q] /\ (Valid(q) => socket_[q] \notin fds)
    <3>1. class'[q] = class[q] /\ socket_'[q] = socket_[q] /\ interests_'[q] = interests_[q]
      BY Zenon, <1>3
    <3>2. socket_[q] \notin fds
      BY <1>1, <1>2, <1>7 DEF Valid
    <3> QED
      BY <3>1, <3>2
  <2> HIDE DEF fds
  <2> QED
    BY Zenon, <1>2, <1>3, <2>1, <2>2, Elsewhere
<1>9. \A n \in fds : watch'[n] = {} /\ held'[n] = NoClass /\ n \in opened'
  BY Zenon, <1>2, <1>3 DEF IInv, FdInv
<1>10. \A n \in fds : FdInv(n)'
  BY Zenon, <1>9 DEF FdInv
<1>11. \A o \in D : ObjInv(o)'
  <2> TAKE o \in D
  <2>1. socket_'[o] = new[o] /\ interests_'[o] = NoReg
    BY Zenon, <1>3
  <2>2. watch'[new[o]] = {} /\ held'[new[o]] = NoClass /\ new[o] \in opened'
    BY Zenon, <1>2, <1>9
  <2> QED
    BY Zenon, <2>1, <2>2 DEF ObjInv
<1>12. OwnerInv'
  <2>1. \A o, p \in Objects : Valid(o)' /\ socket_'[o] = socket_'[p] => o = p
    <3>1. \A o \in Objects : socket_'[o] = IF o \in D THEN new[o] ELSE socket_[o]
      BY Zenon, <1>3
    <3> QED
      BY <1>1, <1>2, <1>7, <3>1 DEF OwnerInv, Valid
  <2>2. ASSUME NEW fd \in opened' PROVE held'[fd] # NoClass \/ \E o \in Objects : socket_'[o] = fd
    <3>1. CASE fd \in opened /\ held[fd] = NoClass
      <4>1. PICK o \in Objects : socket_[o] = fd
        BY <1>1, <3>1 DEF OwnerInv
      <4>2. o \notin D
        BY <1>1, <1>2, <3>1, <4>1 DEF Valid, TypeOK
      <4> QED
        BY <1>3, <4>1, <4>2
    <3>2. CASE fd \in fds
      BY <1>3, <3>2
    <3> QED
      BY <1>3, <3>1, <3>2
  <2> QED
    BY Zenon, <2>1, <2>2 DEF OwnerInv
<1>13. RearmSeen'
  BY <1>3 DEF RearmSeen
<1> QED
  BY Zenon, <1>6, <1>8, <1>10, <1>11, <1>12, <1>13 DEF IInv

LEMMA CreatesKeeps ==
  ASSUME IInv, terminated = "no",
         \/ \E o \in Objects, fd \in Fds, c \in Classes, w \in BOOLEAN : Creates(o, fd, c, w)
         \/ \E o, p \in Objects, fd, gd \in Fds, c, d \in Classes : CreatesTwo(o, fd, c, p, gd, d)
  PROVE  IInv'
<1>1. ASSUME NEW o \in Objects, NEW fd \in Fds, NEW c \in Classes, NEW w \in BOOLEAN,
             Creates(o, fd, c, w)
      PROVE  IInv'
  <2>1. /\ One(o, fd) \in [{o} -> Fds] /\ One(o, c) \in [{o} -> Classes]
        /\ \A x, y \in {o} : One(o, fd)[x] = One(o, fd)[y] => x = y
    BY DEF One
  <2>2. Owns(One(o, fd), One(o, c), w) /\ DataTaken
    BY <1>1 DEF Creates
  <2> QED
    BY <2>1, <2>2, OwnsKeeps
<1>2. ASSUME NEW o \in Objects, NEW p \in Objects, NEW fd \in Fds, NEW gd \in Fds,
             NEW c \in Classes, NEW d \in Classes, CreatesTwo(o, fd, c, p, gd, d)
      PROVE  IInv'
  <2>1. o # p /\ fd # gd /\ Owns(Two(o, fd, p, gd), Two(o, c, p, d), TRUE) /\ DataTaken
    BY Zenon, <1>2 DEF CreatesTwo, DataTaken
  <2>2. /\ Two(o, fd, p, gd) \in [{o, p} -> Fds] /\ Two(o, c, p, d) \in [{o, p} -> Classes]
        /\ \A x, y \in {o, p} : Two(o, fd, p, gd)[x] = Two(o, fd, p, gd)[y] => x = y
    BY <2>1 DEF Two
  <2> QED
    BY Zenon, <2>1, <2>2, OwnsKeeps
<1> QED
  BY <1>1, <1>2

\* A descriptor is closed, if there is one.
LEMMA CloseEffect ==
  ASSUME TypeOK, NEW fd \in Fds \cup {NoFd},
         IF fd # NoFd THEN Closed(fd) ELSE UNCHANGED <<backendVars, kernelVars, historyVars>>
  PROVE  /\ opened' = opened \ {fd} /\ adrift' = adrift \ {fd}
         /\ data' \in [Fds -> 0..MaxData] /\ space' \in [Fds -> BOOLEAN]
         /\ shut' \in [Fds -> SUBSET IoKinds] /\ told' \in [Fds -> SUBSET IoKinds]
         /\ watch' \in [Fds -> SUBSET IoKinds] /\ armed' \in [Fds -> SUBSET IoKinds]
         /\ fd \in Fds => watch'[fd] = {}
         /\ \A n \in Fds \ {fd} : /\ watch'[n] = watch[n] /\ armed'[n] = armed[n]
                                  /\ told'[n] = told[n] /\ Level(n)' \subseteq Level(n)
<1>1. /\ NoFd \notin Fds /\ opened \subseteq Fds /\ adrift \subseteq Fds
      /\ data \in [Fds -> 0..MaxData] /\ 0 \in 0..MaxData /\ space \in [Fds -> BOOLEAN]
      /\ shut \in [Fds -> SUBSET IoKinds] /\ told \in [Fds -> SUBSET IoKinds]
      /\ watch \in [Fds -> SUBSET IoKinds] /\ armed \in [Fds -> SUBSET IoKinds]
  BY NetAssumption DEF TypeOK
<1>2. CASE fd # NoFd
  <2>1. /\ fd \in Fds
        /\ opened' = opened \ {fd} /\ adrift' = adrift \ {fd}
        /\ data' = [data EXCEPT ![fd] = 0] /\ space' = [space EXCEPT ![fd] = FALSE]
        /\ shut' = [shut EXCEPT ![fd] = {}] /\ told' = [told EXCEPT ![fd] = {}]
        /\ watch' = [watch EXCEPT ![fd] = {}] /\ armed' = [armed EXCEPT ![fd] = {}]
    BY <1>1, <1>2 DEF Closed
  <2>2. \A n \in Fds \ {fd} : /\ watch'[n] = watch[n] /\ armed'[n] = armed[n] /\ told'[n] = told[n]
                               /\ data'[n] = data[n] /\ space'[n] = space[n] /\ shut'[n] = shut[n]
    BY Zenon, <1>1, <2>1
  <2>3. \A n \in Fds \ {fd} : Level(n)' \subseteq Level(n)
    BY Zenon, <2>2 DEF Level
  <2> QED
    BY Zenon, <1>1, <2>1, <2>2, <2>3
<1>3. CASE fd = NoFd
  <2>1. UNCHANGED <<watch, armed, opened, data, space, shut, told, adrift>>
    BY <1>3 DEF backendVars, kernelVars, historyVars
  <2>2. \A n \in Fds : Level(n)' \subseteq Level(n)
    BY Zenon, <2>1 DEF Level
  <2> QED
    BY Zenon, <1>1, <1>3, <2>1, <2>2
<1> QED
  BY Zenon, <1>2, <1>3

LEMMA DestroyKeeps ==
  ASSUME IInv, terminated = "no", NEW o \in Objects, Destroy(o)
  PROVE  IInv'
<1>0. PICK fd \in Fds : fd = socket_[o]
  BY DEF IInv, Destroy, Valid, TypeOK
<1>1. TypeOK /\ OwnerInv /\ fd # NoFd /\ NoFd \notin Fds
  BY NetAssumption DEF IInv
<1>2. /\ socket_' = [socket_ EXCEPT ![o] = NoFd] /\ class' = [class EXCEPT ![o] = NoClass]
      /\ interests_' = [interests_ EXCEPT ![o] = NoReg]
      /\ UNCHANGED <<backend, held, registrations_, terminated>>
      /\ Closed(fd)
  BY <1>0 DEF Destroy
<1>3. /\ opened' = opened \ {fd} /\ adrift' = adrift \ {fd}
      /\ data' \in [Fds -> 0..MaxData] /\ space' \in [Fds -> BOOLEAN]
      /\ shut' \in [Fds -> SUBSET IoKinds] /\ told' \in [Fds -> SUBSET IoKinds]
      /\ watch' \in [Fds -> SUBSET IoKinds] /\ armed' \in [Fds -> SUBSET IoKinds]
      /\ fd \in Fds => watch'[fd] = {}
      /\ \A n \in Fds \ {fd} : /\ watch'[n] = watch[n] /\ armed'[n] = armed[n]
                               /\ told'[n] = told[n] /\ Level(n)' \subseteq Level(n)
  BY Zenon, <1>1, <1>2, CloseEffect
<1>4. TypeOK'
  BY Zenon, <1>1, <1>2, <1>3 DEF TypeOK
<1>5. /\ socket_'[o] = NoFd
      /\ \A q \in Objects : q # o =>
           /\ class'[q] = class[q] /\ socket_'[q] = socket_[q]
           /\ interests_'[q] = interests_[q] /\ socket_[q] # fd
  <2>1. /\ socket_'[o] = NoFd
        /\ \A q \in Objects : q # o => /\ socket_'[q] = socket_[q] /\ class'[q] = class[q]
                                       /\ interests_'[q] = interests_[q]
    BY <1>1, <1>2 DEF TypeOK
  <2>2. \A q \in Objects : q # o => socket_[q] # fd
    BY Zenon, <1>0, <1>1 DEF OwnerInv, Valid
  <2> QED
    BY <2>1, <2>2
<1>6. \A n \in Fds : n # fd =>
        /\ watch'[n] = watch[n] /\ armed'[n] = armed[n] /\ told'[n] = told[n]
        /\ held'[n] = held[n] /\ (n \in opened' <=> n \in opened)
        /\ (n \in adrift' <=> n \in adrift) /\ Level(n)' \subseteq Level(n)
  BY ZenonT(30), <1>2, <1>3
<1>7. /\ \A n \in Fds : n # fd => FdInv(n)'
      /\ \A q \in Objects : q # o /\ q # o => ObjInv(q)'
  <2>1. UNCHANGED <<backend, registrations_>>
    BY <1>2
  <2>2. \A q \in Objects : q # o /\ q # o =>
          /\ class'[q] = class[q] /\ socket_'[q] = socket_[q]
          /\ interests_'[q] = interests_[q] /\ (Valid(q) => socket_[q] # fd)
    BY Zenon, <1>5
  <2> QED
    BY Zenon, <1>6, <2>1, <2>2, AllBut
<1>8. FdInv(fd)' /\ ObjInv(o)'
  <2>1. held[fd] = NoClass
    BY Zenon, <1>0, <1>1 DEF IInv, ObjInv
  <2>2. ObjInv(o)'
    BY Zenon, <1>5 DEF ObjInv
  <2> QED
    BY Zenon, <1>1, <1>2, <1>3, <2>1, <2>2 DEF FdInv
<1>9. OwnerInv'
  <2>1. ASSUME NEW q \in Objects, NEW r \in Objects, Valid(q)', socket_'[q] = socket_'[r] PROVE q = r
    <3>1. q # o /\ r # o
      BY <1>5, <2>1 DEF Valid
    <3>2. Valid(q) /\ socket_[q] = socket_[r]
      BY <1>5, <2>1, <3>1 DEF Valid
    <3> QED
      BY Zenon, <1>1, <3>2 DEF OwnerInv
  <2>2. ASSUME NEW n \in opened' PROVE held'[n] # NoClass \/ \E q \in Objects : socket_'[q] = n
    <3>1. n \in opened /\ n # socket_[o] /\ held'[n] = held[n]
      BY Zenon, <1>0, <1>2, <1>3, <2>2
    <3>2. CASE held[n] = NoClass
      <4>1. PICK q \in Objects : socket_[q] = n
        BY Zenon, <1>1, <3>1, <3>2 DEF OwnerInv
      <4> QED
        BY Zenon, <1>5, <3>1, <4>1
    <3> QED
      BY <3>1, <3>2
  <2> QED
    BY <2>1, <2>2 DEF OwnerInv
<1>10. RearmSeen'
  BY <1>2 DEF RearmSeen
<1> QED
  BY Zenon, <1>4, <1>7, <1>8, <1>9, <1>10 DEF IInv

LEMMA MovesKeeps ==
  ASSUME IInv, terminated = "no", NEW o \in Objects, NEW p \in Objects, NEW c \in Classes,
         Moves(o, p, c)
  PROVE  IInv'
<1>0. PICK fd \in Fds : fd = socket_[o]
  BY DEF IInv, Moves, MoveTo, Valid, TypeOK
<1>1. PICK gd \in Fds \cup {NoFd} : gd = socket_[p]
  BY DEF IInv, TypeOK
<1>2. TypeOK /\ OwnerInv /\ o # p /\ NoFd \notin Fds
  BY NetAssumption DEF IInv, Moves, MoveTo
<1>3. /\ socket_' = [socket_ EXCEPT ![p] = fd, ![o] = NoFd]
      /\ class' = [class EXCEPT ![p] = c, ![o] = NoClass]
      /\ interests_' = [interests_ EXCEPT ![p] = interests_[o]]
      /\ UNCHANGED <<backend, held, registrations_, terminated>>
      /\ IF gd # NoFd THEN Closed(gd) ELSE UNCHANGED <<backendVars, kernelVars, historyVars>>
      /\ class[o] \in {c, "TcpSocket"}
  BY Zenon, <1>0, <1>1 DEF Moves, MoveTo, Valid
<1>4. /\ opened' = opened \ {gd} /\ adrift' = adrift \ {gd}
      /\ data' \in [Fds -> 0..MaxData] /\ space' \in [Fds -> BOOLEAN]
      /\ shut' \in [Fds -> SUBSET IoKinds] /\ told' \in [Fds -> SUBSET IoKinds]
      /\ watch' \in [Fds -> SUBSET IoKinds] /\ armed' \in [Fds -> SUBSET IoKinds]
      /\ gd \in Fds => watch'[gd] = {}
      /\ \A n \in Fds \ {gd} : /\ watch'[n] = watch[n] /\ armed'[n] = armed[n]
                               /\ told'[n] = told[n] /\ Level(n)' \subseteq Level(n)
  BY Zenon, <1>2, <1>3, CloseEffect
<1>5. TypeOK'
  BY Zenon, <1>2, <1>3, <1>4 DEF TypeOK
<1>6. /\ socket_'[o] = NoFd /\ socket_'[p] = fd /\ class'[p] = c /\ interests_'[p] = interests_[o]
      /\ \A q \in Objects : q # o /\ q # p =>
           /\ class'[q] = class[q] /\ socket_'[q] = socket_[q] /\ interests_'[q] = interests_[q]
  BY Zenon, <1>2, <1>3 DEF TypeOK
<1>7. \A q \in Objects : q # p /\ Valid(q) => socket_[q] # gd
  BY Zenon, <1>1, <1>2 DEF OwnerInv, Valid
<1>8. fd # gd /\ fd # NoFd
  BY <1>0, <1>2, <1>7 DEF Valid
<1>9. \A n \in Fds : n # gd =>
        /\ watch'[n] = watch[n] /\ armed'[n] = armed[n] /\ told'[n] = told[n]
        /\ held'[n] = held[n] /\ (n \in opened' <=> n \in opened)
        /\ (n \in adrift' <=> n \in adrift) /\ Level(n)' \subseteq Level(n)
  BY ZenonT(30), <1>3, <1>4
<1>10. /\ \A n \in Fds : n # gd => FdInv(n)'
       /\ \A q \in Objects : q # o /\ q # p => ObjInv(q)'
  <2>1. UNCHANGED <<backend, registrations_>>
    BY <1>3
  <2>2. \A q \in Objects : q # o /\ q # p =>
          /\ class'[q] = class[q] /\ socket_'[q] = socket_[q]
          /\ interests_'[q] = interests_[q] /\ (Valid(q) => socket_[q] # gd)
    BY Zenon, <1>6, <1>7
  <2> QED
    BY Zenon, <1>9, <2>1, <2>2, AllBut
<1>11. gd \in Fds => FdInv(gd)'
  <2>1. gd \in Fds => held[gd] = NoClass
    BY Zenon, <1>1, <1>2 DEF IInv, ObjInv
  <2> QED
    BY Zenon, <1>3, <1>4, <2>1 DEF FdInv
<1>12. ObjInv(o)'
  BY Zenon, <1>6 DEF ObjInv
<1>13. ObjInv(p)'
  <2>1. ObjInv(o)
    BY DEF IInv
  <2>2. interests_[o] # NoReg => class[o] = c /\ source_kind(p)' = source_kind(o)
    <3>1. interests_[o] # NoReg => class[o] \in NetClasses
      BY Zenon, <1>0, <1>8, <2>1 DEF ObjInv
    <3>2. interests_[o] # NoReg => class[o] = c
      BY <1>3, <3>1 DEF NetClasses
    <3> QED
      BY Zenon, <1>6, <3>2 DEF source_kind
  <2>3. /\ registrations_'[fd] = registrations_[fd] /\ watch'[fd] = watch[fd] /\ held'[fd] = held[fd]
        /\ (fd \in opened' <=> fd \in opened) /\ (fd \in adrift' <=> fd \in adrift)
    BY Zenon, <1>3, <1>8, <1>9
  <2> QED
    BY Zenon, <1>0, <1>3, <1>6, <1>8, <2>1, <2>2, <2>3 DEF ObjInv
<1>14. OwnerInv'
  <2>1. \A q, r \in Objects : Valid(q)' /\ socket_'[q] = socket_'[r] => q = r
    BY SMTT(20), <1>0, <1>2, <1>6, <1>8 DEF OwnerInv, Valid
  <2>2. ASSUME NEW n \in opened' PROVE held'[n] # NoClass \/ \E q \in Objects : socket_'[q] = n
    <3>1. n \in opened /\ n # socket_[p] /\ held'[n] = held[n]
      BY Zenon, <1>1, <1>3, <1>4, <2>2
    <3>2. CASE held[n] = NoClass
      <4>1. PICK q \in Objects : socket_[q] = n
        BY Zenon, <1>2, <3>1, <3>2 DEF OwnerInv
      <4>2. CASE q = o
        BY Zenon, <1>0, <1>6, <4>1, <4>2
      <4>3. CASE q # o
        BY Zenon, <1>6, <3>1, <4>1, <4>3
      <4> QED
        BY <4>2, <4>3
    <3> QED
      BY <3>1, <3>2
  <2> QED
    BY Zenon, <2>1, <2>2 DEF OwnerInv
<1>15. RearmSeen'
  BY <1>3 DEF RearmSeen
<1> QED
  BY Zenon, <1>5, <1>10, <1>11, <1>12, <1>13, <1>14, <1>15 DEF IInv

\* A descriptor passes between the program and an object of unix.cpp.
LEMMA HandsOverKeeps ==
  ASSUME IInv, terminated = "no", NEW c \in UnixClasses, Adopt(c) \/ Release(c)
  PROVE  IInv'
<1>1. TypeOK /\ OwnerInv /\ NoFd \notin Fds /\ c # NoClass /\ c \in Classes /\ c \notin NetClasses
  BY NetAssumption DEF IInv, Classes, UnixClasses, NetClasses
<1>2. /\ UNCHANGED <<backend, registrations_, watch, armed, opened, data, space, shut, told, adrift, terminated>>
      /\ \E o \in Objects, fd \in Fds :
           \/ /\ held[fd] = c /\ ~Valid(o) /\ held' = [held EXCEPT ![fd] = NoClass]
              /\ socket_' = [socket_ EXCEPT ![o] = fd] /\ class' = [class EXCEPT ![o] = c]
              /\ interests_' = [interests_ EXCEPT ![o] = NoReg]
           \/ /\ socket_[o] = fd /\ class[o] = c /\ held' = [held EXCEPT ![fd] = c]
              /\ socket_' = [socket_ EXCEPT ![o] = NoFd] /\ class' = [class EXCEPT ![o] = NoClass]
              /\ interests_' = interests_
  <2>1. ASSUME NEW o \in Objects, Is(o, c) PROVE socket_[o] \in Fds /\ class[o] = c
    BY <1>1, <2>1 DEF Is, Valid, TypeOK
  <2> QED
    BY Zenon, <2>1 DEF Adopt, Release, Is, backendVars, kernelVars, historyVars
<1>3. PICK o \in Objects, fd \in Fds :
        \/ /\ held[fd] = c /\ ~Valid(o) /\ held' = [held EXCEPT ![fd] = NoClass]
           /\ socket_' = [socket_ EXCEPT ![o] = fd] /\ class' = [class EXCEPT ![o] = c]
           /\ interests_' = [interests_ EXCEPT ![o] = NoReg]
        \/ /\ socket_[o] = fd /\ class[o] = c /\ held' = [held EXCEPT ![fd] = c]
           /\ socket_' = [socket_ EXCEPT ![o] = NoFd] /\ class' = [class EXCEPT ![o] = NoClass]
           /\ interests_' = interests_
  BY Zenon, <1>2
<1>4. TypeOK'
  BY SMTT(30), <1>1, <1>2, <1>3 DEF TypeOK
<1>5. \A q \in Objects : q # o => /\ class'[q] = class[q] /\ socket_'[q] = socket_[q]
                                /\ interests_'[q] = interests_[q]
  BY <1>1, <1>3 DEF TypeOK
<1>6. \/ held[fd] = c /\ ~Valid(o) /\ held'[fd] = NoClass /\ socket_'[o] = fd /\ interests_'[o] = NoReg
      \/ socket_[o] = fd /\ class[o] = c /\ held'[fd] = c /\ socket_'[o] = NoFd
  BY <1>1, <1>3 DEF TypeOK
<1>7. \A n \in Fds : n # fd => held'[n] = held[n]
  BY <1>1, <1>3 DEF TypeOK
<1>8. \A q \in Objects : Valid(q) => held[socket_[q]] = NoClass
  BY Zenon DEF IInv, ObjInv, Valid
<1>9. \A q \in Objects : q # o /\ Valid(q) => socket_[q] # fd
  BY <1>1, <1>6, <1>8 DEF OwnerInv, Valid
<1>10. fd \in opened /\ (backend = "afd" => watch[fd] = {}) /\ fd # NoFd
  <2>1. FdInv(fd) /\ ObjInv(o) /\ fd # NoFd
    BY Zenon, <1>1 DEF IInv
  <2>2. CASE held[fd] = c
    BY ZenonT(30), <1>1, <2>1, <2>2 DEF FdInv
  <2>3. CASE socket_[o] = fd /\ class[o] = c
    <3>1. fd \in opened /\ (interests_[o] # NoReg => class[o] \in NetClasses)
          /\ (backend = "afd" /\ watch[fd] # {} => interests_[o] # NoReg)
      BY ZenonT(30), <2>1, <2>3 DEF ObjInv
    <3> QED
      BY <1>1, <2>1, <2>3, <3>1
  <2> QED
    BY Zenon, <1>6, <2>2, <2>3
<1>11. /\ \A n \in Fds : n # fd => FdInv(n)'
       /\ \A q \in Objects : q # o /\ q # o => ObjInv(q)'
  <2>1. \A n \in Fds : Level(n)' \subseteq Level(n)
    BY Zenon, <1>2 DEF Level
  <2>2. \A n \in Fds : n # fd =>
          /\ watch'[n] = watch[n] /\ armed'[n] = armed[n] /\ told'[n] = told[n]
          /\ held'[n] = held[n] /\ (n \in opened' <=> n \in opened)
          /\ (n \in adrift' <=> n \in adrift) /\ Level(n)' \subseteq Level(n)
    BY Zenon, <1>2, <1>7, <2>1
  <2>3. \A q \in Objects : q # o /\ q # o =>
          /\ class'[q] = class[q] /\ socket_'[q] = socket_[q]
          /\ interests_'[q] = interests_[q] /\ (Valid(q) => socket_[q] # fd)
    BY Zenon, <1>5, <1>9
  <2>4. UNCHANGED <<backend, registrations_>>
    BY Zenon, <1>2
  <2> QED
    BY Zenon, <2>2, <2>3, <2>4, AllBut
<1>12. FdInv(fd)'
  <2>1. FdInv(fd) /\ Level(fd)' = Level(fd)
    BY Zenon, <1>2 DEF IInv, Level
  <2> QED
    BY Zenon, <1>2, <1>10, <2>1 DEF FdInv
<1>13. ObjInv(o)'
  BY Zenon, <1>2, <1>6, <1>10 DEF ObjInv
<1>14. OwnerInv'
  <2>1. ASSUME NEW q \in Objects, NEW r \in Objects, Valid(q)', socket_'[q] = socket_'[r] PROVE q = r
    <3>0. socket_'[q] # NoFd /\ socket_'[r] # NoFd
      BY Zenon, <2>1 DEF Valid
    <3>1. CASE q # o /\ r # o
      <4>1. socket_[q] = socket_[r] /\ socket_[q] # NoFd
        BY Zenon, <1>5, <2>1, <3>0, <3>1
      <4> QED
        BY Zenon, <1>1, <4>1 DEF OwnerInv, Valid
    <3>2. ASSUME NEW p \in Objects, p # o, socket_'[p] = socket_'[o], socket_'[o] # NoFd PROVE FALSE
      <4>1. socket_'[o] = fd /\ socket_[p] = fd
        BY Zenon, <1>5, <1>6, <3>2
      <4> QED
        BY Zenon, <1>9, <1>10, <3>2, <4>1 DEF Valid
    <3> QED
      BY Zenon, <2>1, <3>0, <3>1, <3>2
  <2>2. ASSUME NEW n \in opened' PROVE held'[n] # NoClass \/ \E q \in Objects : socket_'[q] = n
    <3>1. CASE n = fd
      BY Zenon, <1>1, <1>6, <3>1
    <3>2. CASE n # fd /\ held[n] = NoClass
      <4>1. PICK q \in Objects : socket_[q] = n
        BY Zenon, <1>1, <1>2, <2>2, <3>2 DEF OwnerInv
      <4>2. q # o
        <5>1. n # NoFd
          BY <1>1, <1>4, <2>2 DEF TypeOK
        <5> QED
          BY Zenon, <1>6, <3>2, <4>1, <5>1 DEF Valid
      <4> QED
        BY Zenon, <1>5, <4>1, <4>2
    <3>3. CASE n # fd /\ held[n] # NoClass
      <4>1. n \in Fds
        BY Zenon, <1>4, <2>2 DEF TypeOK
      <4> QED
        BY Zenon, <1>7, <3>3, <4>1
    <3> QED
      BY <3>1, <3>2, <3>3
  <2> QED
    BY Zenon, <2>1, <2>2 DEF OwnerInv
<1>15. RearmSeen'
  BY ZenonT(30), <1>2 DEF RearmSeen
<1> QED
  BY <1>4, <1>11, <1>12, <1>13, <1>14, <1>15 DEF IInv

\* The program opens a descriptor, or closes one it has.
LEMMA ProgramKeeps ==
  ASSUME IInv, terminated = "no", NEW fd \in Fds,
         ProgramCloses(fd) \/ \E c \in UnixClasses : ProgramOpens(c, fd)
  PROVE  IInv'
<1>1. TypeOK /\ OwnerInv /\ FdInv(fd) /\ fd # NoFd /\ NoClass \notin UnixClasses
  BY NetAssumption DEF IInv, Classes
<1>2. /\ UNCHANGED <<backend, registrations_, class, socket_, interests_, terminated>>
      /\ watch'[fd] = {} /\ TypeOK'
      /\ (held'[fd] = NoClass /\ fd \notin opened') \/ (held'[fd] # NoClass /\ fd \in opened')
      /\ \A n \in Fds : n # fd =>
           /\ watch'[n] = watch[n] /\ armed'[n] = armed[n] /\ told'[n] = told[n]
           /\ held'[n] = held[n] /\ (n \in opened' <=> n \in opened)
           /\ (n \in adrift' <=> n \in adrift) /\ Level(n)' \subseteq Level(n)
  <2>1. CASE ProgramCloses(fd)
    <3>1. /\ UNCHANGED <<backend, registrations_, class, socket_, interests_, terminated>>
          /\ held' = [held EXCEPT ![fd] = NoClass] /\ Closed(fd)
      BY Zenon, <2>1 DEF ProgramCloses
    <3>2. /\ opened' = opened \ {fd} /\ adrift' = adrift \ {fd}
          /\ data' \in [Fds -> 0..MaxData] /\ space' \in [Fds -> BOOLEAN]
          /\ shut' \in [Fds -> SUBSET IoKinds] /\ told' \in [Fds -> SUBSET IoKinds]
          /\ watch' \in [Fds -> SUBSET IoKinds] /\ armed' \in [Fds -> SUBSET IoKinds]
          /\ fd \in Fds => watch'[fd] = {}
          /\ \A n \in Fds \ {fd} : /\ watch'[n] = watch[n] /\ armed'[n] = armed[n]
                                   /\ told'[n] = told[n] /\ Level(n)' \subseteq Level(n)
      BY Zenon, <1>1, <3>1, CloseEffect
    <3>3. held'[fd] = NoClass /\ \A n \in Fds : n # fd => held'[n] = held[n]
      BY <1>1, <3>1 DEF TypeOK
    <3>4. TypeOK'
      BY Zenon, <1>1, <3>1, <3>2 DEF TypeOK
    <3> QED
      BY Zenon, <3>1, <3>2, <3>3, <3>4
  <2>2. ASSUME NEW c \in UnixClasses, ProgramOpens(c, fd)
        PROVE  /\ UNCHANGED <<backend, registrations_, class, socket_, interests_, watch, armed, told,
                              adrift, data, shut, terminated>>
               /\ opened' = opened \cup {fd} /\ fd \notin opened
               /\ held'[fd] = c /\ TypeOK'
               /\ \A n \in Fds : n # fd => held'[n] = held[n] /\ space'[n] = space[n]
    <3>1. /\ UNCHANGED <<backend, registrations_, class, socket_, interests_, watch, armed, told,
                         adrift, data, shut, terminated>>
          /\ opened' = opened \cup {fd} /\ fd \notin opened
          /\ held' = [held EXCEPT ![fd] = c] /\ space' = [space EXCEPT ![fd] = c \in Writers]
      BY Zenon, <2>2 DEF ProgramOpens, backendVars, historyVars
    <3>2. (c \in Writers) \in BOOLEAN
      OBVIOUS
    <3>3. space' \in [Fds -> BOOLEAN] /\ \A n \in Fds : n # fd => space'[n] = space[n]
      BY Zenon, <1>1, <3>1, <3>2 DEF TypeOK
    <3>4. /\ held' \in [Fds -> UnixClasses \cup {NoClass}] /\ held'[fd] = c
          /\ \A n \in Fds : n # fd => held'[n] = held[n]
      BY <1>1, <3>1 DEF TypeOK
    <3> QED
      BY Zenon, <1>1, <3>1, <3>3, <3>4 DEF TypeOK
  <2>3. CASE \E c \in UnixClasses : ProgramOpens(c, fd)
    <3>1. PICK c \in UnixClasses : ProgramOpens(c, fd)
      BY <2>3
    <3>2. /\ UNCHANGED <<backend, registrations_, class, socket_, interests_, watch, armed, told,
                         adrift, data, shut, terminated>>
          /\ opened' = opened \cup {fd} /\ fd \notin opened
          /\ held'[fd] = c /\ TypeOK'
          /\ \A n \in Fds : n # fd => held'[n] = held[n] /\ space'[n] = space[n]
      BY Zenon, <2>2, <3>1
    <3>3. \A n \in Fds : n # fd => Level(n)' \subseteq Level(n)
      BY Zenon, <3>2 DEF Level
    <3>4. watch'[fd] = {}
      BY Zenon, <1>1, <3>2 DEF FdInv
    <3> QED
      BY Zenon, <1>1, <3>2, <3>3, <3>4
  <2> QED
    BY Zenon, <2>1, <2>3
<1>3. \A q \in Objects : socket_[q] # fd
  <2>1. held[fd] # NoClass \/ fd \notin opened
    BY Zenon DEF ProgramCloses, ProgramOpens
  <2> QED
    BY Zenon, <1>1, <2>1 DEF IInv, ObjInv
<1>4. (\A n \in Fds : n # fd => FdInv(n)') /\ \A q \in Objects : ObjInv(q)'
  <2>1. ASSUME NEW n \in Fds, n # fd PROVE FdInv(n)'
    <3>1. FdInv(n) /\ Level(n)' \subseteq Level(n)
      BY Zenon, <1>2, <2>1 DEF IInv
    <3> QED
      BY Zenon, <1>2, <2>1, <3>1, FdFrame
  <2>2. ASSUME NEW q \in Objects PROVE ObjInv(q)'
    <3>1. ObjInv(q) /\ socket_[q] \in Fds \cup {NoFd} /\ socket_[q] # fd
      BY <1>1, <1>3 DEF IInv, TypeOK
    <3>2. Valid(q) => LET n == socket_[q]
                      IN /\ registrations_'[n] = registrations_[n]
                         /\ watch'[n] = watch[n] /\ held'[n] = held[n]
                         /\ n \in opened' <=> n \in opened
                         /\ n \in adrift' <=> n \in adrift
      BY Zenon, <1>2, <3>1 DEF Valid
    <3> QED
      BY Zenon, <1>2, <3>1, <3>2, ObjFrame
  <2> QED
    BY <2>1, <2>2
<1>5. FdInv(fd)'
  BY Zenon, <1>2 DEF FdInv
<1>6. OwnerInv'
  <2>1. \A n \in opened' : held'[n] # NoClass \/ \E q \in Objects : socket_'[q] = n
    <3> SUFFICES ASSUME NEW n \in opened'
                 PROVE  held'[n] # NoClass \/ \E q \in Objects : socket_'[q] = n
      BY Zenon
    <3>0. opened' \subseteq Fds
      BY Zenon, <1>2 DEF TypeOK
    <3>1. n \in Fds
      BY Zenon, <3>0
    <3> QED
      BY ZenonT(30), <1>1, <1>2, <3>1 DEF OwnerInv
  <2> QED
    BY Zenon, <1>1, <1>2, <2>1 DEF OwnerInv, Valid
<1>7. RearmSeen'
  BY Zenon, <1>2 DEF RearmSeen
<1> QED
  BY Zenon, <1>2, <1>4, <1>5, <1>6, <1>7 DEF IInv

------------------------------------------------------------------------------
\* The theorems

LEMMA Initially == Init => IInv
<1> SUFFICES ASSUME Init PROVE IInv
  OBVIOUS
<1>1. TypeOK
  BY SMTT(20), NetAssumption DEF Init, TypeOK
<1>2. (\A fd \in Fds : FdInv(fd)) /\ (\A o \in Objects : ObjInv(o)) /\ OwnerInv
  BY Zenon DEF Init, FdInv, ObjInv, OwnerInv, Valid
<1>3. RearmSeen
  BY DEF Init, RearmSeen
<1> QED
  BY <1>1, <1>2, <1>3 DEF IInv

LEMMA Inductive == IInv /\ [Next]_vars => IInv'
<1> SUFFICES ASSUME IInv, [Next]_vars PROVE IInv'
  OBVIOUS
<1>1. CASE UNCHANGED vars
  <2>1. TypeOK'
    BY Zenon, <1>1 DEF IInv, TypeOK, vars, objectVars, backendVars, kernelVars, historyVars
  <2>2. (\A fd \in Fds : FdInv(fd)') /\ (\A o \in Objects : ObjInv(o)') /\ OwnerInv' /\ RearmSeen'
    BY Zenon, <1>1 DEF IInv, FdInv, ObjInv, OwnerInv, RearmSeen, Valid, Level, source_kind,
       vars, objectVars, backendVars, kernelVars, historyVars
  <2> QED
    BY <2>1, <2>2 DEF IInv
<1>2. CASE terminated = "no" /\ ~UNCHANGED vars
  <2>1. TypeOK
    BY DEF IInv
  <2>2. CASE \E o \in Objects, kinds \in SUBSET IoKinds : Valid(o) /\ Ends(socket_[o], kinds)
    <3>1. PICK o \in Objects : Valid(o) /\ \E kinds \in SUBSET IoKinds : Ends(socket_[o], kinds)
      BY <2>2
    <3>2. socket_[o] \in Fds
      BY <2>1, <3>1 DEF Valid, TypeOK
    <3> QED
      BY <1>2, <3>1, <3>2, ArrivesKeeps
  <2> QED
    BY Zenon, <1>2, <2>2, NextCases, CreatesKeeps, MovesKeeps, DestroyKeeps, HandsOverKeeps,
       ProgramKeeps, RegisterKeeps, ReregisterKeeps, DeregisterKeeps, HandleKeeps, UsesKeeps,
       WouldBlockKeeps, ArrivesKeeps, PollReportKeeps
<1> QED
  BY <1>1, <1>2 DEF Next

\* The inductive invariant holds throughout.
LEMMA Invariant == Spec => []IInv
  BY Initially, Inductive, PTL DEF Spec

\* Every variable keeps its type, and no call works on an object that is not there.
THEOREM TypeCorrect == Spec => []TypeOK
BY Invariant, PTL DEF IInv

\* Whatever the objects and the table of descriptors: every open descriptor has
\* exactly one owner, an object or the program, across accept, bind, connect, pair,
\* pipe, the constructors from a handle and release, the moves of net.cpp and unix.cpp
\* and the destructors.
THEOREM DescriptorsOwned == Spec => []OneOwner
<1>1. IInv => OneOwner
  <2> SUFFICES ASSUME IInv, NEW fd \in Fds
               PROVE  Cardinality({o \in Objects : socket_[o] = fd}) + (IF held[fd] = NoClass THEN 0 ELSE 1)
                        = IF fd \in opened THEN 1 ELSE 0
    BY DEF OneOwner
  <2>1. OwnerInv /\ FdInv(fd) /\ fd # NoFd
    BY NetAssumption DEF IInv
  <2>2. CASE fd \in opened /\ held[fd] = NoClass
    <3>1. PICK o \in Objects : socket_[o] = fd
      BY <2>1, <2>2 DEF OwnerInv
    <3>2. {p \in Objects : socket_[p] = fd} = {o}
      BY <2>1, <3>1 DEF OwnerInv, Valid
    <3>3. Cardinality({o}) = 1
      BY FS_Singleton
    <3> QED
      BY <2>2, <3>2, <3>3
  <2>3. CASE fd \notin opened \/ held[fd] # NoClass
    <3>1. {p \in Objects : socket_[p] = fd} = {}
      BY Zenon, <2>1, <2>3 DEF IInv, ObjInv
    <3>2. held[fd] # NoClass => fd \in opened
      BY <2>1 DEF FdInv
    <3> QED
      BY <2>3, <3>1, <3>2, FS_EmptySet
  <2> QED
    BY <2>2, <2>3
<1> QED
  BY <1>1, Invariant, PTL

\* What a source remembers of its registration is what the Selector's map has, unless
\* the program changed the entry by handle or a reregister failed.  So a missing entry
\* makes rearm_after_would_block throw out of a noexcept function only after
\* deregister_handle of the object's own descriptor.
THEOREM EntryRemembered == Spec => []RemembersItsEntry
<1>1. IInv => RemembersItsEntry
  BY Zenon DEF IInv, ObjInv, RearmSeen, RemembersItsEntry, Valid
<1> QED
  BY <1>1, Invariant, PTL

\* No readiness is missed by a program that works until an operation would block,
\* with the edges of epoll and, while no reregister has failed, with the one-shot
\* requests of AFD.
THEOREM ReadinessNotMissed == Spec => []ReadinessKept
<1>1. IInv => ReadinessKept
  BY Zenon DEF IInv, TypeOK, FdInv, ReadinessKept
<1> QED
  BY <1>1, Invariant, PTL

=============================================================================
