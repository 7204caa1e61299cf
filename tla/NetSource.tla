------------------------------ MODULE NetSource ------------------------------
(***************************************************************************)
(* The classes of net.cpp and unix.cpp as Sources of one Poll: who owns a  *)
(* descriptor, what an object remembers of its registration, and what      *)
(* becomes of readiness when an operation would block.                     *)
(*                                                                         *)
(* The Selector is abstracted to what EpollSelector and AfdSelector show   *)
(* of it: the map, and for each descriptor the kinds of readiness that it  *)
(* will report once they hold.  epoll arms a kind again when it arises     *)
(* anew, AFD only when the interests are set again.  An object is used by  *)
(* one thread at a time, so an operation is one step.                      *)
(***************************************************************************)
EXTENDS Integers, FiniteSets

CONSTANTS
  Objects,        \* places for objects, each of any class
  Fds,            \* descriptor numbers: the size of the descriptor table
  Backends,       \* "epoll", "afd"
  InterestSets,
  MaxData,        \* bound: units that wait to be received
  MaxActive,      \* bound: descriptors whose readiness is in play
  NoFd, NoReg, NoClass

NetClasses == {"TcpStream", "TcpListener", "UdpSocket"}

UnixClasses == {"UnixStream", "UnixListener", "UnixDatagram", "Sender", "Receiver"}

\* A TcpSocket is no Source.
Classes == NetClasses \cup UnixClasses \cup {"TcpSocket"}

Writers == {"TcpStream", "UdpSocket", "UnixStream", "UnixDatagram", "Sender"}

IoKinds == {"READABLE", "WRITABLE"}

ASSUME NetAssumption ==
  /\ MaxData \in Nat /\ MaxActive \in Nat
  /\ Backends \subseteq {"epoll", "afd"}
  /\ InterestSets \subseteq (SUBSET IoKinds) \ {{}}
  /\ NoFd \notin Fds /\ NoReg \notin InterestSets /\ NoClass \notin Classes

VARIABLES
  backend,
  class,         \* object -> its class, NoClass while it has no descriptor
  socket_,       \* object -> its descriptor (socket_ or fd_), or NoFd
  interests_,    \* object -> the interests it remembers with registry_, or NoReg
  held,          \* descriptor -> the class it is for, while the program itself has it
  registrations_,\* descriptor -> interests in the Selector's map, or NoReg
  watch,         \* descriptor -> kinds the backend watches, {} if it does not
  armed,         \* descriptor -> kinds it will report when they hold
  opened,        \* open descriptors
  data,          \* descriptor -> units that can be received or accepted
  space,         \* descriptor -> can it be written
  shut,          \* descriptor -> kinds of operation that end at once for good
  terminated,    \* "no", or what let an exception leave a noexcept function
  told,          \* history: descriptor -> kinds reported, with no would-block since
  adrift         \* history: descriptors whose entry changed while an object
                 \* remembered it, with no call of its callback

objectVars == <<class, socket_, interests_, held>>
backendVars == <<watch, armed>>
kernelVars == <<opened, data, space, shut>>
historyVars == <<told, adrift>>
vars == <<backend, objectVars, registrations_, backendVars, kernelVars, historyVars, terminated>>

Valid(o) == socket_[o] # NoFd

Is(o, c) == Valid(o) /\ class[o] = c

\* The readiness of a descriptor (external).
Level(fd) ==
  shut[fd] \cup {k \in IoKinds : IF k = "READABLE" THEN data[fd] > 0 ELSE space[fd]}

\* TcpStream does not override Source::source_kind, those of unix.cpp say the same.
source_kind(o) == IF class[o] \in {"TcpListener", "UdpSocket"} THEN "socket" ELSE "raw_descriptor"

------------------------------------------------------------------------------
\* Descriptors and their owners

\* The kernel closes fd and the backend forgets it; the map keeps its entry.
Closed(fd) ==
  /\ opened' = opened \ {fd}
  /\ data' = [data EXCEPT ![fd] = 0]
  /\ space' = [space EXCEPT ![fd] = FALSE]
  /\ shut' = [shut EXCEPT ![fd] = {}]
  /\ watch' = [watch EXCEPT ![fd] = {}]
  /\ armed' = [armed EXCEPT ![fd] = {}]
  /\ told' = [told EXCEPT ![fd] = {}]
  /\ adrift' = adrift \ {fd}

One(o, v) == [x \in {o} |-> v]

Two(o, v, p, w) == [x \in {o, p} |-> IF x = o THEN v ELSE w]

\* New objects DOMAIN fd own new descriptors fd[o] and are of the classes c[o].
Owns(fd, c, writable) ==
  LET fds == {fd[o] : o \in DOMAIN fd}
  IN /\ fds \cap opened = {} /\ \A o \in DOMAIN fd : ~Valid(o)
     /\ opened' = opened \cup fds
     /\ space' = [n \in Fds |-> space[n] \/ \E o \in DOMAIN fd :
                                   fd[o] = n /\ c[o] \in Writers /\ writable]
     /\ socket_' = [o \in Objects |-> IF o \in DOMAIN fd THEN fd[o] ELSE socket_[o]]
     /\ class' = [o \in Objects |-> IF o \in DOMAIN fd THEN c[o] ELSE class[o]]
     /\ interests_' = [o \in Objects |-> IF o \in DOMAIN fd THEN NoReg ELSE interests_[o]]
     /\ UNCHANGED <<backend, held, registrations_, backendVars, shut, historyVars, terminated>>

\* Creation succeeds; when a call on the way fails, the descriptor is closed again
\* and nothing has changed.  A Socket closes it too when the constructor of an
\* object that is given a handle throws.
make_socket(c, writable) ==
  \E o \in Objects, fd \in Fds : Owns(One(o, fd), One(o, c), writable) /\ UNCHANGED data

\* The constructor from an int prepares the descriptor, for a factory the second time;
\* when that fails its exception leaves the factory, which is noexcept.
prepare_fd ==
  /\ backend = "epoll" /\ opened # Fds
  /\ terminated' = "prepare_fd"
  /\ UNCHANGED <<backend, objectVars, registrations_, backendVars, kernelVars, historyVars>>

unix_make_socket(c, writable) == (backend = "epoll" /\ make_socket(c, writable)) \/ prepare_fd

\* Two descriptors from one call; if either cannot be prepared both are closed.
MakePair(c, d) ==
  \/ \E o, p \in Objects, fd, gd \in Fds :
       /\ backend = "epoll" /\ o # p /\ fd # gd
       /\ Owns(Two(o, fd, p, gd), Two(o, c, p, d), TRUE) /\ UNCHANGED data
  \/ prepare_fd

\* The program opens a descriptor for an object of class c, or closes one (external).
ProgramOpens(c, fd) ==
  /\ backend = "epoll" /\ fd \notin opened
  /\ opened' = opened \cup {fd}
  /\ held' = [held EXCEPT ![fd] = c]
  /\ space' = [space EXCEPT ![fd] = c \in Writers]
  /\ UNCHANGED <<backend, class, socket_, interests_, registrations_, backendVars, data, shut,
                 historyVars, terminated>>

ProgramCloses(fd) ==
  /\ held[fd] # NoClass
  /\ held' = [held EXCEPT ![fd] = NoClass]
  /\ Closed(fd)
  /\ UNCHANGED <<backend, class, socket_, interests_, registrations_, terminated>>

\* The constructor from an int takes a descriptor of the program; when it throws it
\* has closed nothing, and the program still has it.
Adopt(c) ==
  \E o \in Objects, fd \in Fds :
    /\ held[fd] = c /\ ~Valid(o)
    /\ held' = [held EXCEPT ![fd] = NoClass]
    /\ socket_' = [socket_ EXCEPT ![o] = fd]
    /\ class' = [class EXCEPT ![o] = c]
    /\ interests_' = [interests_ EXCEPT ![o] = NoReg]
    /\ UNCHANGED <<backend, registrations_, backendVars, kernelVars, historyVars, terminated>>

\* release gives it back as it is, registered or not.
Release(c) ==
  \E o \in Objects :
    /\ Is(o, c)
    /\ held' = [held EXCEPT ![socket_[o]] = c]
    /\ socket_' = [socket_ EXCEPT ![o] = NoFd]
    /\ class' = [class EXCEPT ![o] = NoClass]
    /\ UNCHANGED <<backend, interests_, registrations_, backendVars, kernelVars, historyVars,
                   terminated>>

\* p, of class c, takes what o has and closes what it had itself.  The default moves
\* of net.cpp copy registry_ and interests_: o, without a socket, keeps them.
MoveTo(o, p, c) ==
  /\ o # p /\ Valid(o) /\ class[p] \in {c, NoClass}
  /\ socket_' = [socket_ EXCEPT ![p] = socket_[o], ![o] = NoFd]
  /\ class' = [class EXCEPT ![p] = c, ![o] = NoClass]
  /\ interests_' = [interests_ EXCEPT ![p] = interests_[o]]
  /\ IF Valid(p) THEN Closed(socket_[p]) ELSE UNCHANGED <<backendVars, kernelVars, historyVars>>
  /\ UNCHANGED <<backend, held, registrations_, terminated>>

\* The destructor of an object that may be registered.
Destroy(o) ==
  /\ Valid(o)
  /\ Closed(socket_[o])
  /\ socket_' = [socket_ EXCEPT ![o] = NoFd]
  /\ class' = [class EXCEPT ![o] = NoClass]
  /\ interests_' = [interests_ EXCEPT ![o] = NoReg]
  /\ UNCHANGED <<backend, held, registrations_, terminated>>

\* Moves and the destructor of a class.
Life(c) ==
  \E o \in Objects : Is(o, c) /\ (Destroy(o) \/ \E p \in Objects : MoveTo(o, p, c))

TcpSocket_life == Life("TcpSocket")
new_v4 == make_socket("TcpSocket", FALSE)
new_v6 == make_socket("TcpSocket", FALSE)
TcpSocket_bind == \E o, p \in Objects : Is(o, "TcpSocket") /\ ~Valid(p) /\ MoveTo(o, p, "TcpListener")
TcpSocket_connect == \E o, p \in Objects : Is(o, "TcpSocket") /\ ~Valid(p) /\ MoveTo(o, p, "TcpStream")

\* The constructors from a handle take a descriptor the program has just opened.
TcpStream_adopt == make_socket("TcpStream", TRUE)
TcpStream_life == Life("TcpStream")
TcpStream_connect == make_socket("TcpStream", FALSE)

TcpListener_adopt == make_socket("TcpListener", FALSE)
TcpListener_life == Life("TcpListener")
TcpListener_bind == make_socket("TcpListener", FALSE)

UdpSocket_adopt == make_socket("UdpSocket", TRUE)
UdpSocket_life == Life("UdpSocket")
UdpSocket_bind == make_socket("UdpSocket", TRUE)

\* Sender, Receiver: the constructors, moves, destructors and release.
Sender_life == Adopt("Sender") \/ Release("Sender") \/ Life("Sender")
Receiver_life == Adopt("Receiver") \/ Release("Receiver") \/ Life("Receiver")
pipe == MakePair("Sender", "Receiver")

UnixStream_adopt == Adopt("UnixStream")
UnixStream_connect == unix_make_socket("UnixStream", FALSE)
UnixStream_pair == MakePair("UnixStream", "UnixStream")
UnixStream_life == Release("UnixStream") \/ Life("UnixStream")

UnixListener_adopt == Adopt("UnixListener")
UnixListener_bind == unix_make_socket("UnixListener", FALSE)
UnixListener_life == Release("UnixListener") \/ Life("UnixListener")

UnixDatagram_adopt == Adopt("UnixDatagram")
UnixDatagram_bind == unix_make_socket("UnixDatagram", TRUE)
UnixDatagram_pair == MakePair("UnixDatagram", "UnixDatagram")
UnixDatagram_life == Release("UnixDatagram") \/ Life("UnixDatagram")

\* With no descriptor to be had the constructor is given -1 and throws.
UnixDatagram_unbound ==
  \/ unix_make_socket("UnixDatagram", TRUE)
  \/ /\ backend = "epoll" /\ opened = Fds
     /\ terminated' = "unbound"
     /\ UNCHANGED <<backend, objectVars, registrations_, backendVars, kernelVars, historyVars>>

------------------------------------------------------------------------------
\* Registry

\* Bounds: readiness is in play for few descriptors, and with few others registered.
Active(fd) == data[fd] > 0 \/ shut[fd] # {} \/ told[fd] # {}

RegisterBound(fd) == Cardinality({fd} \cup {n \in Fds : Active(n)}) <= MaxActive

\* The backend now looks for the given kinds, at those that hold already too.
Arm(fd, kinds) ==
  /\ watch' = [watch EXCEPT ![fd] = kinds]
  /\ armed' = [armed EXCEPT ![fd] = kinds]

\* add_to_backend: on Windows a raw descriptor is not watched.
AddToBackend(fd, kind, interests) ==
  IF backend = "afd" /\ kind # "socket" THEN UNCHANGED backendVars ELSE Arm(fd, interests)

\* update_backend: epoll_ctl(MOD) fails for a descriptor epoll does not have, on
\* Windows it is passed over in silence.
UpdateFails(fd) == backend = "epoll" /\ watch[fd] = {}

\* issue_afd_poll allocates, and asks the kernel to cancel or to poll: each may throw.
MayThrow(fd, kind) == backend = "afd" /\ kind = "socket" /\ watch[fd] # {}

UpdateBackend(fd, kind, interests) ==
  IF backend = "afd" /\ (kind # "socket" \/ watch[fd] = {})
  THEN UNCHANGED backendVars
  ELSE Arm(fd, interests)

\* It threw: the new interests are stored, and what is still asked for depends on
\* where it threw and on a poll that was in flight.
UpdateThrows(fd, kind, interests) ==
  /\ MayThrow(fd, kind)
  /\ watch' = [watch EXCEPT ![fd] = interests]
  /\ \E kinds \in SUBSET interests : armed' = [armed EXCEPT ![fd] = kinds]

\* The classes of unix.cpp leave the callbacks of Source empty.
Remember(o, interests) ==
  interests_' = [interests_ EXCEPT ![o] = IF class[o] \in NetClasses THEN interests ELSE NoReg]

\* The entry of fd changes and no callback says so.
Adrift(fd) ==
  adrift' = IF \E o \in Objects : socket_[o] = fd /\ interests_[o] # NoReg
            THEN adrift \cup {fd} ELSE adrift

SetEntry(fd, interests) == registrations_' = [registrations_ EXCEPT ![fd] = interests]

RegisterSource(o, interests) ==
  /\ Valid(o) /\ class[o] # "TcpSocket"
  /\ registrations_[socket_[o]] = NoReg /\ RegisterBound(socket_[o])
  /\ SetEntry(socket_[o], interests)
  /\ AddToBackend(socket_[o], source_kind(o), interests)
  /\ Remember(o, interests)
  /\ adrift' = adrift \ {socket_[o]}
  /\ UNCHANGED <<backend, class, socket_, held, kernelVars, told, terminated>>

\* The map has changed when update_backend throws; the callback is not called.
Reregister(o, interests) ==
  /\ Valid(o)
  /\ registrations_[socket_[o]] # NoReg
  /\ SetEntry(socket_[o], interests)
  /\ \/ /\ UpdateFails(socket_[o])
        /\ Adrift(socket_[o])
        /\ UNCHANGED <<backendVars, interests_>>
     \/ /\ UpdateThrows(socket_[o], source_kind(o), interests)
        /\ Adrift(socket_[o])
        /\ UNCHANGED interests_
     \/ /\ ~UpdateFails(socket_[o])
        /\ UpdateBackend(socket_[o], source_kind(o), interests)
        /\ Remember(o, interests)
        /\ adrift' = adrift \ {socket_[o]}
  /\ UNCHANGED <<backend, class, socket_, held, kernelVars, told, terminated>>

\* A SourceFd registers a descriptor that it does not own.
SourceFd_register(fd, interests) ==
  /\ backend = "epoll" /\ fd \in opened
  /\ registrations_[fd] = NoReg /\ RegisterBound(fd)
  /\ SetEntry(fd, interests)
  /\ AddToBackend(fd, "raw_descriptor", interests)
  /\ Adrift(fd)
  /\ UNCHANGED <<backend, objectVars, kernelVars, told, terminated>>

Removed(fd) ==
  /\ registrations_[fd] # NoReg
  /\ SetEntry(fd, NoReg)
  /\ Arm(fd, {})

\* A variant whose callback keeps registry_.
Deregister_remembers(o) ==
  /\ Valid(o)
  /\ Removed(socket_[o])
  /\ UNCHANGED <<backend, objectVars, kernelVars, historyVars, terminated>>

Deregister(o) ==
  /\ Valid(o)
  /\ Removed(socket_[o])
  /\ Remember(o, NoReg)
  /\ adrift' = adrift \ {socket_[o]}
  /\ UNCHANGED <<backend, class, socket_, held, kernelVars, told, terminated>>

\* Also of a descriptor that an object has.
DeregisterHandle(fd) ==
  /\ Removed(fd)
  /\ Adrift(fd)
  /\ UNCHANGED <<backend, objectVars, kernelVars, told, terminated>>

------------------------------------------------------------------------------
\* Operations on the sockets

\* A variant that leaves the registration alone.
rearm_after_would_block_never(o) == UNCHANGED <<registrations_, backendVars, adrift, terminated>>

\* The throwing reregister_handle, called from noexcept functions.
rearm_after_would_block(o) ==
  LET fd == socket_[o]
      Throws == interests_[o] # NoReg /\ (registrations_[fd] = NoReg \/ UpdateFails(fd))
  IN \/ /\ interests_[o] = NoReg
        /\ UNCHANGED <<registrations_, backendVars, adrift, terminated>>
     \/ /\ Throws /\ terminated' = "rearm"
        /\ UNCHANGED <<registrations_, backendVars, adrift>>
     \/ /\ interests_[o] # NoReg /\ ~Throws
        /\ MayThrow(fd, source_kind(o)) /\ terminated' = "afd"
        /\ UNCHANGED <<registrations_, backendVars, adrift>>
     \/ /\ interests_[o] # NoReg /\ ~Throws
        /\ SetEntry(fd, interests_[o])
        /\ UpdateBackend(fd, source_kind(o), interests_[o])
        /\ adrift' = adrift \ {fd} /\ UNCHANGED terminated

WouldBlock(o, kind) ==
  /\ Valid(o)
  /\ kind \notin Level(socket_[o])
  /\ rearm_after_would_block(o)
  /\ told' = [told EXCEPT ![socket_[o]] = @ \ {kind}]
  /\ UNCHANGED <<backend, objectVars, kernelVars>>

Taken(fd) == data' = [data EXCEPT ![fd] = @ - 1]

\* A variant that takes a would-block error for a received unit.
Receive_unchecked(o, c) ==
  /\ Is(o, c) /\ Taken(socket_[o])
  /\ UNCHANGED <<backend, objectVars, registrations_, backendVars, opened, space, shut, historyVars, terminated>>

\* At the end of the stream 0 is returned and nothing changes.
Receive(o, c) ==
  /\ Is(o, c)
  /\ \/ /\ data[socket_[o]] > 0 /\ Taken(socket_[o])
        /\ UNCHANGED <<backend, objectVars, registrations_, backendVars,
                       opened, space, shut, historyVars, terminated>>
     \/ WouldBlock(o, "READABLE")

\* What is written may fill the socket.
Transmit(o, c) ==
  /\ Is(o, c)
  /\ \/ /\ space[socket_[o]] /\ "WRITABLE" \notin shut[socket_[o]]
        /\ space' \in {space, [space EXCEPT ![socket_[o]] = FALSE]}
        /\ UNCHANGED <<backend, objectVars, registrations_, backendVars,
                       opened, data, shut, historyVars, terminated>>
     \/ WouldBlock(o, "WRITABLE")

TcpStream_read(o) == Receive(o, "TcpStream")
TcpStream_read_vectored(o) == Receive(o, "TcpStream")
TcpStream_write(o) == Transmit(o, "TcpStream")
TcpStream_write_vectored(o) == Transmit(o, "TcpStream")
UdpSocket_recv(o) == Receive(o, "UdpSocket")
UdpSocket_recv_from(o) == Receive(o, "UdpSocket")
UdpSocket_recv_vectored_from(o) == Receive(o, "UdpSocket")
UdpSocket_peek_from(o) == Is(o, "UdpSocket") /\ WouldBlock(o, "READABLE")
UdpSocket_send(o) == Transmit(o, "UdpSocket")
UdpSocket_send_to(o) == Transmit(o, "UdpSocket")
UdpSocket_send_vectored_to(o) == Transmit(o, "UdpSocket")
Sender_write(o) == Transmit(o, "Sender")
Receiver_read(o) == Receive(o, "Receiver")
UnixStream_read(o) == Receive(o, "UnixStream")
UnixStream_write(o) == Transmit(o, "UnixStream")
UnixDatagram_send(o) == Transmit(o, "UnixDatagram")
UnixDatagram_send_to(o) == Transmit(o, "UnixDatagram")
UnixDatagram_recv_from(o) == Receive(o, "UnixDatagram")
UnixDatagram_recv_vectored_from(o) == Receive(o, "UnixDatagram")

\* accept hands the connection to a new object of class d.
Accept(l, c, d) ==
  /\ Is(l, c)
  /\ \/ /\ data[socket_[l]] > 0 /\ Taken(socket_[l])
        /\ \E o \in Objects, fd \in Fds : Owns(One(o, fd), One(o, d), TRUE)
     \/ WouldBlock(l, "READABLE")

\* A variant that forgets the accepted descriptor.
AcceptFails_leaks(l, c) ==
  /\ Is(l, c) /\ data[socket_[l]] > 0 /\ Taken(socket_[l])
  /\ \E fd \in Fds \ opened : opened' = opened \cup {fd}
  /\ UNCHANGED <<backend, objectVars, registrations_, backendVars, space, shut, historyVars, terminated>>

\* The accepted descriptor is closed again when the new object cannot be set up: in
\* TcpListener whatever fails, in UnixListener when memory for the path is short.
AcceptFails(l, c) ==
  /\ Is(l, c) /\ data[socket_[l]] > 0 /\ Taken(socket_[l])
  /\ opened # Fds
  /\ UNCHANGED <<backend, objectVars, registrations_, backendVars,
                 opened, space, shut, historyVars, terminated>>

TcpListener_accept(l) == Accept(l, "TcpListener", "TcpStream") \/ AcceptFails(l, "TcpListener")
UnixListener_accept(l) ==
  \/ Accept(l, "UnixListener", "UnixStream") \/ AcceptFails(l, "UnixListener")
  \/ Is(l, "UnixListener") /\ data[socket_[l]] > 0 /\ prepare_fd

------------------------------------------------------------------------------
\* Readiness that arises, the other side (external), and poll

\* The descriptor of an object, or that the program has for one, of these classes.
IsFor(fd, classes) ==
  held[fd] \in classes \/ \E o \in Objects : socket_[o] = fd /\ class[o] \in classes

Bounded(fd) ==
  Cardinality({fd} \cup {n \in Fds : Active(n) \/ registrations_[n] # NoReg}) <= MaxActive

Rises(fd, kinds) ==
  /\ armed' = IF backend = "epoll" THEN [armed EXCEPT ![fd] = @ \cup (watch[fd] \cap kinds)] ELSE armed
  /\ UNCHANGED <<backend, objectVars, registrations_, watch, opened, historyVars, terminated>>

\* Operations of these kinds end at once from now on.
Ends(fd, kinds) ==
  /\ ~(kinds \subseteq shut[fd]) /\ Bounded(fd)
  /\ shut' = [shut EXCEPT ![fd] = @ \cup kinds]
  /\ Rises(fd, kinds) /\ UNCHANGED <<data, space>>

Shutdown(o, c, kinds) == Is(o, c) /\ Ends(socket_[o], kinds)

TcpStream_shutdown(o) ==
  \E kinds \in {{"READABLE"}, {"WRITABLE"}, IoKinds} : Shutdown(o, "TcpStream", kinds)

UnixStream_shutdown(o) ==
  \E kinds \in {{"READABLE"}, {"WRITABLE"}, IoKinds} : Shutdown(o, "UnixStream", kinds)

\* Data or a connection arrives; the peer closes or the connection fails; a
\* connection is established or a full socket drains.
Arrive(fd) ==
  /\ IsFor(fd, Classes \ {"TcpSocket", "Sender"})
  /\ data[fd] < MaxData /\ Bounded(fd)
  /\ data' = [data EXCEPT ![fd] = @ + 1]
  /\ Rises(fd, {"READABLE"}) /\ UNCHANGED <<space, shut>>

PeerCloses(fd) ==
  /\ IsFor(fd, {"TcpStream", "UnixStream"})
  /\ Ends(fd, {"READABLE"})

Drained(fd) ==
  /\ IsFor(fd, Writers)
  /\ ~space[fd]
  /\ space' = [space EXCEPT ![fd] = TRUE]
  /\ Rises(fd, {"WRITABLE"}) /\ UNCHANGED <<data, shut>>

\* An Event for fd.  epoll reports all that holds and waits for the next edge, AFD
\* reports what it was asked for and does not look for that again.
PollReport(fd) ==
  LET kinds == IF backend = "epoll" THEN watch[fd] \cap Level(fd) ELSE armed[fd] \cap Level(fd)
  IN /\ armed[fd] \cap Level(fd) # {} /\ Bounded(fd)
     /\ armed' = [armed EXCEPT ![fd] = IF backend = "epoll" THEN {} ELSE @ \ kinds]
     /\ told' = [told EXCEPT ![fd] = @ \cup kinds]
     /\ UNCHANGED <<backend, objectVars, registrations_, watch, kernelVars, adrift, terminated>>

------------------------------------------------------------------------------
Init ==
  /\ backend \in Backends
  /\ class = [o \in Objects |-> NoClass]
  /\ socket_ = [o \in Objects |-> NoFd]
  /\ interests_ = [o \in Objects |-> NoReg]
  /\ held = [fd \in Fds |-> NoClass]
  /\ registrations_ = [fd \in Fds |-> NoReg]
  /\ watch = [fd \in Fds |-> {}]
  /\ armed = [fd \in Fds |-> {}]
  /\ opened = {}
  /\ data = [fd \in Fds |-> 0]
  /\ space = [fd \in Fds |-> FALSE]
  /\ shut = [fd \in Fds |-> {}]
  /\ terminated = "no"
  /\ told = [fd \in Fds |-> {}] /\ adrift = {}

Takes(o) ==
  \/ TcpStream_read(o) \/ TcpStream_read_vectored(o) \/ TcpListener_accept(o)
  \/ UdpSocket_recv(o) \/ UdpSocket_recv_from(o) \/ UdpSocket_recv_vectored_from(o)
  \/ UdpSocket_peek_from(o)
  \/ Receiver_read(o) \/ UnixStream_read(o) \/ UnixListener_accept(o)
  \/ UnixDatagram_recv_from(o) \/ UnixDatagram_recv_vectored_from(o)

Gives(o) ==
  \/ TcpStream_write(o) \/ TcpStream_write_vectored(o) \/ TcpStream_shutdown(o)
  \/ UdpSocket_send(o) \/ UdpSocket_send_to(o) \/ UdpSocket_send_vectored_to(o)
  \/ Sender_write(o) \/ UnixStream_write(o) \/ UnixStream_shutdown(o)
  \/ UnixDatagram_send(o) \/ UnixDatagram_send_to(o)

Lives ==
  \/ TcpSocket_life \/ new_v4 \/ new_v6 \/ TcpSocket_bind \/ TcpSocket_connect
  \/ TcpStream_life \/ TcpStream_adopt \/ TcpStream_connect
  \/ TcpListener_life \/ TcpListener_adopt \/ TcpListener_bind
  \/ UdpSocket_life \/ UdpSocket_adopt \/ UdpSocket_bind
  \/ Sender_life \/ Receiver_life \/ pipe
  \/ UnixStream_life \/ UnixStream_adopt \/ UnixStream_connect \/ UnixStream_pair
  \/ UnixListener_life \/ UnixListener_adopt \/ UnixListener_bind
  \/ UnixDatagram_life \/ UnixDatagram_adopt \/ UnixDatagram_bind
  \/ UnixDatagram_pair \/ UnixDatagram_unbound

RegistryCall ==
  \/ \E o \in Objects : Deregister(o)
  \/ \E o \in Objects, interests \in InterestSets :
       RegisterSource(o, interests) \/ Reregister(o, interests)
  \/ \E fd \in Fds : DeregisterHandle(fd)
  \/ \E fd \in Fds, interests \in InterestSets : SourceFd_register(fd, interests)

Next ==
  /\ terminated = "no"
  /\ \/ Lives \/ RegistryCall
     \/ \E o \in Objects : Takes(o) \/ Gives(o)
     \/ \E fd \in Fds : ProgramCloses(fd) \/ \E c \in UnixClasses : ProgramOpens(c, fd)
     \/ \E fd \in Fds : Arrive(fd) \/ PeerCloses(fd) \/ Drained(fd) \/ PollReport(fd)

Spec == Init /\ [][Next]_vars

------------------------------------------------------------------------------
\* Every variable has its type: what is received was there.
TypeOK ==
  /\ backend \in Backends
  /\ class \in [Objects -> Classes \cup {NoClass}]
  /\ socket_ \in [Objects -> Fds \cup {NoFd}]
  /\ interests_ \in [Objects -> InterestSets \cup {NoReg}]
  /\ held \in [Fds -> UnixClasses \cup {NoClass}]
  /\ registrations_ \in [Fds -> InterestSets \cup {NoReg}]
  /\ watch \in [Fds -> SUBSET IoKinds]
  /\ armed \in [Fds -> SUBSET IoKinds]
  /\ opened \subseteq Fds
  /\ data \in [Fds -> 0..MaxData]
  /\ space \in [Fds -> BOOLEAN]
  /\ shut \in [Fds -> SUBSET IoKinds]
  /\ terminated \in {"no", "rearm", "afd", "prepare_fd", "unbound"}
  /\ told \in [Fds -> SUBSET IoKinds] /\ adrift \subseteq Fds

\* Every open descriptor has exactly one owner, an object or the program: no path of
\* accept, bind, connect, pair, pipe, a constructor from a handle, release, a move or a
\* destructor leaks one, or lets two close it.
OneOwner ==
  \A fd \in Fds :
    Cardinality({o \in Objects : socket_[o] = fd}) + (IF held[fd] = NoClass THEN 0 ELSE 1)
      = IF fd \in opened THEN 1 ELSE 0

\* A source with a descriptor that remembers a registration remembers the one in the
\* Selector's map, whatever has happened to other holders of the number and wherever
\* the source was moved, unless the program changed the entry by handle or was told
\* that reregister failed.  So a would-block in read, write, accept, send or recv ends
\* the process, by registering again what is not there, only when the program
\* deregistered the descriptor by its handle.
RemembersItsEntry ==
  /\ \A o \in Objects :
       Valid(o) /\ interests_[o] # NoReg /\ socket_[o] \notin adrift
         => registrations_[socket_[o]] = interests_[o]
  /\ terminated = "rearm" =>
       \E o \in Objects :
         /\ Valid(o) /\ interests_[o] # NoReg
         /\ socket_[o] \in adrift /\ registrations_[socket_[o]] = NoReg

\* A program that works on what it is told until that would block misses nothing:
\* all readiness that is watched for an open descriptor and holds has been told and
\* not exhausted since, or will be told.  With AFD this rests on
\* rearm_after_would_block, with epoll on the edges; a reregister that AFD made fail
\* is the exception, until the next call succeeds.
ReadinessKept ==
  \A fd \in opened :
    backend = "epoll" \/ fd \notin adrift => watch[fd] \cap Level(fd) \subseteq told[fd] \cup armed[fd]

\* What is registered is watched.  README.md registers a TcpStream with a Poll and
\* lists Windows among the platforms.
RegisteredIsWatched ==
  \A o \in Objects :
    Valid(o) /\ interests_[o] # NoReg /\ socket_[o] \notin adrift => watch[socket_[o]] # {}

\* unbound(ec) reports that there is no descriptor.  README.md: all methods have
\* error_code overloads, for programs that are built without exceptions.
UnboundReportsError == terminated # "unbound"

==============================================================================
