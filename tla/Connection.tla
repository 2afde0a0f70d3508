----------------------------- MODULE Connection -----------------------------
(***************************************************************************)
(* src/connection.c with its four implementations, and what they use of    *)
(* src/socket_helper.c: reference-counted connections, each of which owns  *)
(* the descriptor it has opened or was given.  A ux connection also has a  *)
(* reference to the datagram connection it is bound to.                    *)
(*                                                                         *)
(* The operating system and the ux library are external: any call to them  *)
(* may fail.  Descriptor 0 is taken to be in use, as the code takes it for *)
(* a failure (connection_impl.c:40); kernel descriptors and ux sockets are *)
(* told apart, as nothing passes one for the other.                        *)
(***************************************************************************)
EXTENDS Integers, FiniteSets

CONSTANTS
    Conns,        \* the addresses malloc may return for a connection
    Unallocated,  \* the content of an address that is not allocated
    NoConn,       \* the null pointer
    Fds,          \* the descriptors, which are positive
    Closed,       \* _fd is 0 or -1
    MaxHeld       \* bound on the references the program has to a connection

VARIABLES
    conns,        \* the connection at each address, or Unallocated
    socks,        \* the descriptors that are open
    held          \* how many references the program has to each

connVars == <<conns, socks, held>>

ConnKinds == {"inet_stream", "inet_dgram", "ux_stream", "ux_dgram"}
UxKinds == {"ux_stream", "ux_dgram"}

(* _impl, _fd, _udpconn and the count of awe_object.                       *)
ConnectionRecord ==
    [kind : ConnKinds, fd : Fds \cup {Closed}, udp : Conns \cup {NoConn}, refs : Nat]

ASSUME UnallocatedIsNoConnection == Unallocated \notin ConnectionRecord
ASSUME ClosedIsNoDescriptor == Closed \notin Fds /\ NoConn \notin Conns
ASSUME MaxHeldIsNumber == MaxHeld \in Nat

ConnTypeOK ==
    /\ conns \in [Conns -> ConnectionRecord \cup {Unallocated}]
    /\ socks \subseteq Fds
    /\ held \in [Conns -> Nat]

ConnInit ==
    /\ conns = [c \in Conns |-> Unallocated]
    /\ socks = {}
    /\ held = [c \in Conns |-> 0]

Allocated == {c \in Conns : conns[c] # Unallocated}
IsOpen(c) == conns[c].fd # Closed
-----------------------------------------------------------------------------
(* What a call that opens a descriptor may lead to: the descriptor that it *)
(* returns, and those that are open then.                                  *)
Failed(open) == [fd |-> Closed, open |-> open]
Opened(f) == [fd |-> f, open |-> socks \cup {f}]

(* awe_socket_create.                                                      *)
SocketCreate == {Failed(socks)} \cup {Opened(f) : f \in Fds \ socks}

(* Mutant: a later call fails, and the socket stays open.                  *)
SetupLeaks == SocketCreate \cup {Failed(s.open) : s \in SocketCreate}

(* awe_socket_stream_setup and awe_socket_datagram_setup: a later call (to *)
(* set an option, to bind or not to block) may fail, the socket is closed. *)
Setup == SocketCreate \cup {Failed(s.open \ {s.fd}) : s \in SocketCreate}

(* awe_socket_addrinfo finds no address for the host.                      *)
NoAddress == Failed(socks)

(* inet_stream_open: no address, no socket, or no connection.              *)
StreamOpen ==
    {NoAddress} \cup Setup
      \cup {Failed(s.open \ {s.fd}) : s \in {x \in Setup : x.fd # Closed}}

(* inet_dgram_open.                                                        *)
DgramOpen == {NoAddress} \cup Setup

(* conn_ux_open: the datagram connection must be open; whether ux_connect  *)
(* fails is not looked at.                                                 *)
UxOpen(udp) ==
    IF udp \in Allocated /\ IsOpen(udp)
      THEN SocketCreate \cup {Failed(s.open \ {s.fd}) : s \in SocketCreate}
      ELSE {Failed(socks)}

(* awe_connection_open, of a connection that is not open.                  *)
OpenOutcomes(kind, udp) ==
    CASE kind = "inet_stream" -> StreamOpen
      [] kind = "inet_dgram" -> DgramOpen
      [] kind \in UxKinds -> {NoAddress} \cup UxOpen(udp)
-----------------------------------------------------------------------------
(* awe_connection_stream, awe_connection_dgram and awe_connection_ux: the  *)
(* connections with a new one at c, for a descriptor or without.  A kind   *)
(* is of a family the library knows: for any other, awe_connection_dgram   *)
(* autoreleases what it made (lines 57 to 59), and the close of that calls *)
(* through an _impl that is still null.                                    *)
Created(c, kind, fd, udp) ==
    [d \in Conns |->
        CASE d = c -> [kind |-> kind, fd |-> fd, udp |-> udp, refs |-> 1]
          [] d = udp -> [conns[d] EXCEPT !.refs = @ + 1]
          [] OTHER -> conns[d]]

(* The connections that end with a reference to c: c itself, if it was the *)
(* last one, and then the one it is bound to, if that was the last too.    *)
Ending(c) ==
    IF conns[c].refs > 1 THEN {}
    ELSE {c} \cup {d \in Conns : d = conns[c].udp /\ conns[d].refs = 1}

WithoutRef(c) ==
    [d \in Conns |->
        IF d \in Ending(c) THEN Unallocated
        ELSE IF d = c \/ (c \in Ending(c) /\ d = conns[c].udp)
               THEN [conns[d] EXCEPT !.refs = @ - 1]
        ELSE conns[d]]

(* awe_connection_autorelease: the last reference closes the connection,   *)
(* gives up the reference to its datagram connection, and frees it.        *)
LetGo(c) ==
    /\ conns' = WithoutRef(c)
    /\ socks' = socks \ {conns[d].fd : d \in Ending(c)}
-----------------------------------------------------------------------------
(* The calls of a program, for connections that it has a reference to.     *)

(* A connection without a descriptor, or with one that was accepted.       *)
Create(c) ==
    /\ c \notin Allocated
    /\ \E kind \in ConnKinds, udp \in Conns \cup {NoConn} :
         /\ IF kind \in UxKinds
              THEN udp # NoConn /\ held[udp] > 0 /\ conns[udp].kind = "inet_dgram"
              ELSE udp = NoConn
         /\ \/ conns' = Created(c, kind, Closed, udp) /\ UNCHANGED socks
            \/ \E f \in Fds \ socks :
                 /\ conns' = Created(c, kind, f, udp)
                 /\ socks' = socks \cup {f}
    /\ held' = [held EXCEPT ![c] = 1]

ConnAddRef(c) ==
    /\ held[c] \in 1 .. MaxHeld - 1
    /\ conns' = [conns EXCEPT ![c].refs = @ + 1]
    /\ held' = [held EXCEPT ![c] = @ + 1]
    /\ UNCHANGED socks

ConnAutorelease(c) ==
    /\ held[c] > 0
    /\ LetGo(c)
    /\ held' = [held EXCEPT ![c] = @ - 1]

(* awe_connection_open and awe_connection_open2, which only ux datagram    *)
(* connections have.  An open one stays as it is, whatever is asked for.   *)
ConnOpen(c) ==
    /\ held[c] > 0
    /\ ~IsOpen(c)
    /\ \E o \in OpenOutcomes(conns[c].kind, conns[c].udp) :
         /\ conns' = [conns EXCEPT ![c].fd = o.fd]
         /\ socks' = o.open
    /\ UNCHANGED held

(* awe_connection_close.                                                   *)
ConnClose(c) ==
    /\ held[c] > 0
    /\ conns' = [conns EXCEPT ![c].fd = Closed]
    /\ socks' = socks \ {conns[c].fd}
    /\ UNCHANGED held

ConnNext ==
    \E c \in Conns :
        Create(c) \/ ConnAddRef(c) \/ ConnAutorelease(c) \/ ConnOpen(c) \/ ConnClose(c)

ConnSpec == ConnInit /\ [][ConnNext]_connVars
-----------------------------------------------------------------------------
(* Every open descriptor belongs to exactly one connection, and every      *)
(* descriptor that a connection has is open.                               *)
DescriptorsOwned ==
    /\ socks = {conns[c].fd : c \in {d \in Allocated : IsOpen(d)}}
    /\ \A c, d \in Allocated : IsOpen(c) /\ conns[c].fd = conns[d].fd => c = d

(* A connection has as many references as there are holders: the program,  *)
(* the ux connections bound to it, and others.                             *)
RefsAre(others) ==
    \A c \in Conns :
        LET bound == {d \in Allocated : conns[d].udp = c}
            count == held[c] + Cardinality(bound) + others[c]
        IN  IF c \in Allocated THEN conns[c].refs = count /\ count > 0 ELSE count = 0

(* No descriptor leaks when a step of an open fails or a connection is     *)
(* opened twice, none is closed twice, a connection is freed with its last *)
(* reference, and no ux connection outlives the one it is bound to         *)
(* (connection_impl.c:24, connection_ux_impl.c:25, connection.c:92-118).   *)
ConnectionsOwned == DescriptorsOwned /\ RefsAre([c \in Conns |-> 0])
=============================================================================
