------------------------- MODULE UxConnectorProofs -------------------------
(***************************************************************************)
(* Proofs about UxConnector, for any number of threads, connectors,        *)
(* connections and sockets.  The first half is about every program:        *)
(* descriptors and references have their owners and the uxscheduler below  *)
(* keeps what it promises.  The second is about programs that keep the     *)
(* rules: connectors are used while they exist, and each tells its outcome *)
(* once.                                                                   *)
(***************************************************************************)
EXTENDS UxConnector, UxSchedulerProofs, ConnectionProofs

-----------------------------------------------------------------------------
(* The threads of the uxscheduler, whoever starts and stops it: there is   *)
(* one worker at a time that does anything, and one that clears the lists  *)
(* does it when nobody can start.                                          *)

Active(w) == pc[w] \notin {"none", "pend", "halt"}

Named == \A w \in Workers : Active(w) => tid = w

Clearing == {"clear", "cleartasks", "dispose"}

EndedStopped ==
    /\ life \in {"live", "destroying", "freed"}
    /\ \A t \in Threads : pc[t] \in Clearing \cup {"destroy"} => life # "live"
    /\ life # "live" =>
         \A c \in Clients : pc[c] \in Clearing \cup {"join"} => ~started

Turns == Named /\ EndedStopped

(* A step in which one thread, or none, goes somewhere.                    *)
LEMMA OneThreadMoves ==
    ASSUME Inv, Turns, NEW t \in Threads, NEW label, Goto(t, label),
           tid' = tid, life' = life, started' => started,
           t \in Workers => Active(t) \/ label \in {"none", "pend", "halt"},
           label # "destroy", label \in Clearing => life # "live" /\ ~started,
           t \in Clients /\ life # "live" /\ label = "join" => ~started'
    PROVE  Turns'
PROOF
<1>1. pc' = [pc EXCEPT ![t] = label] /\ pc \in [Threads -> AllPCs]
  BY DEF Inv, Types, Goto
<1>2. pc'[t] = label /\ \A u \in Threads \ {t} : pc'[u] = pc[u]
  BY <1>1
<1>3. Named'
  BY <1>2, ThreadsAre DEF Turns, Named, Active
<1>4. EndedStopped'
  BY <1>2, ThreadsAre DEF Turns, EndedStopped, Clearing
<1> QED
  BY <1>3, <1>4 DEF Turns

LEMMA NobodyMoves ==
    ASSUME Turns, pc' = pc, tid' = tid, life' = life, started' = started
    PROVE  Turns'
PROOF
<1> QED
  BY DEF Turns, Named, Active, EndedStopped

LEMMA OwnerTakesTurns ==
    ASSUME Inv, Turns, NEW t \in Threads, OwnerStep(t)
    PROVE  Turns'
PROOF
<1>1. CASE StartLock(t)
  <2>1. CASE Abort("tid") \/ Abort("create")
    BY <2>1, NobodyMoves DEF Abort, sharedVars, threadVars, schedVars
  <2>2. CASE ~(Abort("tid") \/ Abort("create"))
    <3>1. PICK w \in Workers :
            /\ pc[w] = "none" /\ tid = NoThread /\ tid' = w
            /\ pc' = [pc EXCEPT ![t] = "arm", ![w] = "loop"]
            /\ life' = life /\ pc[t] = Resting(t) /\ (t \in Clients => life = "live")
      BY <1>1, <2>2 DEF StartLock, CanCall, Spawn, restVars
    <3>2. \A u \in Workers : ~Active(u)
      BY <3>1, NoWorker DEF Turns, Named
    <3>3. t \in Clients
      BY <3>1, <3>2, ThreadsAre DEF Active, Resting
    <3>4. /\ pc'[t] = "arm" /\ pc'[w] = "loop"
          /\ \A u \in Threads \ {t, w} : pc'[u] = pc[u]
      BY <3>1, <3>3, ThreadsAre DEF Inv, Types
    <3>5. Named'
      BY <3>1, <3>2, <3>3, <3>4, ThreadsAre DEF Named, Active
    <3>6. EndedStopped'
      BY <3>1, <3>3, <3>4, ThreadsAre DEF Turns, EndedStopped, Clearing
    <3> QED
      BY <3>5, <3>6 DEF Turns
  <2> QED
    BY <2>1, <2>2
<1>2. CASE StartArm(t)
  BY <1>2, OneThreadMoves
     DEF StartArm, ArmExitPending, Active, Clearing, schedVars, restVars
<1>3. CASE StartMark(t)
  <2>1. Resting(t) \in {"idle", "event", "proc"}
    BY DEF Resting
  <2> QED
    BY <1>3, <2>1, OneThreadMoves
       DEF StartMark, MarkRunning, Active, Clearing, schedVars, restVars
<1>4. CASE StopLock(t)
  <2>1. pc[t] \in {"idle", "event", "proc", "destroy"}
    BY <1>4 DEF StopLock, CanCall, Resting
  <2>2. t \in Workers => Active(t)
    BY <2>1 DEF Active
  <2> QED
    BY <1>4, <2>2, OneThreadMoves DEF StopLock, RequestExit, Clearing, restVars
<1>5. CASE StopJoin(t)
  <2>1. pc[t] = "join" /\ UNCHANGED <<tid, started, life>>
    BY <1>5 DEF StopJoin, threadVars, schedVars, restVars
  <2>2. CASE pc' = pc
    BY <2>1, <2>2, NobodyMoves
  <2>3. CASE t \in Clients /\ life = "destroying" /\ Goto(t, "clear")
    <3>1. ~started
      BY <2>1, <2>3 DEF Turns, EndedStopped
    <3> QED
      BY <2>1, <2>3, <3>1, OneThreadMoves, ThreadsAre DEF Clearing
  <2>4. CASE Goto(t, Resting(t))
    <3>1. Resting(t) \in {"idle", "event", "proc"}
      BY DEF Resting
    <3> QED
      BY <2>1, <2>4, <3>1, OneThreadMoves DEF Active, Clearing
  <2> QED
    BY <1>5, <2>2, <2>3, <2>4 DEF StopJoin
<1>6. CASE Destroy(t)
  <2>1. /\ pc' = [pc EXCEPT ![t] = "destroy"] /\ life' = "destroying"
        /\ tid' = tid /\ started' = started /\ t \in Clients
        /\ \A c \in Clients : pc[c] = "idle"
    BY <1>6 DEF Destroy, Goto, sharedVars, threadVars, schedVars
  <2>2. pc'[t] = "destroy" /\ \A u \in Threads \ {t} : pc'[u] = pc[u]
    BY <2>1 DEF Inv, Types
  <2>3. \A u \in Threads : pc[u] \notin Clearing
    BY <2>1, OnlyClients, ThreadsAre DEF Clearing
  <2> QED
    BY <2>1, <2>2, <2>3, ThreadsAre DEF Turns, Named, Active, EndedStopped, Clearing
<1>7. CASE DestroyStopped(t)
  <2>1. /\ pc[t] = "destroy" /\ Goto(t, "clear") /\ ~started
        /\ UNCHANGED <<tid, started, life>>
    BY <1>7 DEF DestroyStopped, MoveOn, sharedVars, threadVars, schedVars, restVars
  <2>2. t \in Clients /\ t \notin Workers
    BY <2>1, OnlyClients, ThreadsAre
  <2>3. life # "live"
    BY <2>1 DEF Turns, EndedStopped
  <2> QED
    BY <2>1, <2>2, <2>3, OneThreadMoves DEF Clearing
<1>8. CASE DestroyClear(t) \/ DestroyClearTasks(t)
  <2>1. /\ pc[t] \in Clearing /\ UNCHANGED <<tid, started, life>>
        /\ Goto(t, "cleartasks") \/ Goto(t, "dispose")
    BY <1>8 DEF DestroyClear, DestroyClearTasks, Clearing, threadVars, schedVars, restVars
  <2>2. t \in Clients /\ t \notin Workers
    BY <2>1, OnlyClients, ThreadsAre DEF Clearing
  <2>3. life # "live" /\ ~started
    BY <2>1, <2>2, ThreadsAre DEF Turns, EndedStopped
  <2> QED
    BY <2>1, <2>2, <2>3, OneThreadMoves
<1>9. CASE DestroyFree(t)
  <2>1. pc[t] = "dispose" /\ tid' = tid /\ started' = started
    BY <1>9 DEF DestroyFree, Abort, sharedVars, threadVars, schedVars
  <2>2. t \in Clients
    BY <2>1, OnlyClients
  <2>3. CASE pc' = pc /\ life' = life
    BY <2>1, <2>3, NobodyMoves
  <2>4. CASE Goto(t, "idle") /\ life' = "freed"
    <3>1. pc'[t] = "idle" /\ \A u \in Threads \ {t} : pc'[u] = pc[u]
      BY <2>4 DEF Inv, Types, Goto
    <3>2. life # "live"
      BY <2>1, <2>2, ThreadsAre DEF Turns, EndedStopped, Clearing
    <3> QED
      BY <2>1, <2>2, <2>4, <3>1, <3>2, ThreadsAre
         DEF Turns, Named, Active, EndedStopped, Clearing
  <2> QED
    BY <1>9, <2>3, <2>4 DEF DestroyFree, Abort
<1> QED
  BY <1>1, <1>2, <1>3, <1>4, <1>5, <1>6, <1>7, <1>8, <1>9 DEF OwnerStep

LEMMA NextTurns == Inv /\ Turns /\ [Next]_vars => Turns'
PROOF
<1> SUFFICES ASSUME Inv, Turns, [Next]_vars PROVE Turns'
  OBVIOUS
<1>1. ASSUME NEW t \in Threads, UserStep(t) \/ Timeout(t) \/ Spurious(t)
      PROVE  Turns'
  <2>1. UNCHANGED <<tid, started, life>>
    BY <1>1 DEF UserStep, Add, Enable, Disable, Rm, RmReturn, Post, Cancel, Timeout, Spurious,
       sharedVars, threadVars, schedVars, restVars
  <2>2. CASE pc' = pc
    BY <2>1, <2>2, NobodyMoves
  <2>3. CASE ~(pc' = pc)
    <3>1. \/ Goto(t, "rm") /\ pc[t] = Resting(t)
          \/ Goto(t, Resting(t)) /\ pc[t] = "rm"
      BY <1>1, <2>3 DEF UserStep, Add, Enable, Disable, Rm, RmReturn, Post, Cancel, Timeout,
         Spurious, CanCall, restVars
    <3>2. Resting(t) \in {"idle", "event", "proc"} /\ (t \in Workers => Resting(t) # "idle")
      BY ThreadsAre DEF Resting
    <3> QED
      BY <2>1, <3>1, <3>2, OneThreadMoves DEF Active, Clearing
  <2> QED
    BY <2>2, <2>3
<1>2. ASSUME NEW w \in Workers, WorkerStep(w), ~Forget(w)
      PROVE  Turns'
  <2>1. UNCHANGED <<tid, started, life>>
    BY <1>2 DEF WorkerStep, Loop, LockWait, CheckStarted, Prepare, SelectReady, SelectTimesOut,
       SelectFails, Find, Call, HandlerReturns, TakeTask, Run, Return, Drop, Leave, Pend, Halt,
       MoveOn, Abort, PendAtExit, ClearRunning, sharedVars, threadVars, schedVars, restVars
  <2>2. CASE pc' = pc
    BY <2>1, <2>2, NobodyMoves
  <2>3. CASE ~(pc' = pc)
    <3>1. PICK label \in {"none", "lock", "check", "prepare", "select", "find", "call", "event",
                          "timer", "run", "proc", "drop", "leave", "forget", "loop", "halt"} :
            Goto(w, label) /\ (Active(w) \/ label \in {"none", "halt"})
      BY <1>2, <2>3 DEF WorkerStep, Loop, LockWait, CheckStarted, Prepare, SelectReady,
         SelectTimesOut, SelectFails, Find, Call, HandlerReturns, TakeTask, Run, Return, Drop,
         Leave, Pend, Halt, MoveOn, Abort, Active
    <3> QED
      BY <2>1, <3>1, OneThreadMoves, ThreadsAre DEF Clearing
  <2> QED
    BY <2>2, <2>3
<1>3. ASSUME NEW w \in Workers, Forget(w)
      PROVE  Turns'
  <2>1. /\ pc[w] = "forget" /\ tid' = NoThread /\ pc' = [pc EXCEPT ![w] = "pend"]
        /\ UNCHANGED <<started, life>>
    BY <1>3 DEF Forget, ForgetTid, Goto, schedVars, restVars
  <2>2. pc'[w] = "pend" /\ \A u \in Threads \ {w} : pc'[u] = pc[u]
    BY <2>1, ThreadsAre DEF Inv, Types
  <2>3. \A u \in Workers \ {w} : ~Active(u)
    BY <2>1 DEF Turns, Named, Active
  <2>4. Named'
    BY <2>2, <2>3, ThreadsAre DEF Named, Active
  <2>5. EndedStopped'
    BY <2>1, <2>2, ThreadsAre DEF Turns, EndedStopped, Clearing
  <2> QED
    BY <2>4, <2>5 DEF Turns
<1>4. CASE Tick \/ UNCHANGED vars
  BY <1>4, NobodyMoves DEF Tick, vars, sharedVars, threadVars, schedVars, restVars
<1> QED
  BY <1>1, <1>2, <1>3, <1>4, OwnerTakesTurns DEF Next, Terminated
-----------------------------------------------------------------------------
(* Every program: types, what the program knows of sockets and tasks, and  *)
(* who holds the connections.                                              *)

Handlers == [proc : {"connect", "user"}, connector : Connectors]

CNTypes ==
    /\ program \in Programs
    /\ connectors \in [Connectors -> ConnectorRecord \cup {NoConnector}]
    /\ procs \in [Ufds -> Handlers \cup {NoConnector}]
    /\ taskOf \in [Addr -> Connectors \cup {NoConnector}]
    /\ doing \in [Threads -> Doing]
    /\ telling \in [Workers -> Connectors \cup {NoConnector}]
    /\ awaiting \subseteq Connectors

(* A handler is known for each socket that is watched, and a connector for *)
(* each task.                                                              *)
Known ==
    /\ \A f \in Ufds : procs[f] # NoConnector <=> UxFind(f) # {}
    /\ \A a \in Addr : taskOf[a] # NoConnector <=> heap[a] # Free

(* The connectors that use connection c when m is connectors, and the      *)
(* references that they and the program have if h is held.                 *)
Users(m, c) == {k \in Connectors : m[k] # NoConnector /\ m[k].uxconn = c}
Holds(m, h) == [c \in Conns |-> h[c] + Cardinality(Users(m, c))]

Links ==
    /\ IsFiniteSet(Existing)
    /\ HoldMap(held) /\ socks \subseteq Fds
    /\ Counted(conns, Holds(connectors, held))
    /\ OwnedIn(conns, socks)
    /\ held[UdpConn] > 0 /\ Users(connectors, UdpConn) = {}
    /\ conns[UdpConn].fd = UdpFd /\ conns[UdpConn].kind = "inet_dgram"

(* The inductive invariant of every program.                               *)
UCInv == Inv /\ Turns /\ CNTypes /\ Known /\ Links
-----------------------------------------------------------------------------
(* The connections.                                                        *)

LEMMA UsersFinite ==
    ASSUME IsFiniteSet(Existing), NEW c
    PROVE  /\ IsFiniteSet(Users(connectors, c))
           /\ Cardinality(Users(connectors, c)) \in Nat
           /\ Cardinality(Users(connectors, c)) = 0 <=> Users(connectors, c) = {}
PROOF
<1>1. Users(connectors, c) \subseteq Existing
  BY DEF Users, Existing
<1>2. IsFiniteSet(Users(connectors, c))
  BY <1>1, FS_Subset
<1> QED
  BY <1>2, FS_CardinalityType, FS_EmptySet

LEMMA HoldsAre ==
    ASSUME Links
    PROVE  HoldMap(Holds(connectors, held))
PROOF
<1>1. \A c \in Conns : Cardinality(Users(connectors, c)) \in Nat
  BY UsersFinite DEF Links
<1> QED
  BY <1>1 DEF Links, Holds, HoldMap

(* What is held is there, and is not the datagram connection's descriptor. *)
LEMMA UsedIsThere ==
    ASSUME Links, NEW c \in Conns, held[c] > 0 \/ Users(connectors, c) # {}
    PROVE  /\ c \in There(conns) /\ conns[c] \in ConnectionRecord
           /\ conns[c].refs \in Nat /\ Holds(connectors, held)[c] > 0
           /\ c # UdpConn => conns[c].fd \in Ufds \cup {Closed}
PROOF
<1> DEFINE h == Holds(connectors, held)
<1>1. h[c] = held[c] + Cardinality(Users(connectors, c)) /\ h[c] > 0
  BY UsersFinite DEF Links, Holds, HoldMap
<1>2. Counted(conns, h)
  BY DEF Links
<1> HIDE DEF h
<1>3. c \in There(conns)
  BY <1>1, <1>2, BoundFacts
<1>4. conns[c] \in ConnectionRecord
  BY <1>2, <1>3 DEF Counted, ConnMap, There
<1>5. ASSUME c # UdpConn PROVE conns[c].fd \in Ufds \cup {Closed}
  <2>1. UdpConn \in There(conns)
    <3>1. Cardinality(Users(connectors, UdpConn)) = 0
      BY UsersFinite DEF Links
    <3>2. h[UdpConn] > 0
      BY <3>1, UdpIsConnection DEF Links, Holds, HoldMap, h
    <3> QED
      BY <1>2, <3>2, BoundFacts, UdpIsConnection
  <2>2. conns[c].fd # UdpFd \/ UdpFd = Closed
    BY <1>3, <1>5, <2>1 DEF Links, OwnedIn
  <2> QED
    BY <1>4, <2>2, UdpIsConnection, ClosedIsNoDescriptor DEF ConnectionRecord
<1> QED
  BY <1>1, <1>3, <1>4, <1>5 DEF h, ConnectionRecord

(* One connector is created, changed or destroyed.                         *)
Counts(r, c) == IF r # NoConnector /\ r.uxconn = c THEN 1 ELSE 0

LEMMA HoldsSum ==
    ASSUME NEW m, NEW h, HoldMap(h), \A c \in Conns : Cardinality(Users(m, c)) \in Nat
    PROVE  /\ HoldMap(Holds(m, h))
           /\ \A c \in Conns : Holds(m, h)[c] = h[c] + Cardinality(Users(m, c))
PROOF
<1> QED
  BY DEF HoldMap, Holds

(* What has changed when connector k has become r.                         *)
BecomesOnly(k, r) ==
    /\ connectors' \in [Connectors -> ConnectorRecord \cup {NoConnector}]
    /\ connectors'[k] = r /\ \A l \in Connectors \ {k} : connectors'[l] = connectors[l]
    /\ IsFiniteSet(Existing')
    /\ HoldMap(Holds(connectors', held'))
    /\ \A c \in Conns :
         Holds(connectors', held')[c] = Holds(connectors, held)[c]
           + (held'[c] - held[c]) + Counts(r, c) - Counts(connectors[k], c)

LEMMA OneConnectorChanges ==
    ASSUME CNTypes, Links, NEW k \in Connectors,
           NEW r \in ConnectorRecord \cup {NoConnector},
           connectors' = [connectors EXCEPT ![k] = r], HoldMap(held')
    PROVE  BecomesOnly(k, r)
PROOF
<1>1. /\ connectors' \in [Connectors -> ConnectorRecord \cup {NoConnector}]
      /\ connectors'[k] = r /\ \A l \in Connectors \ {k} : connectors'[l] = connectors[l]
  BY DEF CNTypes
<1>2. IsFiniteSet(Existing')
  <2>1. Existing' \subseteq Existing \cup {k}
    BY <1>1 DEF Existing
  <2>2. IsFiniteSet(Existing \cup {k})
    BY FS_AddElement DEF Links
  <2> QED
    BY <2>1, <2>2, FS_Subset
<1>3. ASSUME NEW c \in Conns
      PROVE  /\ Cardinality(Users(connectors', c)) \in Nat
             /\ Cardinality(Users(connectors, c)) \in Nat
             /\ Cardinality(Users(connectors', c))
                  = Cardinality(Users(connectors, c)) + Counts(r, c) - Counts(connectors[k], c)
  <2> DEFINE U == Users(connectors, c)
             V == Users(connectors', c)
  <2>1. /\ V = IF Counts(r, c) = 1 THEN U \cup {k} ELSE U \ {k}
        /\ k \in U <=> Counts(connectors[k], c) = 1
        /\ Counts(r, c) \in {0, 1} /\ Counts(connectors[k], c) \in {0, 1}
    <3>1. V = IF Counts(r, c) = 1 THEN U \cup {k} ELSE U \ {k}
      BY <1>1 DEF Users, Counts
    <3> QED
      BY <3>1 DEF Users, Counts
  <2>2. IsFiniteSet(U) /\ Cardinality(U) \in Nat
    BY UsersFinite DEF Links
  <2>3. /\ IsFiniteSet(U \cup {k}) /\ IsFiniteSet(U \ {k})
        /\ Cardinality(U \cup {k}) = IF k \in U THEN Cardinality(U) ELSE Cardinality(U) + 1
        /\ Cardinality(U \ {k}) = IF k \in U THEN Cardinality(U) - 1 ELSE Cardinality(U)
    BY <2>2, FS_AddElement, FS_RemoveElement
  <2>4. Cardinality(U \ {k}) \in Nat /\ Cardinality(U \cup {k}) \in Nat
    BY <2>3, FS_CardinalityType
  <2> HIDE DEF U, V
  <2> QED
    BY <2>1, <2>2, <2>3, <2>4 DEF U, V
<1>4. /\ HoldMap(Holds(connectors', held'))
      /\ \A c \in Conns :
           /\ Holds(connectors', held')[c] = held'[c] + Cardinality(Users(connectors', c))
           /\ Holds(connectors, held)[c] = held[c] + Cardinality(Users(connectors, c))
           /\ held'[c] \in Nat /\ held[c] \in Nat
  <2>1. \A c \in Conns : Cardinality(Users(connectors', c)) \in Nat
    BY <1>3
  <2>2. \A c \in Conns : Cardinality(Users(connectors, c)) \in Nat
    BY <1>3
  <2>3. \A c \in Conns : held'[c] \in Nat /\ held[c] \in Nat
    BY DEF HoldMap, Links
  <2>4. HoldMap(held)
    BY DEF Links
  <2> QED
    BY <2>1, <2>2, <2>3, <2>4, HoldsSum
<1>5. ASSUME NEW c \in Conns
      PROVE  Holds(connectors', held')[c] = Holds(connectors, held)[c]
                  + (held'[c] - held[c]) + Counts(r, c) - Counts(connectors[k], c)
  <2> DEFINE n == Cardinality(Users(connectors', c))
             o == Cardinality(Users(connectors, c))
             x == Counts(r, c)
             y == Counts(connectors[k], c)
             after == Holds(connectors', held')[c]
             before == Holds(connectors, held)[c]
  <2>1. x \in Int /\ y \in Int
    BY DEF Counts
  <2>2. n \in Nat /\ o \in Nat /\ n = o + x - y
    BY <1>3
  <2>3. after = held'[c] + n /\ before = held[c] + o /\ held'[c] \in Nat /\ held[c] \in Nat
    BY <1>4
  <2> HIDE DEF n, o, x, y, after, before
  <2>4. after = before + (held'[c] - held[c]) + x - y
    BY <2>1, <2>2, <2>3
  <2> QED
    BY <2>4 DEF x, y, after, before
<1> QED
  BY <1>1, <1>2, <1>4, <1>5 DEF BecomesOnly

(* A step that touches no connection.                                      *)
LEMMA LinksStay ==
    ASSUME Links, UNCHANGED connVars, IsFiniteSet(Existing'),
           \A c \in Conns : Users(connectors', c) = Users(connectors, c)
    PROVE  Links'
PROOF
<1>1. Holds(connectors', held') = Holds(connectors, held)
  BY DEF Holds, connVars
<1>2. Users(connectors', UdpConn) = Users(connectors, UdpConn)
  BY UdpIsConnection
<1> QED
  BY <1>1, <1>2 DEF Links, connVars

(* A connector gets a connection of its own.                               *)
LEMMA OpeningLinks ==
    ASSUME CNTypes, Links, NEW k \in Existing, Conn(k) = NoConn,
           NEW c \in Conns, c \notin Allocated, NEW o \in UxOpen(UdpConn),
           conns' = Created(c, "ux_stream", o.fd, UdpConn), socks' = o.open, held' = held,
           connectors' = [connectors EXCEPT ![k].uxconn = c]
    PROVE  Links' /\ connectors' \in [Connectors -> ConnectorRecord \cup {NoConnector}]
PROOF
<1> DEFINE h == Holds(connectors, held)
           g == Holds(connectors', held')
<1>0. k \in Connectors /\ connectors[k] \in ConnectorRecord /\ c # NoConn
  BY ClosedIsNoDescriptor DEF Existing, CNTypes
<1>1. PICK r \in ConnectorRecord :
        r # NoConnector /\ r.uxconn = c /\ connectors' = [connectors EXCEPT ![k] = r]
  <2> DEFINE r == [connectors[k] EXCEPT !.uxconn = c]
  <2>1. /\ r \in ConnectorRecord /\ r # NoConnector /\ r.uxconn = c
        /\ connectors' = [connectors EXCEPT ![k] = r]
    BY <1>0, NoConnectorIsNone DEF ConnectorRecord
  <2> QED
    BY <2>1
<1>2. HoldMap(held) /\ HoldMap(held')
  BY DEF Links
<1>3. c \notin There(conns) /\ Counted(conns, h) /\ h[c] = 0 /\ HoldMap(h)
  BY HoldsAre, BoundFacts DEF There, Allocated, Links
<1>4. /\ connectors' \in [Connectors -> ConnectorRecord \cup {NoConnector}]
      /\ connectors'[k] = r /\ \A l \in Connectors \ {k} : connectors'[l] = connectors[l]
      /\ IsFiniteSet(Existing') /\ HoldMap(g)
      /\ \A d \in Conns : g[d] = h[d] + (held'[d] - held[d]) + Counts(r, d)
                                    - Counts(connectors[k], d)
  <2>1. r \in ConnectorRecord \cup {NoConnector} /\ connectors' = [connectors EXCEPT ![k] = r]
    BY <1>1
  <2>2. k \in Connectors /\ HoldMap(held')
    BY <1>0, <1>2
  <2>3. BecomesOnly(k, r)
    BY <2>1, <2>2, OneConnectorChanges
  <2> QED
    BY <2>3 DEF BecomesOnly
<1> HIDE DEF g, h
<1>5. g[c] = 1 /\ \A d \in Conns \ {c} : g[d] = h[d]
  <2>1. \A d \in Conns : Counts(connectors[k], d) = 0 /\ Counts(r, d) = IF d = c THEN 1 ELSE 0
    BY <1>1, ClosedIsNoDescriptor DEF Counts, Conn
  <2>2. \A d \in Conns : held'[d] = held[d] /\ held[d] \in Nat /\ h[d] \in Nat
    BY <1>2, <1>3 DEF HoldMap
  <2> QED
    BY <1>3, <1>4, <2>1, <2>2
<1>7. /\ UdpConn \in There(conns) /\ conns[UdpConn] \in ConnectionRecord
      /\ conns[UdpConn].kind = "inet_dgram" /\ UdpConn \in Conns
  BY UsedIsThere, UdpIsConnection DEF Links
<1>8. \/ o.fd = Closed /\ o.open = socks
      \/ o.fd \in Fds \ socks /\ o.open = socks \cup {o.fd}
  <2>1. o \in OpenOutcomes("ux_stream", UdpConn) /\ "ux_stream" \in ConnKinds
    BY DEF OpenOutcomes, UxKinds, ConnKinds
  <2> QED
    BY <2>1, OutcomesAre DEF Links
<1>9. /\ Counted(conns', g)
      /\ There(conns') = There(conns) \cup {c}
      /\ conns'[c].fd = o.fd
      /\ \A d \in There(conns) : conns'[d].fd = conns[d].fd
  <2>1. o.fd \in Fds \cup {Closed} /\ "ux_stream" \in ConnKinds /\ "ux_stream" # "inet_dgram"
    BY <1>8 DEF ConnKinds
  <2>2. HoldMap(g) /\ g[c] = 1 /\ \A d \in Conns \ {c} : g[d] = h[d]
    BY <1>4, <1>5
  <2>3. UdpConn \in Conns \cup {NoConn} /\ UdpConn \in There(conns)
    BY <1>7
  <2> DEFINE n == Created(c, "ux_stream", o.fd, UdpConn)
  <2>4. /\ Counted(n, g) /\ There(n) = There(conns) \cup {c} /\ n[c].fd = o.fd
        /\ \A d \in There(conns) : n[d].fd = conns[d].fd
    BY <1>3, <1>7, <2>1, <2>2, <2>3, CreatedCounted
  <2> QED
    BY <2>4
<1>10. OwnedIn(conns', socks')
  <2>1. OwnedIn(conns, socks) /\ socks' = o.open /\ c \notin There(conns)
    BY <1>3 DEF Links
  <2>2. \/ conns'[c].fd = Closed /\ socks' = socks
        \/ conns'[c].fd # Closed /\ conns'[c].fd \notin socks
             /\ socks' = socks \cup {conns'[c].fd}
    BY <1>8, <1>9, <2>1, ClosedIsNoDescriptor
  <2>3. \A d \in There(conns) \ {c} : conns'[d].fd = conns[d].fd
    BY <1>9
  <2>4. There(conns') = There(conns) \cup {c}
    BY <1>9
  <2> HIDE DEF Links
  <2> QED
    BY <2>1, <2>2, <2>3, <2>4, OwnedGrows
<1>11. conns'[UdpConn].kind = "inet_dgram" /\ conns'[UdpConn].fd = UdpFd
  <2>1. UdpConn # c
    BY <1>3, <1>7
  <2>2. conns'[UdpConn] = [conns[UdpConn] EXCEPT !.refs = @ + 1]
    BY <1>7, <2>1 DEF Created
  <2> QED
    BY <1>7, <1>9, <2>2 DEF ConnectionRecord, Links
<1>12. socks' \subseteq Fds
  BY <1>8 DEF Links
<1>13. Users(connectors', UdpConn) = {}
  BY <1>1, <1>3, <1>4, <1>7 DEF Links, Users
<1> QED
  BY <1>2, <1>4, <1>9, <1>10, <1>11, <1>12, <1>13 DEF Links, g

(* A connector gets a connection that the program has.                     *)
LEMMA SharingLinks ==
    ASSUME CNTypes, Links, NEW t \in Threads, NEW k \in Connectors, NEW c \in Conns,
           ConnectorOpen2(t, k, c)
    PROVE  Links' /\ connectors' \in [Connectors -> ConnectorRecord \cup {NoConnector}]
PROOF
<1> DEFINE h == Holds(connectors, held)
           g == Holds(connectors', held')
<1>0. /\ connectors[k] \in ConnectorRecord /\ connectors[k] # NoConnector
      /\ connectors[k].uxconn = NoConn /\ c # NoConn /\ c # UdpConn /\ held[c] > 0
      /\ socks' = socks /\ held' = held
  BY ClosedIsNoDescriptor DEF Existing, CNTypes, ConnectorOpen2, Conn
<1>1. PICK r \in ConnectorRecord :
        r # NoConnector /\ r.uxconn = c /\ connectors' = [connectors EXCEPT ![k] = r]
  <2> DEFINE r == [connectors[k] EXCEPT !.uxconn = c]
  <2>1. /\ r \in ConnectorRecord /\ r # NoConnector /\ r.uxconn = c
        /\ connectors' = [connectors EXCEPT ![k] = r]
    BY <1>0, NoConnectorIsNone DEF ConnectorRecord, ConnectorOpen2
  <2> QED
    BY <2>1
<1>2. HoldMap(held) /\ HoldMap(held')
  BY <1>0 DEF Links
<1>3. /\ Counted(conns, h) /\ HoldMap(h) /\ c \in There(conns)
      /\ conns[c] \in ConnectionRecord /\ conns[c].refs \in Nat
  BY <1>0, HoldsAre, UsedIsThere DEF Links
<1>4. /\ connectors' \in [Connectors -> ConnectorRecord \cup {NoConnector}]
      /\ connectors'[k] = r /\ \A l \in Connectors \ {k} : connectors'[l] = connectors[l]
      /\ IsFiniteSet(Existing') /\ HoldMap(g)
      /\ \A d \in Conns : g[d] = h[d] + (held'[d] - held[d]) + Counts(r, d)
                                    - Counts(connectors[k], d)
  <2>1. r \in ConnectorRecord \cup {NoConnector} /\ connectors' = [connectors EXCEPT ![k] = r]
    BY <1>1
  <2>2. BecomesOnly(k, r)
    BY <1>0, <1>2, <2>1, OneConnectorChanges
  <2> QED
    BY <2>2 DEF BecomesOnly
<1> HIDE DEF g, h
<1>5. g[c] = h[c] + 1 /\ \A d \in Conns \ {c} : g[d] = h[d]
  <2>1. \A d \in Conns : Counts(connectors[k], d) = 0 /\ Counts(r, d) = IF d = c THEN 1 ELSE 0
    BY <1>0, <1>1, ClosedIsNoDescriptor DEF Counts
  <2>2. \A d \in Conns : held'[d] = held[d] /\ held[d] \in Nat /\ h[d] \in Nat
    BY <1>0, <1>2, <1>3 DEF HoldMap
  <2> QED
    BY <1>3, <1>4, <2>1, <2>2
<1>6. /\ conns'[c] \in ConnectionRecord /\ conns'[c].refs = conns[c].refs + 1
      /\ conns'[c].kind = conns[c].kind /\ conns'[c].udp = conns[c].udp
      /\ conns'[c].fd = conns[c].fd
      /\ \A d \in Conns \ {c} : conns'[d] = conns[d]
  BY <1>3 DEF Counted, ConnMap, ConnectionRecord, ConnectorOpen2
<1>7. ConnMap(conns')
  <2>1. conns' = [d \in Conns |-> conns'[d]]
    BY <1>3 DEF Counted, ConnMap, ConnectorOpen2
  <2>2. \A d \in Conns : conns'[d] \in ConnectionRecord \cup {Unallocated}
    BY <1>3, <1>6 DEF Counted, ConnMap
  <2> QED
    BY <2>1, <2>2 DEF ConnMap
<1>8. There(conns') = There(conns)
  BY <1>3, <1>6, UnallocatedIsNoConnection DEF There
<1>9. Counted(conns', g)
  <2>1. \A d \in There(conns) : d \in Conns /\ conns[d].refs > 0
    BY <1>3 DEF Counted, RefsIn, There
  <2>2. h[c] \in Nat
    BY <1>3 DEF HoldMap
  <2>3. \A d \in There(conns) :
           /\ conns'[d].udp = conns[d].udp /\ conns'[d].kind = conns[d].kind
           /\ conns'[d].refs - g[d] = conns[d].refs - h[d] /\ conns'[d].refs > 0
    <3>1. ASSUME NEW d \in There(conns), d # c
          PROVE  conns'[d] = conns[d] /\ g[d] = h[d] /\ conns[d].refs > 0
      BY <1>5, <1>6, <2>1, <3>1
    <3>2. conns'[c].refs - g[c] = conns[c].refs - h[c] /\ conns'[c].refs > 0
      BY <1>3, <1>5, <1>6, <2>2
    <3> QED
      BY <1>6, <3>1, <3>2
  <2>4. \A d \in Conns \ There(conns) : g[d] = h[d]
    BY <1>3, <1>5
  <2>5. HoldMap(g)
    BY <1>4
  <2> HIDE DEF Links
  <2> QED
    BY <1>3, <1>7, <1>8, <2>3, <2>4, <2>5, SameBindings
<1>10. \A d \in There(conns) : conns'[d].fd = conns[d].fd
  BY <1>6 DEF There
<1>11. OwnedIn(conns', socks')
  BY <1>0, <1>8, <1>10 DEF OwnedIn, Links
<1>12. conns'[UdpConn] = conns[UdpConn] /\ Users(connectors', UdpConn) = {}
  BY <1>0, <1>1, <1>4, <1>6, UdpIsConnection DEF Links, Users
<1> QED
  BY <1>0, <1>2, <1>4, <1>9, <1>11, <1>12 DEF Links, g

(* What is not freed when a reference is given up stays the connection     *)
(* that it is.                                                             *)
LEMMA LetGoKeepsKinds ==
    ASSUME NEW c \in There(conns), NEW d \in There(conns) \ Ending(c), ConnMap(conns)
    PROVE  WithoutRef(c)[d].kind = conns[d].kind
PROOF
<1>1. d \in Conns /\ conns[d] \in ConnectionRecord
  BY DEF ConnMap, There
<1>2. WithoutRef(c)[d] = conns[d] \/ WithoutRef(c)[d] = [conns[d] EXCEPT !.refs = @ - 1]
  BY <1>1 DEF WithoutRef
<1> QED
  BY <1>1, <1>2 DEF ConnectionRecord

(* A reference is given up: by the program, or by a connector that is      *)
(* destroyed.                                                              *)
LEMMA LettingGoLinks ==
    ASSUME CNTypes, Links, NEW c \in Conns, c # UdpConn, Holds(connectors, held)[c] > 0,
           LetGo(c), HoldMap(held'), held'[UdpConn] > 0, Users(connectors', UdpConn) = {},
           HoldMap(Holds(connectors', held')), IsFiniteSet(Existing'),
           Holds(connectors', held')[c] = Holds(connectors, held)[c] - 1,
           \A d \in Conns \ {c} : Holds(connectors', held')[d] = Holds(connectors, held)[d]
    PROVE  Links'
PROOF
<1> DEFINE h == Holds(connectors, held)
           g == Holds(connectors', held')
<1>1. Counted(conns, h) /\ HoldMap(h) /\ HoldMap(g) /\ h[c] > 0 /\ g[c] = h[c] - 1
      /\ \A d \in Conns \ {c} : g[d] = h[d]
  BY HoldsAre DEF Links
<1>2. Holds(connectors', held')[UdpConn] > 0
  <2>1. Holds(connectors', held')[UdpConn] = Holds(connectors, held)[UdpConn]
    BY UdpIsConnection
  <2>2. Holds(connectors, held)[UdpConn] > 0
    BY UsedIsThere, UdpIsConnection DEF Links
  <2> QED
    BY <2>1, <2>2
<1> HIDE DEF h
<1>3. c \in There(conns)
  BY <1>1, BoundFacts
<1> DEFINE n == WithoutRef(c)
<1>4. conns' = n /\ socks' = socks \ {conns[d].fd : d \in Ending(c)}
  BY DEF LetGo
<1>5. /\ Counted(n, g)
      /\ Ending(c) \subseteq There(conns)
      /\ There(n) = There(conns) \ Ending(c)
      /\ \A d \in There(conns) \ Ending(c) : n[d].fd = conns[d].fd
  <2> HIDE DEF g
  <2> QED
    BY <1>1, <1>3, ReleasedCounted
<1>6. \A d \in There(conns) \ Ending(c) : n[d].kind = conns[d].kind
  BY <1>1, <1>3, LetGoKeepsKinds DEF Counted
<1> HIDE DEF n
<1>7. OwnedIn(n, socks')
  <2>1. \A d \in There(n) : n[d].fd = IF d \in Ending(c) THEN Closed ELSE conns[d].fd
    BY <1>5
  <2>2. OwnedIn(conns, socks) /\ socks' = socks \ {conns[d].fd : d \in Ending(c)}
    BY <1>4 DEF Links
  <2>3. /\ Ending(c) \in SUBSET There(conns) /\ There(n) \subseteq There(conns)
        /\ There(conns) \ Ending(c) \subseteq There(n)
    BY <1>5
  <2> HIDE DEF Links
  <2> QED
    BY <2>1, <2>2, <2>3, OwnedShrinks
<1>8. UdpConn \in There(n)
  <2> HIDE DEF g
  <2>1. g[UdpConn] > 0
    BY <1>2 DEF g
  <2> QED
    BY <1>5, <2>1, BoundFacts, UdpIsConnection
<1>9. n[UdpConn].kind = "inet_dgram" /\ n[UdpConn].fd = UdpFd
  BY <1>5, <1>6, <1>8 DEF Links
<1>10. socks' \subseteq Fds
  BY <1>4 DEF Links
<1>11. Counted(conns', Holds(connectors', held')) /\ OwnedIn(conns', socks')
  BY <1>4, <1>5, <1>7
<1> QED
  BY <1>4, <1>9, <1>10, <1>11 DEF Links

LEMMA ConnectorTypes ==
    ASSUME CNTypes, NEW k \in Existing
    PROVE  /\ k \in Connectors /\ connectors[k] \in ConnectorRecord
           /\ connectors[k] # NoConnector /\ Conn(k) = connectors[k].uxconn
           /\ Conn(k) \in Conns \cup {NoConn}
           /\ connectors[k].timeouttask_id \in Addr \cup {NULL}
           /\ Conn(k) # NoConn => k \in Users(connectors, Conn(k))
PROOF
<1> QED
  BY DEF CNTypes, Existing, ConnectorRecord, Conn, Users

(* The socket of an open connection that a connector has.                  *)
LEMMA ConnectionOf ==
    ASSUME CNTypes, Links, NEW k \in Existing, Conn(k) # NoConn
    PROVE  /\ Conn(k) \in There(conns) /\ Conn(k) \in Conns /\ Conn(k) # UdpConn
           /\ Ufd(k) \in Ufds \cup {Closed} /\ Holds(connectors, held)[Conn(k)] > 0
           /\ IsOpen(Conn(k)) => Ufd(k) \in Ufds
PROOF
<1>1. Conn(k) \in Conns /\ k \in Users(connectors, Conn(k))
  BY ConnectorTypes
<1>2. Conn(k) # UdpConn
  BY <1>1 DEF Links
<1>3. /\ Conn(k) \in There(conns) /\ Holds(connectors, held)[Conn(k)] > 0
      /\ conns[Conn(k)].fd \in Ufds \cup {Closed}
  BY <1>1, <1>2, UsedIsThere
<1> QED
  BY <1>1, <1>2, <1>3 DEF Ufd, IsOpen

LEMMA TakeoutLinks ==
    ASSUME CNTypes, Links, NEW t \in Threads, NEW k \in Existing, Finish(t, k, "takeout")
    PROVE  Links' /\ connectors' \in [Connectors -> ConnectorRecord \cup {NoConnector}]
PROOF
<1> DEFINE h == Holds(connectors, held)
           g == Holds(connectors', held')
           u == connectors[k].uxconn
<1>0. /\ k \in Connectors /\ connectors[k] \in ConnectorRecord /\ connectors[k] # NoConnector
      /\ u \in Conns \cup {NoConn}
  BY ConnectorTypes
<1>1. PICK r \in ConnectorRecord :
        r # NoConnector /\ r.uxconn = NoConn /\ connectors' = [connectors EXCEPT ![k] = r]
  <2> DEFINE r == [connectors[k] EXCEPT !.uxconn = NoConn]
  <2>1. /\ r \in ConnectorRecord /\ r # NoConnector /\ r.uxconn = NoConn
        /\ connectors' = [connectors EXCEPT ![k] = r]
    BY <1>0, NoConnectorIsNone DEF ConnectorRecord, Finish
  <2> QED
    BY <2>1
<1>2. /\ UNCHANGED <<conns, socks>> /\ held \in [Conns -> Nat] /\ held' \in [Conns -> Nat]
      /\ \A c \in Conns : held'[c] = IF c = u THEN held[c] + 1 ELSE held[c]
  BY DEF Finish, Conn, Links, HoldMap
<1>3. HoldMap(held') /\ HoldMap(h)
  BY <1>2, HoldsAre DEF HoldMap
<1>4. /\ connectors' \in [Connectors -> ConnectorRecord \cup {NoConnector}]
      /\ connectors'[k] = r /\ \A l \in Connectors \ {k} : connectors'[l] = connectors[l]
      /\ IsFiniteSet(Existing') /\ HoldMap(g)
      /\ \A d \in Conns : g[d] = h[d] + (held'[d] - held[d]) + Counts(r, d)
                                    - Counts(connectors[k], d)
  <2>1. r \in ConnectorRecord \cup {NoConnector} /\ connectors' = [connectors EXCEPT ![k] = r]
    BY <1>1
  <2>2. BecomesOnly(k, r)
    BY <1>0, <1>3, <2>1, OneConnectorChanges
  <2> QED
    BY <2>2 DEF BecomesOnly
<1> HIDE DEF g, h
<1>5. g = h
  <2>1. \A d \in Conns : Counts(connectors[k], d) = (IF d = u THEN 1 ELSE 0) /\ Counts(r, d) = 0
    BY <1>0, <1>1, ClosedIsNoDescriptor DEF Counts
  <2>2. \A d \in Conns : held[d] \in Nat /\ h[d] \in Nat
    BY <1>2, <1>3 DEF HoldMap
  <2>3. \A d \in Conns : g[d] = h[d]
    BY <1>2, <1>4, <2>1, <2>2
  <2> QED
    BY <1>3, <1>4, <2>3 DEF HoldMap
<1>6. held'[UdpConn] > 0
  BY <1>2, UdpIsConnection DEF Links
<1>7. Users(connectors', UdpConn) = {}
  BY <1>1, <1>4, UdpIsConnection, ClosedIsNoDescriptor DEF Links, Users
<1>8. Counted(conns', g) /\ OwnedIn(conns', socks')
  BY <1>2, <1>5 DEF Links, h
<1> QED
  BY <1>2, <1>3, <1>4, <1>6, <1>7, <1>8 DEF Links, g

LEMMA DestroyLinks ==
    ASSUME CNTypes, Links, NEW t \in Threads, NEW k \in Existing, Finish(t, k, "destroy")
    PROVE  Links' /\ connectors' \in [Connectors -> ConnectorRecord \cup {NoConnector}]
PROOF
<1> DEFINE h == Holds(connectors, held)
           g == Holds(connectors', held')
           u == connectors[k].uxconn
<1>0. /\ k \in Connectors /\ connectors[k] \in ConnectorRecord /\ connectors[k] # NoConnector
      /\ u \in Conns \cup {NoConn} /\ u = Conn(k)
  BY ConnectorTypes
<1>1. /\ connectors' = [connectors EXCEPT ![k] = NoConnector] /\ held' = held
      /\ NoConnector \in ConnectorRecord \cup {NoConnector}
      /\ IF u = NoConn THEN UNCHANGED <<conns, socks>> ELSE LetGo(u)
  BY DEF Finish, Conn
<1>2. HoldMap(held') /\ HoldMap(held) /\ HoldMap(h)
  BY <1>1, HoldsAre DEF Links
<1>3. /\ connectors' \in [Connectors -> ConnectorRecord \cup {NoConnector}]
      /\ connectors'[k] = NoConnector
      /\ \A l \in Connectors \ {k} : connectors'[l] = connectors[l]
      /\ IsFiniteSet(Existing') /\ HoldMap(g)
      /\ \A d \in Conns : g[d] = h[d] + (held'[d] - held[d]) + Counts(NoConnector, d)
                                    - Counts(connectors[k], d)
  <2>1. BecomesOnly(k, NoConnector)
    BY <1>0, <1>1, <1>2, OneConnectorChanges
  <2> QED
    BY <2>1 DEF BecomesOnly
<1>4. \A d \in Conns : g[d] = h[d] - (IF d = u THEN 1 ELSE 0)
  <2> HIDE DEF g, h
  <2>1. \A d \in Conns : /\ Counts(connectors[k], d) = (IF d = u THEN 1 ELSE 0)
                         /\ Counts(NoConnector, d) = 0
    BY <1>0 DEF Counts
  <2>2. \A d \in Conns : held'[d] = held[d] /\ held[d] \in Nat /\ h[d] \in Nat
    BY <1>1, <1>2 DEF HoldMap
  <2> QED
    BY <1>3, <2>1, <2>2
<1>5. CASE u = NoConn
  <2>1. \A c \in Conns : Users(connectors', c) = Users(connectors, c)
    BY <1>0, <1>3, <1>5, ClosedIsNoDescriptor DEF Users
  <2> QED
    BY <1>1, <1>3, <1>5, <2>1, LinksStay DEF connVars
<1>6. CASE u # NoConn
  <2>1. u \in Conns /\ u # UdpConn /\ h[u] > 0
    BY <1>0, <1>6, ConnectionOf
  <2>2. g[u] = h[u] - 1 /\ \A d \in Conns \ {u} : g[d] = h[d]
    <3> HIDE DEF g, h
    <3>1. \A d \in Conns : h[d] \in Nat
      BY <1>2 DEF HoldMap
    <3> QED
      BY <1>4, <2>1, <3>1
  <2>3. Users(connectors', UdpConn) = {}
    BY <1>3, UdpIsConnection DEF Links, Users
  <2>4. held'[UdpConn] > 0
    BY <1>1 DEF Links
  <2>5. LetGo(u)
    BY <1>1, <1>6
  <2>6. HoldMap(g) /\ IsFiniteSet(Existing')
    BY <1>3
  <2> HIDE DEF Links, u
  <2> QED
    BY <1>2, <1>3, <2>1, <2>2, <2>3, <2>4, <2>5, <2>6, LettingGoLinks
<1> QED
  BY <1>3, <1>5, <1>6

LEMMA FinishLinks ==
    ASSUME CNTypes, Links, NEW t \in Threads, NEW k \in Existing,
           NEW then \in {"return", "takeout", "destroy", "tell"}, Finish(t, k, then)
    PROVE  Links' /\ connectors' \in [Connectors -> ConnectorRecord \cup {NoConnector}]
PROOF
<1>1. CASE then \in {"return", "tell"}
  <2>1. UNCHANGED <<connVars, connectors>>
    BY <1>1 DEF Finish
  <2>2. IsFiniteSet(Existing') /\ \A c \in Conns : Users(connectors', c) = Users(connectors, c)
    BY <2>1 DEF Existing, Links
  <2> QED
    BY <2>1, <2>2, LinksStay DEF CNTypes
<1> QED
  BY <1>1, TakeoutLinks, DestroyLinks

LEMMA ReleaseLinks ==
    ASSUME CNTypes, Links, NEW t \in Threads, NEW c \in Conns, Release(t, c)
    PROVE  Links'
PROOF
<1> DEFINE h == Holds(connectors, held)
           g == Holds(connectors', held')
<1>1. /\ connectors' = connectors /\ c # UdpConn /\ held[c] > 0 /\ LetGo(c)
      /\ held' = [held EXCEPT ![c] = @ - 1]
  BY DEF Release, cnVars, ConnAutorelease
<1>2. /\ held \in [Conns -> Nat] /\ held' \in [Conns -> Nat] /\ held'[c] = held[c] - 1
      /\ \A d \in Conns \ {c} : held'[d] = held[d]
  BY <1>1 DEF Links, HoldMap
<1>3. \A d \in Conns : Cardinality(Users(connectors, d)) \in Nat
  BY UsersFinite DEF Links
<1>4. /\ HoldMap(g) /\ \A d \in Conns : g[d] = held'[d] + Cardinality(Users(connectors, d))
      /\ HoldMap(h) /\ \A d \in Conns : h[d] = held[d] + Cardinality(Users(connectors, d))
  <2>1. HoldMap(held) /\ HoldMap(held')
    BY <1>2 DEF HoldMap
  <2> DEFINE m == held'
             n == connectors'
  <2>2. n = connectors /\ HoldMap(m)
    BY <1>1, <2>1
  <2> HIDE DEF m, n
  <2>3. HoldMap(Holds(n, m)) /\ \A d \in Conns : Holds(n, m)[d] = m[d] + Cardinality(Users(connectors, d))
    BY <1>3, <2>2, HoldsSum
  <2>4. HoldMap(h) /\ \A d \in Conns : h[d] = held[d] + Cardinality(Users(connectors, d))
    BY <1>3, <2>1, HoldsSum
  <2> QED
    BY <2>3, <2>4 DEF m, n
<1> HIDE DEF g, h
<1>5. h[c] > 0 /\ g[c] = h[c] - 1 /\ \A d \in Conns \ {c} : g[d] = h[d]
  <2>1. \A d \in Conns \ {c} : g[d] = h[d]
    BY <1>2, <1>4
  <2>2. /\ g[c] = held'[c] + Cardinality(Users(connectors, c))
        /\ h[c] = held[c] + Cardinality(Users(connectors, c))
        /\ Cardinality(Users(connectors, c)) \in Nat /\ held[c] \in Nat
    BY <1>2, <1>3, <1>4
  <2>3. held[c] > 0 /\ held'[c] = held[c] - 1
    BY <1>1, <1>2
  <2> QED
    BY <2>1, <2>2, <2>3
<1>6. /\ HoldMap(held') /\ held'[UdpConn] > 0 /\ Users(connectors', UdpConn) = {}
      /\ IsFiniteSet(Existing')
  BY <1>1, <1>2, UdpIsConnection DEF Links, HoldMap, Existing
<1>7. c # UdpConn /\ LetGo(c)
  BY <1>1
<1> HIDE DEF Links
<1> QED
  BY <1>4, <1>5, <1>6, <1>7, LettingGoLinks DEF g, h
-----------------------------------------------------------------------------
(* The steps below: each is one of the uxscheduler.                        *)

LEMMA WatchedIs ==
    /\ Inv => \A f : UxFind(f) # {} <=> \E a \in UxAddr : uxheap[a] # UxFree /\ uxheap[a].ufd = f
    /\ Inv' => \A f : UxFind(f)' # {}
                        <=> \E a \in UxAddr : uxheap'[a] # UxFree /\ uxheap'[a].ufd = f
PROOF
<1>1. ASSUME Inv
      PROVE  \A f : UxFind(f) # {} <=> \E a \in UxAddr : uxheap[a] # UxFree /\ uxheap[a].ufd = f
  BY <1>1, InvUxOK, UxFacts DEF UxFind
<1>2. ASSUME Inv'
      PROVE  \A f : UxFind(f)' # {}
                        <=> \E a \in UxAddr : uxheap'[a] # UxFree /\ uxheap'[a].ufd = f
  <2>1. \A a \in UxAddr : uxheap'[a] # UxFree => a \in UxListed'
    BY <1>2 DEF Inv, OneEventPerSocket
  <2>2. \A a \in UxListed' : a \in UxAddr /\ uxheap'[a] # UxFree
    <3>1. \A i \in DOMAIN uxevents' : uxheap'[uxevents'[i]] # UxFree
      BY <1>2 DEF Inv, OneEventPerSocket
    <3>2. uxevents' \in Seq(UxAddr)
      BY <1>2 DEF Inv, Types, UxTypeOK
    <3>3. \A i \in DOMAIN uxevents' : uxevents'[i] \in UxAddr
      BY <3>2, LenProperties
    <3> QED
      BY <3>1, <3>3 DEF UxListed
  <2> QED
    BY <2>1, <2>2 DEF UxFind
<1> QED
  BY <1>1, <1>2

LEMMA CancelIsNext ==
    ASSUME Working, NEW t \in Threads, NEW id \in Addr \cup {NULL}, CancelTimeout(t, id), Inv
    PROVE  [Next]_vars
PROOF
<1>1. CASE UNCHANGED vars
  BY <1>1
<1>2. CASE Cancel(t, id) /\ id \in Addr
  BY <1>2 DEF Next, UserStep
<1>3. CASE Cancel(t, id) /\ id = NULL
  <2>1. NULL \notin Listed
    BY ListFacts, NullIsNoAddress
  <2> QED
    BY <1>3, <2>1 DEF Cancel, ListCancel, vars, sharedVars, taskVars
<1> QED
  BY <1>1, <1>2, <1>3 DEF CancelTimeout

LEMMA SomeCondition == {"read"} \in (SUBSET Masks) \ {{}} /\ {"write"} \in (SUBSET Masks) \ {{}}
PROOF
<1>1. "read" \in {"read"} /\ "write" \in {"write"}
  OBVIOUS
<1>2. {"read"} # {} /\ {"write"} # {}
  BY <1>1
<1>3. {"read"} \subseteq Masks /\ {"write"} \subseteq Masks
  BY DEF Masks
<1> QED
  BY <1>2, <1>3

LEMMA RmIsNext ==
    ASSUME Working, NEW t \in Threads, NEW f, RmIfWatched(t, f)
    PROVE  [Next]_vars
PROOF
<1> QED
  BY DEF RmIfWatched, Next, UserStep

LEMMA ConnectorStepIsNext ==
    ASSUME UCInv, Working, NEW t \in Threads, ConnectorStep(t)
    PROVE  [Next]_vars
PROOF
<1>1. ASSUME NEW k \in Connectors, SetEventHandler(t, k) PROVE [Next]_vars
  <2>1. Add(t, Ufd(k), {"read"}) /\ k \in Existing /\ Conn(k) # NoConn /\ IsOpen(Conn(k))
    BY <1>1 DEF SetEventHandler
  <2>2. Ufd(k) \in Ufds
    BY <2>1, ConnectionOf DEF UCInv
  <2> QED
    BY <2>1, <2>2, SomeCondition DEF Next, UserStep
<1>2. ASSUME NEW k \in Connectors, NEW c \in Conns, NEW task \in Addr \cup {NULL},
             NEW delay \in Delays, ConnectorOpen(t, k, c, task, delay)
      PROVE  [Next]_vars
  <2>1. (task \in Addr /\ Post(t, task, delay)) \/ UNCHANGED vars
    BY <1>2 DEF ConnectorOpen
  <2> QED
    BY <2>1 DEF Next, UserStep
<1>3. CASE ConnectorWatch(t)
  <2>1. CASE UNCHANGED vars
    BY <2>1
  <2>2. CASE ~UNCHANGED vars
    <3>1. PICK k \in Existing :
            Conn(k) # NoConn /\ IsOpen(Conn(k)) /\ Add(t, Ufd(k), {"write"})
      BY <1>3, <2>2 DEF ConnectorWatch, Lose
    <3>2. Ufd(k) \in Ufds
      BY <3>1, ConnectionOf DEF UCInv
    <3> QED
      BY <3>1, <3>2, SomeCondition DEF Next, UserStep
  <2> QED
    BY <2>1, <2>2
<1>4. CASE ConnectorRm(t)
  BY <1>4, RmIsNext DEF ConnectorRm, Lose
<1>5. CASE ConnectorCancel(t)
  <2>1. CASE UNCHANGED vars
    BY <2>1
  <2>2. CASE ~UNCHANGED vars
    <3>1. PICK k \in Existing : CancelTimeout(t, connectors[k].timeouttask_id)
      BY <1>5, <2>2 DEF ConnectorCancel, Lose
    <3> QED
      BY <3>1, CancelIsNext, ConnectorTypes DEF UCInv
  <2> QED
    BY <2>1, <2>2
<1>6. ASSUME \/ \E k \in Connectors :
                  \/ ConnectorCreate(t, k)
                  \/ \E then : ConnectorClose(t, k, then)
                  \/ \E c \in Conns : ConnectorOpenFails(t, k, c) \/ ConnectorOpen2(t, k, c)
             \/ \E c \in Conns : Release(t, c)
      PROVE  [Next]_vars
  BY <1>6 DEF ConnectorCreate, ConnectorClose, ConnectorOpenFails, ConnectorOpen2, Release
<1> QED
  BY <1>1, <1>2, <1>3, <1>4, <1>5, <1>6 DEF ConnectorStep

LEMMA UCStepIsNext ==
    ASSUME UCInv, Working, UCStep
    PROVE  [Next]_vars
PROOF
<1>1. ASSUME NEW w \in Workers,
             CallHandler(w) \/ HandlerDone(w) \/ RunTimeout(w) \/ TimeoutDone(w)
      PROVE  [Next]_vars
  BY <1>1 DEF CallHandler, HandlerDone, RunTimeout, TimeoutDone, Next, WorkerStep
<1>2. ASSUME NEW w \in Workers, AssertCancelled(w) PROVE [Next]_vars
  <2>1. CASE UNCHANGED vars
    BY <2>1
  <2>2. CASE ~UNCHANGED vars
    <3>1. PICK id \in Listed : Cancel(w, id)
      BY <1>2, <2>2 DEF AssertCancelled, Lose
    <3>2. id \in Addr /\ w \in Threads
      BY ListFacts, ThreadsAre DEF UCInv
    <3> QED
      BY <3>1, <3>2 DEF Next, UserStep
  <2> QED
    BY <2>1, <2>2
<1>3. ASSUME NEW w \in Workers, Unwatch(w) PROVE [Next]_vars
  BY <1>3, RmIsNext, ThreadsAre DEF Unwatch, Lose
<1>4. CASE SchedulerStep
  BY <1>4 DEF SchedulerStep, Next, UserStep, WorkerStep
<1> QED
  BY <1>1, <1>2, <1>3, <1>4, ConnectorStepIsNext DEF UCStep
-----------------------------------------------------------------------------
(* What the program knows of sockets and tasks, and the types.             *)

(* What is freed is forgotten; what is not is known as before.             *)
LEMMA ForgottenIsFreed ==
    ASSUME UCInv, Inv', ForgetFreed,
           \A a \in Addr : heap'[a] # Free => heap[a] # Free,
           \A f \in Ufds : UxFind(f)' # {} => UxFind(f) # {}
    PROVE  /\ Known'
           /\ procs' \in [Ufds -> Handlers \cup {NoConnector}]
           /\ taskOf' \in [Addr -> Connectors \cup {NoConnector}]
PROOF
<1>1. \A a \in Addr : taskOf'[a] = IF heap'[a] = Free THEN NoConnector ELSE taskOf[a]
  BY DEF ForgetFreed
<1>2. ASSUME NEW f \in Ufds
      PROVE  procs'[f] = IF UxFind(f)' # {} THEN procs[f] ELSE NoConnector
  BY WatchedIs DEF ForgetFreed
<1>3. procs' \in [Ufds -> Handlers \cup {NoConnector}]
  BY DEF ForgetFreed, UCInv, CNTypes
<1>4. taskOf' \in [Addr -> Connectors \cup {NoConnector}]
  BY DEF ForgetFreed, UCInv, CNTypes
<1>5. \A f \in Ufds : procs'[f] # NoConnector <=> UxFind(f)' # {}
  BY <1>2 DEF UCInv, Known
<1>6. \A a \in Addr : taskOf'[a] # NoConnector <=> heap'[a] # Free
  BY <1>1 DEF UCInv, Known
<1> QED
  BY <1>3, <1>4, <1>5, <1>6 DEF Known

LEMMA KnownStays ==
    ASSUME UCInv, UNCHANGED <<uxVars, procs, taskOf>>,
           \A a \in Addr : heap'[a] = Free <=> heap[a] = Free
    PROVE  Known'
PROOF
<1>1. \A f : UxFind(f)' = UxFind(f)
  BY DEF UxFind, UxListed, uxVars
<1> QED
  BY <1>1 DEF UCInv, Known

(* A socket is watched, again or for the first time.                       *)
LEMMA WatchIsKnown ==
    ASSUME UCInv, Inv', NEW t \in Threads, NEW ufd \in Ufds,
           NEW set \in (SUBSET Masks) \ {{}},
           Add(t, ufd, set), NEW r \in Handlers, procs' = [procs EXCEPT ![ufd] = r],
           taskOf' = taskOf
    PROVE  /\ Known' /\ procs' \in [Ufds -> Handlers \cup {NoConnector}]
           /\ \A f \in Ufds : UxFind(f)' # {} <=> f = ufd \/ UxFind(f) # {}
PROOF
<1>1. procs' \in [Ufds -> Handlers \cup {NoConnector}] /\ procs'[ufd] = r
      /\ \A f \in Ufds \ {ufd} : procs'[f] = procs[f]
  BY DEF UCInv, CNTypes
<1>2. r # NoConnector
  BY NoConnectorIsNone DEF Handlers
<1>3. heap' = heap
  BY DEF Add, taskVars
<1>4. uxheap \in [UxAddr -> UxEvent \cup {UxFree}]
  BY DEF UCInv, Inv, Types, UxTypeOK
<1>5. \A f \in Ufds : (\E a \in UxAddr : uxheap'[a] # UxFree /\ uxheap'[a].ufd = f)
                       <=> f = ufd \/ \E a \in UxAddr : uxheap[a] # UxFree /\ uxheap[a].ufd = f
  <2>1. ASSUME NEW a \in UxAddr, UxAppend(a, ufd, set)
        PROVE  \A f \in Ufds : (\E b \in UxAddr : uxheap'[b] # UxFree /\ uxheap'[b].ufd = f)
                       <=> f = ufd \/ \E b \in UxAddr : uxheap[b] # UxFree /\ uxheap[b].ufd = f
    <3>1. /\ uxheap[a] = UxFree /\ uxheap'[a] = [ufd |-> ufd, conditionSet |-> set]
          /\ \A b \in UxAddr \ {a} : uxheap'[b] = uxheap[b]
      BY <1>4, <2>1 DEF UxAppend
    <3>2. uxheap'[a] \in UxEvent /\ uxheap'[a].ufd = ufd
      BY <3>1 DEF UxEvent
    <3>3. uxheap'[a] # UxFree
      BY <3>2, UxFreeIsNoEvent
    <3> QED
      BY <3>1, <3>2, <3>3
  <2>2. ASSUME NEW a \in UxFind(ufd), UxWatchFor(a, set)
        PROVE  \A f \in Ufds : (\E b \in UxAddr : uxheap'[b] # UxFree /\ uxheap'[b].ufd = f)
                       <=> f = ufd \/ \E b \in UxAddr : uxheap[b] # UxFree /\ uxheap[b].ufd = f
    <3>1. a \in UxListed /\ uxheap[a].ufd = ufd /\ a \in UxAddr /\ uxheap[a] \in UxEvent
      BY InvUxOK, UxFacts DEF UxFind, UCInv
    <3>2. /\ uxheap'[a] \in UxEvent /\ uxheap'[a].ufd = ufd
          /\ \A b \in UxAddr \ {a} : uxheap'[b] = uxheap[b]
      BY <1>4, <2>2, <3>1 DEF UxWatchFor, UxEvent
    <3>3. uxheap'[a] # UxFree /\ uxheap[a] # UxFree
      BY <3>1, <3>2, UxFreeIsNoEvent
    <3> QED
      BY <3>1, <3>2, <3>3
  <2> QED
    BY <2>1, <2>2 DEF Add
<1>6. \A f \in Ufds : UxFind(f)' # {} <=> f = ufd \/ UxFind(f) # {}
  BY <1>5, WatchedIs DEF UCInv
<1>7. Known'
  BY <1>1, <1>2, <1>3, <1>6 DEF UCInv, Known
<1> QED
  BY <1>1, <1>6, <1>7

(* A task is posted for a connector.                                       *)
LEMMA PostIsKnown ==
    ASSUME UCInv, NEW t \in Threads, NEW task \in Addr, NEW delay \in Delays,
           Post(t, task, delay), NEW k \in Connectors,
           taskOf' = [taskOf EXCEPT ![task] = k], procs' = procs
    PROVE  Known' /\ taskOf' \in [Addr -> Connectors \cup {NoConnector}]
PROOF
<1>1. taskOf' \in [Addr -> Connectors \cup {NoConnector}] /\ taskOf'[task] = k
      /\ \A a \in Addr \ {task} : taskOf'[a] = taskOf[a]
  BY DEF UCInv, CNTypes
<1>2. heap'[task] # Free /\ \A a \in Addr \ {task} : heap'[a] = heap[a]
  <2>1. /\ TaskTypeOK /\ Distinct /\ ListedAreTasks /\ InDueOrder /\ posted \in Nat
        /\ StampedBelow(posted) /\ now + delay \in Int /\ ListInsert(task, now + delay, posted)
    BY ListFacts, NumbersAreNumbers DEF UCInv, Post, Inv, Types
  <2> QED
    BY <2>1, ListInsertKeeps, FreeIsNoTask
<1>3. \A f : UxFind(f)' = UxFind(f)
  BY DEF UxFind, UxListed, uxVars, Post
<1> QED
  BY <1>1, <1>2, <1>3, NoConnectorIsNone DEF UCInv, Known

(* A removal frees at most what was watched.                               *)
LEMMA RmFrees ==
    ASSUME UCInv, Inv', NEW t \in Threads, NEW ufd, RmIfWatched(t, ufd)
    PROVE  /\ Known' /\ heap' = heap /\ tasks' = tasks
           /\ procs' \in [Ufds -> Handlers \cup {NoConnector}]
           /\ taskOf' = taskOf
           /\ \A f \in Ufds : procs'[f] = IF f = ufd THEN NoConnector ELSE procs[f]
PROOF
<1>1. CASE UxFind(ufd) = {} /\ UNCHANGED <<vars, procs, taskOf>>
  <2>1. heap' = heap /\ tasks' = tasks /\ UNCHANGED <<uxVars, procs, taskOf>>
    BY <1>1 DEF vars, sharedVars, taskVars
  <2>2. Known'
    BY <2>1, KnownStays
  <2>3. \A f \in Ufds : f = ufd => procs[f] = NoConnector
    BY <1>1 DEF UCInv, Known
  <2> QED
    BY <2>1, <2>2, <2>3 DEF UCInv, CNTypes
<1>2. CASE ufd \in Ufds /\ Rm(t, ufd) /\ ForgetFreed
  <2>1. heap' = heap /\ tasks' = tasks
    BY <1>2 DEF Rm, taskVars
  <2>2. PICK a \in UxFind(ufd) : UxRemove(a)
    BY <1>2 DEF Rm
  <2>3. a \in UxAddr /\ uxheap[a].ufd = ufd /\ a \in UxListed
    BY InvUxOK, UxFacts DEF UxFind, UCInv
  <2>4. uxheap'[a] = UxFree /\ \A b \in UxAddr \ {a} : uxheap'[b] = uxheap[b]
    BY <2>2, <2>3 DEF UxRemove, UCInv, Inv, Types, UxTypeOK
  <2>5. \A f \in Ufds : UxFind(f)' # {} => UxFind(f) # {}
    BY <2>4, WatchedIs DEF UCInv
  <2>6. Known' /\ procs' \in [Ufds -> Handlers \cup {NoConnector}]
    BY <1>2, <2>1, <2>5, ForgottenIsFreed
  <2>7. \A b \in UxAddr : uxheap'[b] # UxFree => uxheap'[b].ufd # ufd
    <3>1. \A b \in UxListed : uxheap[b].ufd = uxheap[a].ufd => b = a
      BY <2>3, InvUxOK, UxFacts DEF UCInv
    <3>2. \A b \in UxAddr : uxheap[b] # UxFree => b \in UxListed
      BY InvUxOK, UxFacts DEF UCInv
    <3> QED
      BY <2>3, <2>4, <3>1, <3>2
  <2>8. ASSUME NEW f \in Ufds
        PROVE  procs'[f] = IF f = ufd THEN NoConnector ELSE procs[f]
    <3>1. CASE f = ufd
      BY <1>2, <2>7, <3>1 DEF ForgetFreed
    <3>2. CASE f # ufd
      <4>1. CASE UxFind(f) = {}
        <5>1. procs[f] = NoConnector
          BY <4>1 DEF UCInv, Known
        <5>2. procs'[f] \in {procs[f], NoConnector}
          BY <1>2 DEF ForgetFreed
        <5> QED
          BY <3>2, <5>1, <5>2
      <4>2. CASE UxFind(f) # {}
        <5>1. PICK b \in UxAddr : uxheap[b] # UxFree /\ uxheap[b].ufd = f
          BY <4>2, WatchedIs DEF UCInv
        <5>2. uxheap'[b] # UxFree /\ uxheap'[b].ufd = f
          BY <2>3, <2>4, <3>2, <5>1
        <5> QED
          BY <1>2, <3>2, <5>2 DEF ForgetFreed
      <4> QED
        BY <4>1, <4>2
    <3> QED
      BY <3>1, <3>2
  <2>9. taskOf' = taskOf
    <3>1. \A b \in Addr : heap[b] = Free => taskOf[b] = NoConnector
      BY DEF UCInv, Known
    <3> QED
      BY <1>2, <2>1, <3>1 DEF ForgetFreed, UCInv, CNTypes
  <2> QED
    BY <2>1, <2>6, <2>8, <2>9
<1> QED
  BY <1>1, <1>2 DEF RmIfWatched
-----------------------------------------------------------------------------
(* Every step keeps the invariant.                                         *)

Thens == {"return", "takeout", "destroy", "tell"}

LEMMA DoingIs ==
    /\ Nothing \in Doing
    /\ \A label \in Labels, k \in Connectors, then \in Thens, task \in Addr \cup {NULL} :
         At(label, k, then, task) \in Doing
PROOF
<1> QED
  BY DEF Nothing, At, Doing, Labels, Thens

LEMMA Doen ==
    ASSUME CNTypes, NEW t \in Threads, NEW what \in Doing, Do(t, what)
    PROVE  /\ doing' \in [Threads -> Doing]
           /\ doing'[t] = what /\ \A u \in Threads \ {t} : doing'[u] = doing[u]
PROOF
<1> QED
  BY DEF Do, CNTypes

(* What the parts of the invariant are that a step has to keep.            *)
Kept == CNTypes' /\ Known' /\ Links'

LEMMA LoseKeeps ==
    ASSUME UCInv, NEW why, Lose(why)
    PROVE  Kept
PROOF
<1>1. UNCHANGED <<uxVars, heap, connVars, program, connectors, procs, taskOf, doing, telling,
                  awaiting>>
  BY DEF Lose, vars, sharedVars, taskVars
<1>2. Known'
  BY <1>1, KnownStays
<1>3. Links'
  BY <1>1, LinksStay DEF Users, Existing, Links, UCInv
<1> QED
  BY <1>1, <1>2, <1>3 DEF Kept, UCInv, CNTypes

LEMMA LinksUntouched ==
    ASSUME UCInv, UNCHANGED <<connVars, connectors>>
    PROVE  Links'
PROOF
<1>1. IsFiniteSet(Existing') /\ \A c \in Conns : Users(connectors', c) = Users(connectors, c)
  BY DEF UCInv, Links, Existing
<1> QED
  BY <1>1, LinksStay DEF UCInv

LEMMA KnownUntouched ==
    ASSUME UCInv, UNCHANGED <<vars, procs, taskOf>>
    PROVE  Known'
PROOF
<1> QED
  BY KnownStays DEF vars, sharedVars, taskVars

LEMMA CreateKept ==
    ASSUME UCInv, NEW t \in Threads, NEW k \in Connectors, ConnectorCreate(t, k)
    PROVE  Kept
PROOF
<1> DEFINE r == [uxconn |-> NoConn, timeouttask_id |-> NULL]
<1>1. /\ connectors' = [connectors EXCEPT ![k] = r] /\ connectors[k] = NoConnector
      /\ UNCHANGED <<vars, connVars, program, procs, taskOf, doing, telling, awaiting>>
  BY DEF ConnectorCreate, Existing
<1>2. r \in ConnectorRecord \cup {NoConnector} /\ r.uxconn = NoConn
  BY DEF ConnectorRecord
<1> HIDE DEF r
<1>3. /\ connectors' \in [Connectors -> ConnectorRecord \cup {NoConnector}]
      /\ connectors'[k] = r /\ \A l \in Connectors \ {k} : connectors'[l] = connectors[l]
      /\ IsFiniteSet(Existing')
  <2>1. HoldMap(held')
    BY <1>1 DEF connVars, UCInv, Links
  <2> QED
    BY <1>1, <1>2, <2>1, OneConnectorChanges DEF UCInv, BecomesOnly
<1>4. \A c \in Conns : Users(connectors', c) = Users(connectors, c)
  BY <1>1, <1>2, <1>3, ClosedIsNoDescriptor DEF Users
<1>5. Links'
  BY <1>1, <1>3, <1>4, LinksStay DEF UCInv
<1>6. Known'
  BY <1>1, KnownUntouched
<1> QED
  BY <1>1, <1>3, <1>5, <1>6 DEF Kept, UCInv, CNTypes

LEMMA OpenKept ==
    ASSUME UCInv, NEW t \in Threads, NEW k \in Connectors, NEW c \in Conns,
           NEW task \in Addr \cup {NULL}, NEW delay \in Delays,
           ConnectorOpen(t, k, c, task, delay)
    PROVE  Kept
PROOF
<1>1. /\ k \in Existing /\ Conn(k) = NoConn /\ c \notin Allocated
      /\ connectors' = [connectors EXCEPT ![k].uxconn = c] /\ held' = held
      /\ awaiting' = awaiting \cup {k} /\ Do(t, At("watch", k, "return", task))
      /\ UNCHANGED <<held, program, procs, telling>>
  BY DEF ConnectorOpen, Openable
<1>2. PICK o \in UxOpen(UdpConn) :
        conns' = Created(c, "ux_stream", o.fd, UdpConn) /\ socks' = o.open
  BY DEF ConnectorOpen
<1>3. Links' /\ connectors' \in [Connectors -> ConnectorRecord \cup {NoConnector}]
  BY <1>1, <1>2, OpeningLinks DEF UCInv
<1>4. At("watch", k, "return", task) \in Doing
  BY DoingIs DEF Labels, Thens
<1>5. doing' \in [Threads -> Doing]
  BY <1>1, <1>4, Doen DEF UCInv
<1>6. Known' /\ taskOf' \in [Addr -> Connectors \cup {NoConnector}]
  <2>1. CASE UNCHANGED <<vars, taskOf>>
    BY <1>1, <2>1, KnownUntouched DEF UCInv, CNTypes
  <2>2. CASE task \in Addr /\ Post(t, task, delay) /\ taskOf' = [taskOf EXCEPT ![task] = k]
    BY <1>1, <2>2, PostIsKnown
  <2> QED
    BY <2>1, <2>2 DEF ConnectorOpen
<1> QED
  BY <1>1, <1>3, <1>5, <1>6 DEF Kept, UCInv, CNTypes

LEMMA WatchKept ==
    ASSUME UCInv, Inv', NEW t \in Threads, ConnectorWatch(t)
    PROVE  Kept
PROOF
<1>1. CASE Lose("uaf")
  BY <1>1, LoseKeeps
<1>2. CASE ~Lose("uaf")
  <2>1. PICK k \in Existing :
          /\ Conn(k) # NoConn /\ IsOpen(Conn(k)) /\ Add(t, Ufd(k), {"write"})
          /\ connectors' = [connectors EXCEPT ![k].timeouttask_id = doing[t].task]
          /\ procs' = [procs EXCEPT ![Ufd(k)] = [proc |-> "connect", connector |-> k]]
          /\ Do(t, Nothing)
          /\ UNCHANGED <<connVars, program, taskOf, telling, awaiting>>
    BY <1>2 DEF ConnectorWatch, Remember
  <2>2. k \in Connectors /\ connectors[k] \in ConnectorRecord /\ connectors[k] # NoConnector
        /\ Ufd(k) \in Ufds
    BY <2>1, ConnectorTypes, ConnectionOf DEF UCInv
  <2>3. PICK r \in ConnectorRecord :
          /\ connectors' = [connectors EXCEPT ![k] = r] /\ r.uxconn = connectors[k].uxconn
          /\ r # NoConnector
    <3> DEFINE r == [connectors[k] EXCEPT !.timeouttask_id = doing[t].task]
    <3>1. doing[t].task \in Addr \cup {NULL}
      BY DEF UCInv, CNTypes, Doing
    <3>2. /\ r \in ConnectorRecord /\ r.uxconn = connectors[k].uxconn
          /\ connectors' = [connectors EXCEPT ![k] = r] /\ r # NoConnector
      BY <2>1, <2>2, <3>1, NoConnectorIsNone DEF ConnectorRecord
    <3> QED
      BY <3>2
  <2>4. /\ connectors' \in [Connectors -> ConnectorRecord \cup {NoConnector}]
        /\ connectors'[k] = r /\ \A l \in Connectors \ {k} : connectors'[l] = connectors[l]
        /\ IsFiniteSet(Existing')
    <3>1. HoldMap(held') /\ r \in ConnectorRecord \cup {NoConnector}
      BY <2>1 DEF connVars, UCInv, Links
    <3>2. connectors' = [connectors EXCEPT ![k] = r]
      BY <2>3
    <3> QED
      BY <2>2, <3>1, <3>2, OneConnectorChanges DEF UCInv, BecomesOnly
  <2>5. \A c \in Conns : Users(connectors', c) = Users(connectors, c)
    BY <2>2, <2>3, <2>4 DEF Users
  <2>6. Links'
    BY <2>1, <2>4, <2>5, LinksStay DEF UCInv
  <2>7. doing' \in [Threads -> Doing]
    BY <2>1, DoingIs, Doen DEF UCInv
  <2>8. Known' /\ procs' \in [Ufds -> Handlers \cup {NoConnector}]
    <3>1. [proc |-> "connect", connector |-> k] \in Handlers
      BY <2>2 DEF Handlers
    <3> QED
      BY <2>1, <2>2, <3>1, WatchIsKnown, SomeCondition
  <2> QED
    BY <2>1, <2>4, <2>6, <2>7, <2>8 DEF Kept, UCInv, CNTypes
<1> QED
  BY <1>1, <1>2

LEMMA OpenFailsKept ==
    ASSUME UCInv, NEW t \in Threads, NEW k \in Connectors, NEW c \in Conns,
           ConnectorOpenFails(t, k, c)
    PROVE  Kept
PROOF
<1>1. /\ k \in Existing /\ Conn(k) = NoConn /\ c \notin Allocated
      /\ connectors' = [connectors EXCEPT ![k].uxconn = c] /\ held' = held
      /\ Do(t, At("rm", k, "return", NULL))
      /\ UNCHANGED <<vars, program, procs, taskOf, telling, awaiting>>
  BY DEF ConnectorOpenFails, Openable
<1>2. PICK o \in UxOpen(UdpConn) :
        conns' = Created(c, "ux_stream", o.fd, UdpConn) /\ socks' = o.open
  BY DEF ConnectorOpenFails
<1>3. Links' /\ connectors' \in [Connectors -> ConnectorRecord \cup {NoConnector}]
  BY <1>1, <1>2, OpeningLinks DEF UCInv
<1>4. At("rm", k, "return", NULL) \in Doing
  BY DoingIs DEF Labels, Thens
<1>5. doing' \in [Threads -> Doing]
  BY <1>1, <1>4, Doen DEF UCInv
<1> QED
  BY <1>1, <1>3, <1>5, KnownUntouched DEF Kept, UCInv, CNTypes

LEMMA ClosingKept ==
    ASSUME UCInv, NEW t \in Threads, NEW k \in Connectors,
           NEW then \in {"return", "takeout", "destroy"}, ConnectorClose(t, k, then)
    PROVE  Kept
PROOF
<1>1. /\ k \in Existing /\ awaiting' = awaiting \ {k}
      /\ UNCHANGED <<vars, program, procs, taskOf, telling>>
  BY DEF ConnectorClose, MayClose
<1>2. Known'
  BY <1>1, KnownUntouched
<1>3. CASE Finish(t, k, then)
  <2>1. Links' /\ connectors' \in [Connectors -> ConnectorRecord \cup {NoConnector}]
    BY <1>1, <1>3, FinishLinks DEF UCInv
  <2>2. doing' \in [Threads -> Doing]
    BY <1>3, DoingIs, Doen DEF UCInv, Finish
  <2> QED
    BY <1>1, <1>2, <2>1, <2>2 DEF Kept, UCInv, CNTypes
<1>4. CASE Do(t, At("rm", k, then, NULL)) /\ UNCHANGED <<connVars, connectors>>
  <2>1. At("rm", k, then, NULL) \in Doing
    BY DoingIs DEF Labels, Thens
  <2>2. doing' \in [Threads -> Doing]
    BY <1>4, <2>1, Doen DEF UCInv
  <2> QED
    BY <1>1, <1>2, <1>4, <2>2, LinksUntouched DEF Kept, UCInv, CNTypes
<1> QED
  BY <1>3, <1>4 DEF ConnectorClose

LEMMA CancelFrees ==
    ASSUME Inv, NEW t \in Threads, NEW id \in Addr \cup {NULL}, CancelTimeout(t, id)
    PROVE  /\ uxVars' = uxVars /\ tasks' = tasks
           /\ \A a \in Addr : heap'[a] = Free <=> heap[a] = Free
PROOF
<1>1. CASE UNCHANGED vars
  BY <1>1 DEF vars, sharedVars, taskVars
<1>2. CASE Cancel(t, id)
  <2>1. uxVars' = uxVars /\ tasks' = tasks
    BY <1>2 DEF Cancel, ListCancel
  <2>2. CASE heap' = heap
    BY <2>1, <2>2
  <2>3. CASE id \in Listed /\ ListCancel(id)
    <3>1. id \in Addr
      BY <2>3, ListFacts
    <3>2. \A a \in Addr : heap'[a] = Free <=> heap[a] = Free
      BY <2>3, <3>1, ListFacts, ListCancelKeeps
    <3> QED
      BY <2>1, <3>2
  <2> QED
    BY <1>2, <2>2, <2>3 DEF Cancel, ListCancel
<1> QED
  BY <1>1, <1>2 DEF CancelTimeout

LEMMA CancelKept ==
    ASSUME UCInv, NEW t \in Threads, ConnectorCancel(t)
    PROVE  Kept
PROOF
<1>1. CASE Lose("uaf")
  BY <1>1, LoseKeeps
<1>2. CASE ~Lose("uaf")
  <2>1. PICK k \in Existing :
          /\ CancelTimeout(t, connectors[k].timeouttask_id)
          /\ Finish(t, k, doing[t].then)
          /\ awaiting' \subseteq awaiting
          /\ telling' \in {telling, [telling EXCEPT ![t] = k]}
          /\ UNCHANGED <<program, procs, taskOf>>
    BY <1>2 DEF ConnectorCancel, Tell
  <2>2. doing[t].then \in Thens /\ k \in Connectors
        /\ connectors[k].timeouttask_id \in Addr \cup {NULL}
    BY ConnectorTypes DEF UCInv, CNTypes, Doing, Thens
  <2>3. Links' /\ connectors' \in [Connectors -> ConnectorRecord \cup {NoConnector}]
    BY <2>1, <2>2, FinishLinks DEF UCInv, Thens
  <2>4. doing' \in [Threads -> Doing]
    BY <2>1, DoingIs, Doen DEF UCInv, Finish
  <2>5. Known'
    BY <2>1, <2>2, CancelFrees, KnownStays DEF UCInv
  <2> QED
    BY <2>1, <2>2, <2>3, <2>4, <2>5 DEF Kept, UCInv, CNTypes
<1> QED
  BY <1>1, <1>2

LEMMA CalledOrUsedKept ==
    ASSUME UCInv, Inv', NEW t \in Threads,
           \/ ConnectorRm(t)
           \/ \E k \in Connectors : SetEventHandler(t, k)
           \/ \E k \in Connectors, c \in Conns : ConnectorOpen2(t, k, c)
           \/ \E c \in Conns : Release(t, c)
    PROVE  Kept
PROOF
<1>1. CASE ConnectorRm(t)
  <2>1. CASE Lose("uaf")
    BY <2>1, LoseKeeps
  <2>2. ASSUME NEW ufd, RmIfWatched(t, ufd), Do(t, [doing[t] EXCEPT !.at = "cancel"]),
               UNCHANGED <<connVars, program, connectors, telling, awaiting>>
        PROVE  Kept
    <3>1. [doing[t] EXCEPT !.at = "cancel"] \in Doing
      BY DEF UCInv, CNTypes, Doing, Labels
    <3>2. doing' \in [Threads -> Doing]
      BY <2>2, <3>1, Doen DEF UCInv
    <3> QED
      BY <2>2, <3>2, RmFrees, LinksUntouched DEF Kept, UCInv, CNTypes
  <2>3. ASSUME NEW k \in Existing, Finish(t, k, doing[t].then), Tell(t, k, doing[t].then),
               UNCHANGED <<vars, program, procs, taskOf>>
        PROVE  Kept
    <3>1. doing[t].then \in Thens /\ k \in Connectors
      BY ConnectorTypes DEF UCInv, CNTypes, Doing, Thens
    <3>2. Links' /\ connectors' \in [Connectors -> ConnectorRecord \cup {NoConnector}]
      BY <2>3, <3>1, FinishLinks DEF UCInv, Thens
    <3>3. doing' \in [Threads -> Doing]
      BY <2>3, DoingIs, Doen DEF UCInv, Finish
    <3>4. awaiting' \subseteq awaiting /\ telling' \in {telling, [telling EXCEPT ![t] = k]}
      BY <2>3 DEF Tell
    <3>5. Known'
      BY <2>3, KnownUntouched DEF UCInv
    <3> QED
      BY <2>3, <3>1, <3>2, <3>3, <3>4, <3>5 DEF Kept, UCInv, CNTypes
  <2> QED
    BY <1>1, <2>1, <2>2, <2>3 DEF ConnectorRm
<1>2. ASSUME NEW k \in Connectors, SetEventHandler(t, k) PROVE Kept
  <2>1. /\ k \in Existing /\ Conn(k) # NoConn /\ IsOpen(Conn(k))
        /\ Add(t, Ufd(k), {"read"})
        /\ procs' = [procs EXCEPT ![Ufd(k)] = [proc |-> "user", connector |-> k]]
        /\ UNCHANGED <<connVars, program, connectors, taskOf, doing, telling, awaiting>>
    BY <1>2 DEF SetEventHandler
  <2>2. Ufd(k) \in Ufds /\ [proc |-> "user", connector |-> k] \in Handlers
    BY <2>1, ConnectionOf DEF UCInv, Handlers
  <2>3. Known' /\ procs' \in [Ufds -> Handlers \cup {NoConnector}]
    BY <2>1, <2>2, WatchIsKnown, SomeCondition
  <2> QED
    BY <2>1, <2>3, LinksUntouched DEF Kept, UCInv, CNTypes
<1>3. ASSUME NEW k \in Connectors, NEW c \in Conns, ConnectorOpen2(t, k, c) PROVE Kept
  <2>1. Links' /\ connectors' \in [Connectors -> ConnectorRecord \cup {NoConnector}]
    BY <1>3, SharingLinks DEF UCInv
  <2>2. UNCHANGED <<vars, program, procs, taskOf, doing, telling, awaiting>>
    BY <1>3 DEF ConnectorOpen2
  <2> QED
    BY <2>1, <2>2, KnownUntouched DEF Kept, UCInv, CNTypes
<1>4. ASSUME NEW c \in Conns, Release(t, c) PROVE Kept
  <2>1. Links'
    BY <1>4, ReleaseLinks DEF UCInv
  <2>2. UNCHANGED <<vars, cnVars>>
    BY <1>4 DEF Release
  <2>3. Known'
    BY <2>2, KnownUntouched DEF cnVars
  <2> QED
    BY <2>1, <2>2, <2>3 DEF Kept, UCInv, CNTypes, cnVars
<1> QED
  BY <1>1, <1>2, <1>3, <1>4

LEMMA ConnectorStepKept ==
    ASSUME UCInv, Inv', NEW t \in Threads, ConnectorStep(t)
    PROVE  Kept
PROOF
<1> QED
  BY CreateKept, OpenKept, WatchKept, OpenFailsKept, ClosingKept, CancelKept, CalledOrUsedKept
     DEF ConnectorStep

(* The handler of a socket that is watched is known.                       *)
LEMMA CalledIsKnown ==
    ASSUME UCInv, NEW w \in Workers, pc[w] = "call", uxheap[uxe[w]] # UxFree
    PROVE  uxheap[uxe[w]].ufd \in Ufds /\ procs[uxheap[uxe[w]].ufd] \in Handlers
PROOF
<1>1. uxe[w] \in UxAddr
  BY DEF UCInv, Inv, Types, Hands
<1>2. uxheap[uxe[w]].ufd \in Ufds
  BY <1>1 DEF UCInv, Inv, Types, UxTypeOK, UxEvent
<1>3. UxFind(uxheap[uxe[w]].ufd) # {}
  BY <1>1, WatchedIs DEF UCInv
<1> QED
  BY <1>2, <1>3 DEF UCInv, Known, CNTypes

(* So is the connector of a task that a worker has.                        *)
LEMMA RunIsKnown ==
    ASSUME UCInv, NEW w \in Workers, pc[w] \in {"run", "proc", "drop"}
    PROVE  /\ first[w] \in Addr \ Listed /\ heap[first[w]] # Free
           /\ taskOf[first[w]] \in Connectors
PROOF
<1>1. first[w] # NULL
  BY DEF UCInv, Inv, Hands, TaskInHand
<1>2. first[w] \in Addr \ Listed /\ heap[first[w]] # Free
  BY <1>1 DEF UCInv, Inv, Types, HeapOwnership
<1> QED
  BY <1>2 DEF UCInv, Known, CNTypes

LEMMA CallbackKept ==
    ASSUME UCInv, NEW w \in Workers,
           CallHandler(w) \/ HandlerDone(w) \/ RunTimeout(w) \/ TimeoutDone(w)
    PROVE  Kept
PROOF
<1>1. /\ UNCHANGED <<uxVars, heap, connVars, program, connectors, procs, taskOf, awaiting>>
      /\ telling' \in {telling, [telling EXCEPT ![w] = NoConnector]}
  BY DEF CallHandler, HandlerDone, RunTimeout, TimeoutDone, Call, HandlerReturns, Run, Return,
     MoveOn, Abort, sharedVars, taskVars
<1>2. doing' \in [Threads -> Doing]
  <2>1. CASE doing' = doing
    BY <2>1 DEF UCInv, CNTypes
  <2>2. CASE CallHandler(w) /\ doing' # doing
    <3>1. /\ Do(w, At("assert", procs[uxheap[uxe[w]].ufd].connector, "tell", NULL))
          /\ pc[w] = "call" /\ uxheap[uxe[w]] # UxFree
      BY <2>2 DEF CallHandler, Call, Abort
    <3>2. procs[uxheap[uxe[w]].ufd].connector \in Connectors
      BY <3>1, CalledIsKnown DEF Handlers
    <3>3. At("assert", procs[uxheap[uxe[w]].ufd].connector, "tell", NULL) \in Doing
      BY <3>2, DoingIs DEF Labels, Thens
    <3> QED
      BY <3>1, <3>3, Doen, ThreadsAre DEF UCInv
  <2>3. CASE RunTimeout(w) /\ doing' # doing
    <3>1. Do(w, At("rm", taskOf[first[w]], "tell", NULL)) /\ pc[w] = "run"
      BY <2>3 DEF RunTimeout, Run, MoveOn
    <3>2. taskOf[first[w]] \in Connectors
      BY <3>1, RunIsKnown
    <3>3. At("rm", taskOf[first[w]], "tell", NULL) \in Doing
      BY <3>2, DoingIs DEF Labels, Thens
    <3> QED
      BY <3>1, <3>3, Doen, ThreadsAre DEF UCInv
  <2> QED
    BY <2>1, <2>2, <2>3 DEF HandlerDone, TimeoutDone
<1>3. Known'
  BY <1>1, KnownStays
<1>4. Links'
  BY <1>1, LinksUntouched
<1> QED
  BY <1>1, <1>2, <1>3, <1>4 DEF Kept, UCInv, CNTypes

LEMMA ConnectedKept ==
    ASSUME UCInv, Inv', NEW w \in Workers, AssertCancelled(w) \/ Unwatch(w)
    PROVE  Kept
PROOF
<1>0. w \in Threads
  BY ThreadsAre
<1>1. CASE \E why : Lose(why)
  BY <1>1, LoseKeeps
<1>2. CASE AssertCancelled(w) /\ ~\E why : Lose(why)
  <2>1. PICK k \in Existing :
          /\ connectors[k].timeouttask_id \in Listed
          /\ Cancel(w, connectors[k].timeouttask_id)
          /\ Do(w, [doing[w] EXCEPT !.at = "unwatch"])
          /\ UNCHANGED <<connVars, program, connectors, procs, taskOf, telling, awaiting>>
    BY <1>2 DEF AssertCancelled
  <2>2. [doing[w] EXCEPT !.at = "unwatch"] \in Doing
    BY <1>0 DEF UCInv, CNTypes, Doing, Labels
  <2>3. doing' \in [Threads -> Doing]
    BY <1>0, <2>1, <2>2, Doen DEF UCInv
  <2>4. CancelTimeout(w, connectors[k].timeouttask_id)
        /\ connectors[k].timeouttask_id \in Addr \cup {NULL}
    BY <2>1, ConnectorTypes DEF UCInv, CancelTimeout
  <2>5. uxVars' = uxVars /\ \A a \in Addr : heap'[a] = Free <=> heap[a] = Free
    BY <1>0, <2>4, CancelFrees DEF UCInv
  <2>6. Known'
    BY <2>1, <2>5, KnownStays
  <2> QED
    BY <2>1, <2>3, <2>6, LinksUntouched DEF Kept, UCInv, CNTypes
<1>3. CASE Unwatch(w) /\ ~\E why : Lose(why)
  <2>1. PICK k \in Existing :
          /\ RmIfWatched(w, called[w])
          /\ awaiting' = awaiting \ {k}
          /\ telling' = [telling EXCEPT ![w] = k]
          /\ Do(w, Nothing)
          /\ UNCHANGED <<connVars, program, connectors>>
    BY <1>3 DEF Unwatch
  <2>2. doing' \in [Threads -> Doing] /\ k \in Connectors
    BY <1>0, <2>1, DoingIs, Doen, ConnectorTypes DEF UCInv
  <2>3. Known' /\ procs' \in [Ufds -> Handlers \cup {NoConnector}] /\ taskOf' = taskOf
    BY <1>0, <2>1, RmFrees
  <2> QED
    BY <2>1, <2>2, <2>3, LinksUntouched DEF Kept, UCInv, CNTypes
<1> QED
  BY <1>1, <1>2, <1>3

(* Few steps of the uxscheduler's own touch its lists.                     *)
LEMMA SchedulerTouches ==
    ASSUME SchedulerStep
    PROVE  /\ \/ heap' = heap
              \/ \E t \in Threads : DestroyClearTasks(t)
              \/ \E w \in Workers : Drop(w)
           /\ UNCHANGED uxVars \/ \E t \in Threads : DestroyClear(t)
           /\ \/ tasks' = tasks
              \/ \E t \in Threads : DestroyClearTasks(t)
              \/ \E w \in Workers : TakeTask(w)
PROOF
<1>1. ASSUME NEW t \in Threads, OwnerStep(t)
      PROVE  /\ UNCHANGED taskVars \/ DestroyClearTasks(t)
             /\ UNCHANGED uxVars \/ DestroyClear(t)
  BY <1>1 DEF OwnerStep, StartLock, StartArm, StartMark, StopLock, StopJoin, Destroy,
     DestroyStopped, DestroyClear, DestroyClearTasks, DestroyFree, MoveOn, Abort, sharedVars
<1>2. ASSUME NEW t \in Threads, RmReturn(t) \/ Timeout(t) \/ Spurious(t)
      PROVE  UNCHANGED <<taskVars, uxVars>>
  BY <1>2 DEF RmReturn, Timeout, Spurious, sharedVars
<1>3. ASSUME NEW w \in Workers,
             \/ Loop(w) \/ LockWait(w) \/ CheckStarted(w) \/ Prepare(w)
             \/ SelectReady(w) \/ SelectTimesOut(w) \/ Find(w)
             \/ Leave(w) \/ Forget(w) \/ Pend(w) \/ Halt(w)
      PROVE  UNCHANGED <<taskVars, uxVars>>
  BY <1>3 DEF Loop, LockWait, CheckStarted, Prepare, SelectReady, SelectTimesOut, Find, Leave,
     Forget, Pend, Halt, MoveOn, sharedVars
<1>4. ASSUME NEW w \in Workers, Drop(w) \/ TakeTask(w)
      PROVE  UNCHANGED uxVars
  BY <1>4 DEF Drop, TakeTask
<1>5. ASSUME NEW w \in Workers, TakeTask(w)
      PROVE  heap' = heap
  BY <1>5 DEF TakeTask, ListDelFirst, taskVars
<1>6. ASSUME NEW w \in Workers, Drop(w)
      PROVE  tasks' = tasks
  BY <1>6 DEF Drop, TaskDestroy
<1>7. Tick => UNCHANGED <<taskVars, uxVars>>
  BY DEF Tick, sharedVars
<1> QED
  BY <1>1, <1>2, <1>3, <1>4, <1>5, <1>6, <1>7 DEF SchedulerStep, taskVars

(* Who leaves the lists is freed, and nobody joins them.                   *)
LEMMA SchedulerFrees ==
    ASSUME UCInv, Inv', SchedulerStep
    PROVE  /\ \A a \in Addr : heap'[a] # Free => heap'[a] = heap[a]
           /\ \/ uxheap' = uxheap /\ uxevents' = uxevents
              \/ \A a \in UxAddr : uxheap'[a] = UxFree
           /\ \A f \in Ufds : UxFind(f)' # {} => UxFind(f) # {}
PROOF
<1>1. \A a \in Addr : heap'[a] # Free => heap'[a] = heap[a]
  <2>0. heap \in [Addr -> TimerTask \cup {Free}]
    BY DEF UCInv, Inv, Types, TaskTypeOK
  <2>1. \/ heap' = heap
        \/ \E t \in Threads : DestroyClearTasks(t)
        \/ \E w \in Workers : Drop(w)
    BY SchedulerTouches
  <2>2. ASSUME NEW t \in Threads, DestroyClearTasks(t)
        PROVE  \A a \in Addr : heap'[a] # Free => heap'[a] = heap[a]
    BY <2>2 DEF DestroyClearTasks, ListClear
  <2>3. ASSUME NEW w \in Workers, Drop(w)
        PROVE  \A a \in Addr : heap'[a] # Free => heap'[a] = heap[a]
    BY <2>0, <2>3 DEF Drop, TaskDestroy
  <2> QED
    BY <2>1, <2>2, <2>3
<1>2. (uxheap' = uxheap /\ uxevents' = uxevents) \/ (\A a \in UxAddr : uxheap'[a] = UxFree)
  <2>1. \/ UNCHANGED uxVars
        \/ \E t \in Threads : DestroyClear(t)
    BY SchedulerTouches
  <2>2. ASSUME NEW t \in Threads, DestroyClear(t)
        PROVE  \A a \in UxAddr : uxheap'[a] = UxFree
    <3>1. UxClear
      BY <2>2 DEF DestroyClear
    <3>2. \A a \in UxAddr : a \in UxListed <=> uxheap[a] # UxFree
      BY InvUxOK, UxFacts DEF UCInv
    <3> QED
      BY <3>1, <3>2 DEF UxClear
  <2> QED
    BY <2>1, <2>2 DEF uxVars
<1>3. \A f \in Ufds : UxFind(f)' # {} => UxFind(f) # {}
  BY <1>2, WatchedIs DEF UCInv
<1> QED
  BY <1>1, <1>2, <1>3

LEMMA SchedulerKept ==
    ASSUME UCInv, Inv', SchedulerStep
    PROVE  Kept
PROOF
<1>1. ForgetFreed /\ UNCHANGED <<connVars, program, connectors, doing, telling, awaiting>>
  BY DEF SchedulerStep
<1>2. /\ Known' /\ procs' \in [Ufds -> Handlers \cup {NoConnector}]
      /\ taskOf' \in [Addr -> Connectors \cup {NoConnector}]
  BY <1>1, SchedulerFrees, ForgottenIsFreed
<1> QED
  BY <1>1, <1>2, LinksUntouched DEF Kept, UCInv, CNTypes

LEMMA UCNextInv == UCInv /\ [UCNext]_allVars => UCInv'
PROOF
<1> SUFFICES ASSUME UCInv, [UCNext]_allVars PROVE UCInv'
  OBVIOUS
<1>1. CASE UNCHANGED allVars
  <2>1. UNCHANGED <<vars, connVars, cnVars>>
    BY <1>1 DEF allVars
  <2>2. Inv' /\ Turns'
    BY <2>1, NextInv, NextTurns DEF UCInv
  <2>3. Links' /\ Known'
    BY <2>1, LinksUntouched, KnownUntouched DEF cnVars
  <2> QED
    BY <2>1, <2>2, <2>3 DEF UCInv, CNTypes, cnVars
<1>2. CASE Working /\ UCStep
  <2>1. [Next]_vars
    BY <1>2, UCStepIsNext
  <2>2. Inv' /\ Turns'
    BY <2>1, NextInv, NextTurns DEF UCInv
  <2>3. Kept
    BY <1>2, <2>2, ConnectorStepKept, CallbackKept, ConnectedKept, SchedulerKept DEF UCStep
  <2> QED
    BY <2>2, <2>3 DEF Kept, UCInv
<1> QED
  BY <1>1, <1>2 DEF UCNext
-----------------------------------------------------------------------------
LEMMA InitTurns == Init => Turns
PROOF
<1> SUFFICES ASSUME Init PROVE Turns
  OBVIOUS
<1>1. life = "live" /\ pc = [t \in Threads |-> IF t \in Workers THEN "none" ELSE "idle"]
  BY DEF Init
<1>2. \A t \in Threads : pc[t] \in {"none", "idle"}
  BY <1>1
<1>3. \A w \in Workers : ~Active(w)
  BY <1>1, ThreadsAre DEF Active
<1> QED
  BY <1>1, <1>2, <1>3 DEF Turns, Named, EndedStopped, Clearing

LEMMA InitLinks == UCInit => Links
PROOF
<1> SUFFICES ASSUME UCInit PROVE Links
  OBVIOUS
<1> DEFINE u == [kind |-> "inet_dgram", fd |-> UdpFd, udp |-> NoConn, refs |-> 1]
           h == Holds(connectors, held)
<1>1. u \in ConnectionRecord /\ u.kind = "inet_dgram" /\ u.fd = UdpFd /\ u.udp = NoConn
      /\ u.refs = 1
  BY UdpIsConnection DEF ConnectionRecord, ConnKinds
<1>2. u # Unallocated
  BY <1>1, UnallocatedIsNoConnection
<1>3. conns = [c \in Conns |-> IF c = UdpConn THEN u ELSE Unallocated]
  BY DEF UCInit
<1> HIDE DEF u
<1>4. There(conns) = {UdpConn} /\ conns[UdpConn] = u /\ ConnMap(conns)
  BY <1>1, <1>2, <1>3, UdpIsConnection DEF There, ConnMap
<1>5. \A c \in Conns : BoundIn(conns, c) = {}
  BY <1>1, <1>4, ClosedIsNoDescriptor DEF BoundIn
<1>6. Existing = {} /\ \A c \in Conns : Users(connectors, c) = {}
  BY DEF UCInit, Existing, Users
<1>7. /\ HoldMap(held) /\ held[UdpConn] = 1
      /\ \A c \in Conns : held[c] = IF c = UdpConn THEN 1 ELSE 0
  BY UdpIsConnection DEF UCInit, HoldMap
<1>8. Cardinality({}) = 0 /\ IsFiniteSet({})
  BY FS_EmptySet
<1>9. HoldMap(h) /\ \A c \in Conns : h[c] = held[c]
  <2>1. \A c \in Conns : Cardinality(Users(connectors, c)) = 0
    BY <1>6, <1>8
  <2>2. HoldMap(h) /\ \A c \in Conns : h[c] = held[c] + Cardinality(Users(connectors, c))
    BY <1>7, <2>1, HoldsSum
  <2> QED
    BY <1>7, <2>1, <2>2
<1> HIDE DEF h
<1>10. Counted(conns, h)
  <2>1. RefsIn(conns, h)
    <3>1. \A c \in Conns : Cardinality(BoundIn(conns, c)) = 0
      BY <1>5, <1>8
    <3> QED
      BY <1>1, <1>4, <1>7, <1>9, <3>1 DEF RefsIn
  <2>2. Chains(conns)
    BY <1>1, <1>4 DEF Chains
  <2>3. IsFiniteSet(There(conns))
    BY <1>4, FS_Singleton
  <2> QED
    BY <1>4, <1>9, <2>1, <2>2, <2>3 DEF Counted
<1>11. OwnedIn(conns, socks)
  <2>1. UdpFd # Closed /\ socks = {UdpFd}
    BY UdpIsConnection, ClosedIsNoDescriptor DEF UCInit
  <2> QED
    BY <1>1, <1>4, <2>1 DEF OwnedIn
<1>12. socks \subseteq Fds
  BY UdpIsConnection DEF UCInit
<1> QED
  BY <1>1, <1>4, <1>6, <1>7, <1>8, <1>10, <1>11, <1>12, UdpIsConnection DEF Links, h

LEMMA UCInitInv == UCInit => UCInv
PROOF
<1> SUFFICES ASSUME UCInit PROVE UCInv
  OBVIOUS
<1>1. Init
  BY DEF UCInit
<1>2. Inv /\ Turns /\ Links
  BY <1>1, InitInv, InitTurns, InitLinks
<1>3. CNTypes
  BY DoingIs DEF UCInit, CNTypes
<1>4. Known
  <2>1. \A f \in Ufds : procs[f] = NoConnector
    BY DEF UCInit
  <2>2. \A a \in Addr : taskOf[a] = NoConnector /\ heap[a] = Free
    BY <1>1 DEF UCInit, Init, ListInit
  <2>3. \A a \in UxAddr : uxheap[a] = UxFree
    BY <1>1 DEF Init, UxInit
  <2>4. \A f : UxFind(f) = {}
    BY <1>2, <2>3, WatchedIs
  <2> QED
    BY <2>1, <2>2, <2>4 DEF Known
<1> QED
  BY <1>2, <1>3, <1>4 DEF UCInv

LEMMA UCSpecInv == UCSpec => []UCInv
PROOF
<1> HIDE DEF UCInv
<1> QED
  BY UCInitInv, UCNextInv, PTL DEF UCSpec

LEMMA UCInvOwns == UCInv => Owned
PROOF
<1> SUFFICES ASSUME UCInv PROVE Owned
  OBVIOUS
<1> DEFINE others == [c \in Conns |-> Cardinality({k \in Existing : Conn(k) = c})]
           h == Holds(connectors, held)
<1>1. OneEventPerSocket /\ HeapOwnership
  BY DEF UCInv, Inv
<1>2. Allocated = There(conns)
  BY DEF Allocated, There
<1>3. DescriptorsOwned
  BY <1>2 DEF UCInv, Links, OwnedIn, DescriptorsOwned, IsOpen
<1>4. \A c \in Conns : {k \in Existing : Conn(k) = c} = Users(connectors, c)
  BY DEF Existing, Conn, Users
<1>5. \A c \in Conns : others[c] = Cardinality(Users(connectors, c))
  BY <1>4
<1>6. \A c \in Conns : Cardinality(Users(connectors, c)) \in Nat
  BY UsersFinite DEF UCInv, Links
<1>7. \A c \in Conns : h[c] = held[c] + Cardinality(Users(connectors, c))
  BY <1>6, HoldsSum DEF UCInv, Links
<1>8. Counted(conns, h) /\ HoldMap(held)
  BY DEF UCInv, Links
<1> HIDE DEF h, others
<1>9. RefsAre(others)
  <2> SUFFICES ASSUME NEW c \in Conns
               PROVE  LET bound == {d \in Allocated : conns[d].udp = c}
                          count == held[c] + Cardinality(bound) + others[c]
                      IN  IF c \in Allocated THEN conns[c].refs = count /\ count > 0
                          ELSE count = 0
    BY DEF RefsAre
  <2> DEFINE b == Cardinality(BoundIn(conns, c))
             n == Cardinality(Users(connectors, c))
  <2>1. BoundIn(conns, c) = {d \in Allocated : conns[d].udp = c}
    BY <1>2 DEF BoundIn
  <2>2. b \in Nat /\ held[c] \in Nat /\ n \in Nat /\ others[c] = n /\ h[c] = held[c] + n
    BY <1>5, <1>6, <1>7, <1>8, BoundFacts DEF HoldMap
  <2>3. IF c \in There(conns) THEN conns[c].refs = h[c] + b /\ h[c] + b > 0 ELSE h[c] + b = 0
    BY <1>8 DEF Counted, RefsIn
  <2> HIDE DEF b, n
  <2>4. held[c] + b + others[c] = h[c] + b
    BY <2>2
  <2> QED
    BY <1>2, <2>1, <2>3, <2>4 DEF b
<1> QED
  BY <1>1, <1>3, <1>9 DEF Owned, others

(* Whatever the threads do with connectors at the same time, with any call *)
(* of the system failing: no descriptor and no connection leaks or is      *)
(* freed twice, a connection lives as long as its holders, and the lists   *)
(* of the uxscheduler below stay what they must be.                        *)
THEOREM UxConnectorsKeepTheirOwn == UCSpec => []Owned
PROOF
<1> HIDE DEF UCInv, Owned
<1> QED
  BY UCSpecInv, UCInvOwns, PTL

(* The types that UCInv leaves out.                                        *)
LEMMA StepLoses ==
    ASSUME UCStep
    PROVE  lost' = lost \/ lost' \in {"assert", "uaf"}
PROOF
<1>1. ASSUME NEW t \in Threads, ConnectorStep(t) PROVE lost' = lost \/ lost' = "uaf"
  <2>1. ASSUME NEW k \in Connectors,
               \/ ConnectorCreate(t, k) \/ SetEventHandler(t, k)
               \/ \E then \in {"return", "takeout", "destroy"} : ConnectorClose(t, k, then)
               \/ \E c \in Conns : ConnectorOpenFails(t, k, c) \/ ConnectorOpen2(t, k, c)
        PROVE  lost' = lost
    BY <2>1 DEF ConnectorCreate, SetEventHandler, ConnectorClose, ConnectorOpenFails,
       ConnectorOpen2
  <2>2. ASSUME NEW k, NEW c, NEW task, NEW delay, ConnectorOpen(t, k, c, task, delay)
        PROVE  lost' = lost
    BY <2>2 DEF ConnectorOpen
  <2>3. ASSUME NEW c, Release(t, c) PROVE lost' = lost
    BY <2>3 DEF Release, cnVars
  <2>4. CASE ConnectorWatch(t) \/ ConnectorRm(t) \/ ConnectorCancel(t)
    BY <2>4 DEF ConnectorWatch, ConnectorRm, ConnectorCancel, Lose
  <2> QED
    BY <1>1, <2>1, <2>2, <2>3, <2>4 DEF ConnectorStep
<1>2. ASSUME NEW w \in Workers,
             \/ CallHandler(w) \/ AssertCancelled(w) \/ Unwatch(w) \/ HandlerDone(w)
             \/ RunTimeout(w) \/ TimeoutDone(w)
      PROVE  lost' = lost \/ lost' \in {"assert", "uaf"}
  BY <1>2 DEF CallHandler, AssertCancelled, Unwatch, HandlerDone, RunTimeout, TimeoutDone, Lose
<1>3. CASE SchedulerStep
  BY <1>3 DEF SchedulerStep
<1> QED
  BY <1>1, <1>2, <1>3 DEF UCStep

UCMoreTypes == MoreTypes /\ lost \in {"none", "assert", "uaf"}

LEMMA UCNextTyped == UCInv /\ UCMoreTypes /\ [UCNext]_allVars => UCMoreTypes'
PROOF
<1> SUFFICES ASSUME UCInv, UCMoreTypes, [UCNext]_allVars PROVE UCMoreTypes'
  OBVIOUS
<1>1. CASE UNCHANGED allVars
  <2>1. UNCHANGED vars /\ lost' = lost
    BY <1>1 DEF allVars, cnVars
  <2> QED
    BY <2>1, NextTyped DEF UCInv, UCMoreTypes
<1>2. CASE Working /\ UCStep
  <2>1. [Next]_vars
    BY <1>2, UCStepIsNext
  <2> QED
    BY <1>2, <2>1, NextTyped, StepLoses DEF UCInv, UCMoreTypes
<1> QED
  BY <1>1, <1>2 DEF UCNext

LEMMA UCTypesAreAll == UCInv /\ UCMoreTypes => UCTypeOK
PROOF
<1> SUFFICES ASSUME UCInv, UCMoreTypes PROVE UCTypeOK
  OBVIOUS
<1>1. TypeOK
  BY TypesAreAll DEF UCInv, UCMoreTypes
<1>2. ConnTypeOK
  BY DEF UCInv, Links, Counted, ConnMap, HoldMap, ConnTypeOK
<1> QED
  BY <1>1, <1>2 DEF UCInv, CNTypes, Handlers, UCMoreTypes, UCTypeOK

(* Connectors, uxscheduler and connections together: whatever the threads  *)
(* do with them at the same time, every thread is at a place of the code,  *)
(* what is stored of sockets, tasks and handlers is of sockets, tasks and  *)
(* handlers that there can be, and an object that was freed is not half    *)
(* there (src/connector.c:142-227 over src/uxscheduler.c:60-213).          *)
THEOREM UxConnectorTypes == UCSpec => []UCTypeOK
PROOF
<1>1. UCInit => UCMoreTypes
  BY InitTyped DEF UCInit, UCMoreTypes
<1>2. UCInv /\ UCMoreTypes /\ [UCNext]_allVars => UCMoreTypes'
  BY UCNextTyped
<1>3. UCInv /\ UCMoreTypes => UCTypeOK
  BY UCTypesAreAll
<1> HIDE DEF UCInv, UCMoreTypes, UCTypeOK
<1> QED
  BY <1>1, <1>2, <1>3, UCSpecInv, PTL DEF UCSpec

(* The composition is a program of the uxscheduler: whatever connectors    *)
(* and their handlers do, each of their steps is, for the uxscheduler, one *)
(* of its own steps by a thread that may take it, or nothing at all. What  *)
(* is proved of Spec for every client so holds under connectors too        *)
(* (src/connector.c:100-227 calling src/uxscheduler.c:60-213).             *)
THEOREM UxConnectorsAreClients == UCSpec => Spec
PROOF
<1>1. UCInit => Init
  BY DEF UCInit
<1>2. ASSUME UCInv, [UCNext]_allVars PROVE [Next]_vars
  <2>1. CASE UNCHANGED allVars
    BY <2>1 DEF allVars
  <2>2. CASE Working /\ UCStep
    BY <1>2, <2>2, UCStepIsNext
  <2> QED
    BY <1>2, <2>1, <2>2 DEF UCNext
<1> HIDE DEF UCInv
<1> QED
  BY <1>1, <1>2, UCSpecInv, PTL DEF UCSpec, Spec

(* A client that closes a connector, and so waits for the removal of its   *)
(* socket, is told when the worker has seen the removal.                   *)
THEOREM UxConnectorsRemember == UCSpec => []NoForgottenRemoval
PROOF
<1>1. UCInv => NoForgottenRemoval
  BY DEF UCInv, Inv
<1> HIDE DEF UCInv, NoForgottenRemoval
<1> QED
  BY <1>1, UCSpecInv, PTL
-----------------------------------------------------------------------------
(* Programs that keep the rules.  The invariant is stated for each         *)
(* connector, by the parts of the state that concern it, and each step     *)
(* concerns one.                                                           *)

Id(k) == connectors[k].timeouttask_id

(* No thread is in a call of k.                                            *)
Idle(k) == \A t \in Threads : doing[t].connector # k

(* A task will be run in the name of k, and it is being run.               *)
Pending(a, k) == a \in Listed /\ heap[a].state = "valid" /\ taskOf[a] = k
Runs(w, k) == pc[w] = "run" /\ heap[first[w]].state = "valid" /\ taskOf[first[w]] = k

(* Who owes an outcome has an open connection of its own, and its timeout  *)
(* is to be run, or is run, unless a thread is in a call of it.            *)
AwaitOK(k) ==
    /\ started /\ k \in Existing
    /\ Conn(k) \in Conns /\ IsOpen(Conn(k)) /\ conns[Conn(k)].refs = 1
    /\ Id(k) # NULL => taskOf[Id(k)] = k
    /\ Idle(k) => Pending(Id(k), k) \/ \E w \in Workers : Runs(w, k)

(* What is so while thread t is in a call of k.                            *)
CallOK(t, k) ==
    LET d == doing[t]
    IN  /\ k \in Existing /\ Conn(k) # NoConn /\ d.at # "out"
        /\ t \in Workers => pc[t] \in {"event", "proc"}
        /\ \A u \in Threads \ {t} : doing[u].connector # k
        /\ d.then = "tell" => t \in Workers /\ k \in awaiting
        /\ d.at = "watch" => /\ k \in awaiting /\ d.then = "return" /\ Id(k) = NULL
                             /\ Pending(d.task, k)
        /\ d.at \in {"rm", "cancel"} =>
             /\ d.then # "tell" => k \notin awaiting /\ (t \in Clients => Id(k) = NULL)
             /\ d.then = "tell" => pc[t] = "proc" /\ Id(k) = first[t]
        /\ d.at \in {"assert", "unwatch"} =>
             d.then = "tell" /\ called[t] = Ufd(k) /\ pc[t] = "event"
        /\ d.at = "assert" => Pending(Id(k), k)
        /\ d.at = "unwatch" => Id(k) \in Listed /\ heap[Id(k)].state = "invalid"

(* A socket that is watched for the completion of k is that of k.          *)
ProcOK(f, k) ==
    procs[f] = [proc |-> "connect", connector |-> k] =>
        /\ k \in Existing /\ Conn(k) # NoConn /\ Ufd(k) = f
        /\ Idle(k) => k \in awaiting
        /\ \A t \in Threads : doing[t].connector = k =>
             t \in Workers /\ doing[t].at \in {"rm", "assert", "unwatch"}

(* A task that will be run is the timeout of a connector that owes an      *)
(* outcome, or that the worker is closing.                                 *)
TaskOK(a, k) ==
    Pending(a, k) =>
        /\ k \in Existing
        /\ Idle(k) => k \in awaiting /\ Id(k) = a
        /\ \A t \in Threads : doing[t].connector = k =>
             IF doing[t].at = "watch" THEN doing[t].task = a
             ELSE Id(k) = a /\ (doing[t].then # "tell" => t \in Workers /\ started)

RunOK(w, k) == Runs(w, k) => k \in awaiting /\ Id(k) = first[w] /\ Idle(k)

(* The id that a connector of which the worker tells has kept is still     *)
(* that of its own task.                                                   *)
TellOK(w, k) ==
    /\ telling[w] = k => pc[w] \in {"event", "proc", "join"}
    /\ (telling[w] = k \/ doing[w].connector = k) /\ k \in Existing /\ started /\ Id(k) # NULL
         => taskOf[Id(k)] = k

Keep(k) ==
    /\ k \in awaiting => AwaitOK(k)
    /\ \A t \in Threads : doing[t].connector = k => CallOK(t, k)
    /\ \A f \in Ufds : ProcOK(f, k)
    /\ \A a \in Addr : TaskOK(a, k)
    /\ \A w \in Workers : RunOK(w, k) /\ TellOK(w, k)

Calls == \A t \in Threads : doing[t].connector \in Connectors \/ doing[t] = Nothing

(* The inductive invariant of programs that keep the rules.                *)
RuleInv == lost = "none" /\ Calls /\ \A k \in Connectors : Keep(k)
-----------------------------------------------------------------------------
(* A step that does not concern k.                                         *)

SameConns(k) ==
    /\ k \in Existing /\ Conn(k) # NoConn => conns'[Conn(k)].fd = conns[Conn(k)].fd
    /\ k \in awaiting => conns'[Conn(k)] = conns[Conn(k)]

SameSelf(k) ==
    /\ SameConns(k)
    /\ connectors'[k] = connectors[k]
    /\ k \in awaiting' <=> k \in awaiting

SameCalls(k) ==
    /\ \A t \in Threads : doing[t].connector = k \/ doing'[t].connector = k => doing'[t] = doing[t]
    /\ \A w \in Workers : doing[w].connector = k =>
         pc'[w] = pc[w] /\ first'[w] = first[w] /\ called'[w] = called[w]

SameProcs(k) ==
    \A f \in Ufds : LET p == [proc |-> "connect", connector |-> k]
                    IN  procs'[f] = p => procs[f] = p

SameTasks(k) ==
    /\ started' = started
    /\ \A a \in Addr :
         /\ taskOf[a] = k => taskOf'[a] = k
         /\ Pending(a, k)' <=> Pending(a, k)
         /\ (taskOf[a] = k /\ a \in Listed /\ heap[a].state = "invalid") =>
              a \in Listed' /\ heap'[a].state = "invalid"

SameRuns(k) ==
    \A w \in Workers :
        /\ Runs(w, k)' <=> Runs(w, k)
        /\ Runs(w, k) => first'[w] = first[w]
        /\ telling'[w] = k => telling[w] = k /\ pc'[w] \in {"event", "proc", "join"}

Untouched(k) == SameSelf(k) /\ SameCalls(k) /\ SameProcs(k) /\ SameTasks(k) /\ SameRuns(k)

LEMMA SameKeeps ==
    ASSUME UCInv, NEW k \in Connectors, Keep(k), Untouched(k)
    PROVE  Keep(k)'
PROOF
<1>1. /\ (k \in Existing)' <=> k \in Existing
      /\ Conn(k)' = Conn(k) /\ Id(k)' = Id(k)
      /\ k \in Existing /\ Conn(k) # NoConn => Ufd(k)' = Ufd(k)
      /\ k \in awaiting' <=> k \in awaiting
      /\ started' = started
  BY DEF Untouched, SameSelf, SameConns, SameTasks, Existing, Conn, Id, Ufd
<1>2. Idle(k)' <=> Idle(k)
  BY DEF Untouched, SameCalls, Idle
<1>3. k \in Existing => Id(k) \in Addr \cup {NULL}
  BY ConnectorTypes DEF UCInv, Id
<1>4. \A a \in Addr : /\ taskOf[a] = k => taskOf'[a] = k
                      /\ Pending(a, k)' <=> Pending(a, k)
  BY DEF Untouched, SameTasks
<1>5. \A w \in Workers : Runs(w, k)' <=> Runs(w, k)
  BY DEF Untouched, SameRuns
<1>6. Listed \subseteq Addr
  BY ListFacts DEF UCInv, Inv, Types
<1>7. k \in awaiting' => AwaitOK(k)'
  <2> SUFFICES ASSUME k \in awaiting PROVE AwaitOK(k)'
    BY <1>1
  <2>1. AwaitOK(k)
    BY DEF Keep
  <2>2. conns'[Conn(k)] = conns[Conn(k)]
    BY DEF Untouched, SameSelf, SameConns
  <2>3. Conn(k)' \in Conns /\ IsOpen(Conn(k))' /\ conns'[Conn(k)'].refs = 1
    BY <1>1, <2>1, <2>2 DEF AwaitOK, IsOpen
  <2>4. Id(k)' # NULL => taskOf'[Id(k)'] = k
    BY <1>1, <1>3, <1>4, <2>1 DEF AwaitOK
  <2>5. Idle(k)' => Pending(Id(k), k)' \/ \E w \in Workers : Runs(w, k)'
    <3>1. Pending(Id(k), k) => Id(k) \in Addr
      BY <1>6 DEF Pending
    <3>2. Pending(Id(k), k) => Pending(Id(k), k)'
      BY <1>1, <1>4, <3>1 DEF Pending
    <3> QED
      BY <1>2, <1>5, <2>1, <3>2 DEF AwaitOK
  <2> QED
    BY <1>1, <2>1, <2>3, <2>4, <2>5 DEF AwaitOK
<1>8. ASSUME NEW t \in Threads, doing'[t].connector = k
      PROVE  CallOK(t, k)'
  <2>1. doing'[t] = doing[t] /\ doing[t].connector = k /\ CallOK(t, k)
    BY <1>8 DEF Untouched, SameCalls, Keep
  <2>2. \A u \in Threads \ {t} : doing'[u].connector # k
    BY <2>1 DEF Untouched, SameCalls, CallOK
  <2>3. t \in Workers => pc'[t] = pc[t] /\ first'[t] = first[t] /\ called'[t] = called[t]
    BY <2>1 DEF Untouched, SameCalls
  <2>4. \A a \in Addr \cup {NULL} : Pending(a, k) => Pending(a, k)'
    BY <1>4, <1>6, NullIsNoAddress DEF Pending
  <2>5. doing[t].at = "unwatch" => Id(k) \in Listed' /\ heap'[Id(k)].state = "invalid"
    <3>1. ASSUME doing[t].at = "unwatch" PROVE taskOf[Id(k)] = k /\ Id(k) \in Addr
      <4>1. k \in awaiting /\ Id(k) \in Listed
        BY <2>1, <3>1 DEF CallOK
      <4> QED
        BY <1>6, <4>1, NullIsNoAddress DEF Keep, AwaitOK
    <3> QED
      BY <2>1, <3>1 DEF CallOK, Untouched, SameTasks
  <2>6. doing[t].task \in Addr \cup {NULL}
    BY DEF UCInv, CNTypes, Doing
  <2>7. doing[t].at = "watch" => Pending(doing[t].task, k)'
    <3>1. doing[t].at = "watch" => Pending(doing[t].task, k)
      BY <2>1 DEF CallOK
    <3> QED
      BY <2>1, <2>4, <2>6, <3>1 DEF Pending
  <2>8. doing[t].at = "assert" => Pending(Id(k), k)'
    <3>1. doing[t].at = "assert" => Pending(Id(k), k) /\ Id(k) \in Addr \cup {NULL}
      BY <1>3, <2>1 DEF CallOK
    <3> QED
      BY <1>1, <2>4, <3>1 DEF Pending
  <2> DEFINE d == doing[t]
  <2>9. /\ k \in Existing /\ Conn(k) # NoConn /\ d.at # "out"
        /\ t \in Workers => pc[t] \in {"event", "proc"}
        /\ d.then = "tell" => t \in Workers /\ k \in awaiting
        /\ d.at = "watch" => k \in awaiting /\ d.then = "return" /\ Id(k) = NULL
        /\ d.at \in {"rm", "cancel"} =>
             /\ d.then # "tell" => k \notin awaiting /\ (t \in Clients => Id(k) = NULL)
             /\ d.then = "tell" => pc[t] = "proc" /\ Id(k) = first[t]
        /\ d.at \in {"assert", "unwatch"} =>
             d.then = "tell" /\ called[t] = Ufd(k) /\ pc[t] = "event"
    BY <2>1 DEF CallOK
  <2>10. doing'[t] = d /\ Id(k)' = Id(k)
    BY <1>1, <2>1
  <2>11. d.at = "watch" => Pending(doing[t].task, k)'
    BY <2>7
  <2>12. d.at = "assert" => Pending(Id(k), k)'
    BY <2>8
  <2> QED
    BY <1>1, <2>2, <2>3, <2>5, <2>9, <2>10, <2>11, <2>12 DEF CallOK
<1>9. ASSUME NEW f \in Ufds PROVE ProcOK(f, k)'
  <2> SUFFICES ASSUME procs'[f] = [proc |-> "connect", connector |-> k]
               PROVE  /\ (k \in Existing)' /\ Conn(k)' # NoConn /\ Ufd(k)' = f
                      /\ Idle(k)' => k \in awaiting'
                      /\ \A t \in Threads : doing'[t].connector = k =>
                           t \in Workers /\ doing'[t].at \in {"rm", "assert", "unwatch"}
    BY DEF ProcOK
  <2>1. procs[f] = [proc |-> "connect", connector |-> k]
    BY DEF Untouched, SameProcs
  <2>2. /\ k \in Existing /\ Conn(k) # NoConn /\ Ufd(k) = f
        /\ Idle(k) => k \in awaiting
        /\ \A t \in Threads : doing[t].connector = k =>
             t \in Workers /\ doing[t].at \in {"rm", "assert", "unwatch"}
    BY <2>1 DEF Keep, ProcOK
  <2> QED
    BY <1>1, <1>2, <2>2 DEF Untouched, SameCalls
<1>10. ASSUME NEW a \in Addr PROVE TaskOK(a, k)'
  <2> SUFFICES ASSUME Pending(a, k)
               PROVE  /\ (k \in Existing)'
                      /\ Idle(k)' => k \in awaiting' /\ Id(k)' = a
                      /\ \A t \in Threads : doing'[t].connector = k =>
                           IF doing'[t].at = "watch" THEN doing'[t].task = a
                           ELSE /\ Id(k)' = a
                                /\ (doing'[t].then # "tell" => t \in Workers /\ started')
    BY <1>4 DEF TaskOK, Pending
  <2>1. /\ k \in Existing
        /\ Idle(k) => k \in awaiting /\ Id(k) = a
        /\ \A t \in Threads : doing[t].connector = k =>
             IF doing[t].at = "watch" THEN doing[t].task = a
             ELSE Id(k) = a /\ (doing[t].then # "tell" => t \in Workers /\ started)
    BY DEF Keep, TaskOK
  <2>2. \A t \in Threads : doing'[t].connector = k => doing[t].connector = k /\ doing'[t] = doing[t]
    BY DEF Untouched, SameCalls
  <2> QED
    BY <1>1, <1>2, <2>1, <2>2
<1>11. ASSUME NEW w \in Workers PROVE RunOK(w, k)'
  <2> SUFFICES ASSUME Runs(w, k)
               PROVE  k \in awaiting' /\ Id(k)' = first'[w] /\ Idle(k)'
    BY <1>5 DEF RunOK
  <2> QED
    BY <1>1, <1>2 DEF Keep, RunOK, Untouched, SameRuns
<1>12. ASSUME NEW w \in Workers PROVE TellOK(w, k)'
  <2>1. telling'[w] = k => telling[w] = k /\ pc'[w] \in {"event", "proc", "join"}
    BY DEF Untouched, SameRuns
  <2>2. doing'[w].connector = k => doing[w].connector = k
    BY ThreadsAre DEF Untouched, SameCalls
  <2>3. k \in Existing /\ taskOf[Id(k)] = k /\ Id(k) # NULL => taskOf'[Id(k)] = k
    BY <1>3, <1>4
  <2> QED
    BY <1>1, <2>1, <2>2, <2>3 DEF Keep, TellOK
<1> QED
  BY <1>7, <1>8, <1>9, <1>10, <1>11, <1>12 DEF Keep

-----------------------------------------------------------------------------
(* The connections of those that a step does not concern.                  *)

(* A connection with one reference has one holder.                         *)
LEMMA OneHolder ==
    ASSUME CNTypes, Links, NEW k \in Existing, Conn(k) # NoConn, conns[Conn(k)].refs <= 1
    PROVE  /\ held[Conn(k)] = 0 /\ BoundIn(conns, Conn(k)) = {}
           /\ \A j \in Existing : Conn(j) = Conn(k) => j = k
PROOF
<1> DEFINE c == Conn(k)
           U == Users(connectors, c)
           h == Holds(connectors, held)
<1>1. c \in Conns /\ c \in There(conns) /\ k \in U
  BY ConnectionOf, ConnectorTypes
<1>2. /\ Counted(conns, h) /\ HoldMap(held) /\ IsFiniteSet(U) /\ Cardinality(U) \in Nat
      /\ h[c] = held[c] + Cardinality(U)
  BY <1>1, UsersFinite DEF Links, Holds
<1>3. /\ IsFiniteSet(BoundIn(conns, c)) /\ Cardinality(BoundIn(conns, c)) \in Nat
      /\ Cardinality(BoundIn(conns, c)) = 0 <=> BoundIn(conns, c) = {}
  <2> HIDE DEF h, c
  <2> QED
    BY <1>1, <1>2, BoundFacts
<1>4. conns[c].refs = h[c] + Cardinality(BoundIn(conns, c))
  <2> HIDE DEF h, c
  <2> QED
    BY <1>1, <1>2 DEF Counted, RefsIn
<1>5. held[c] \in Nat
  BY <1>1, <1>2 DEF HoldMap
<1>6. Cardinality(U) >= 1 /\ (Cardinality(U) = 1 => U = {k})
  <2>1. IsFiniteSet(U \ {k}) /\ Cardinality(U \ {k}) = Cardinality(U) - 1
    BY <1>1, <1>2, FS_RemoveElement
  <2>2. Cardinality(U \ {k}) \in Nat /\ (Cardinality(U \ {k}) = 0 <=> U \ {k} = {})
    BY <2>1, FS_CardinalityType, FS_EmptySet
  <2> HIDE DEF U
  <2> QED
    BY <1>1, <1>2, <2>1, <2>2
<1>7. held[c] = 0 /\ BoundIn(conns, c) = {} /\ U = {k}
  <2> DEFINE n == Cardinality(U)
             b == Cardinality(BoundIn(conns, c))
  <2>1. /\ n \in Nat /\ b \in Nat /\ held[c] \in Nat /\ n >= 1
        /\ conns[c].refs = held[c] + n + b /\ conns[c].refs <= 1
    BY <1>2, <1>3, <1>4, <1>5, <1>6
  <2> HIDE DEF n, b, c
  <2>2. held[c] = 0 /\ n = 1 /\ b = 0
    BY <2>1
  <2> QED
    BY <1>3, <1>6, <2>2 DEF n, b
<1>8. \A j \in Existing : Conn(j) = c => j \in U
  BY DEF Existing, Users, Conn
<1> QED
  BY <1>7, <1>8

LEMMA CreatedConns ==
    ASSUME UCInv, NEW k \in Connectors, k \in awaiting => AwaitOK(k),
           NEW c \in Conns, c \notin Allocated, NEW fd,
           conns' = Created(c, "ux_stream", fd, UdpConn)
    PROVE  SameConns(k)
PROOF
<1>1. ASSUME k \in Existing, Conn(k) # NoConn
      PROVE  conns'[Conn(k)] = conns[Conn(k)]
  <2>1. Conn(k) \in Conns /\ Conn(k) # UdpConn /\ Conn(k) # c
    BY <1>1, ConnectionOf DEF UCInv, There, Allocated
  <2> QED
    BY <2>1 DEF Created
<1>2. k \in awaiting => k \in Existing /\ Conn(k) # NoConn
  BY ClosedIsNoDescriptor DEF AwaitOK
<1> QED
  BY <1>1, <1>2 DEF SameConns

LEMMA SharedConns ==
    ASSUME UCInv, NEW k \in Connectors, k \in awaiting => AwaitOK(k),
           NEW t \in Threads, NEW j \in Connectors, NEW c \in Conns, ConnectorOpen2(t, j, c)
    PROVE  SameConns(k)
PROOF
<1>1. held[c] > 0 /\ conns' = [conns EXCEPT ![c].refs = @ + 1]
  BY DEF ConnectorOpen2
<1>2. conns \in [Conns -> ConnectionRecord \cup {Unallocated}]
  BY DEF UCInv, Links, Counted, ConnMap
<1>3. ASSUME k \in Existing, Conn(k) # NoConn
      PROVE  conns'[Conn(k)].fd = conns[Conn(k)].fd
  <2>1. Conn(k) \in Conns /\ conns[Conn(k)] \in ConnectionRecord
    BY <1>2, <1>3, ConnectionOf DEF UCInv, There
  <2> QED
    BY <1>1, <1>2, <2>1 DEF ConnectionRecord
<1>4. ASSUME k \in awaiting
      PROVE  conns'[Conn(k)] = conns[Conn(k)]
  <2>1. k \in Existing /\ Conn(k) \in Conns /\ Conn(k) # NoConn /\ conns[Conn(k)].refs = 1
    BY <1>4, ClosedIsNoDescriptor DEF AwaitOK
  <2>2. held[Conn(k)] = 0
    BY <2>1, OneHolder DEF UCInv
  <2> QED
    BY <1>1, <1>2, <2>1, <2>2
<1> QED
  BY <1>3, <1>4 DEF SameConns

LEMMA LetGoConns ==
    ASSUME UCInv, NEW k \in Connectors, k \in awaiting => AwaitOK(k),
           NEW c \in Conns, LetGo(c), c \in There(conns),
           held[c] > 0 \/ \E j \in Existing : j # k /\ Conn(j) = c
    PROVE  SameConns(k)
PROOF
<1>1. conns' = WithoutRef(c)
  BY DEF LetGo
<1>2. conns \in [Conns -> ConnectionRecord \cup {Unallocated}]
  BY DEF UCInv, Links, Counted, ConnMap
<1>3. ASSUME k \in Existing, Conn(k) # NoConn
      PROVE  /\ conns'[Conn(k)].fd = conns[Conn(k)].fd
             /\ conns[Conn(k)].refs = 1 => conns'[Conn(k)] = conns[Conn(k)]
  <2>1. Conn(k) \in Conns /\ conns[Conn(k)] \in ConnectionRecord
    BY <1>2, <1>3, ConnectionOf DEF UCInv, There
  <2>2. conns[Conn(k)].refs <= 1 => Conn(k) # c /\ Conn(k) # conns[c].udp
    <3>1. ASSUME conns[Conn(k)].refs <= 1
          PROVE  Conn(k) # c /\ Conn(k) # conns[c].udp
      <4>1. /\ held[Conn(k)] = 0 /\ BoundIn(conns, Conn(k)) = {}
            /\ \A j \in Existing : Conn(j) = Conn(k) => j = k
        BY <1>3, <3>1, OneHolder DEF UCInv
      <4> QED
        BY <4>1 DEF BoundIn
    <3> QED
      BY <3>1
  <2>3. Conn(k) \notin Ending(c)
    <3>1. ASSUME Conn(k) \in Ending(c)
          PROVE  conns[Conn(k)].refs <= 1 /\ (Conn(k) = c \/ Conn(k) = conns[c].udp)
      <4>1. ~(conns[c].refs > 1)
        BY <3>1 DEF Ending
      <4>2. conns[c].refs \in Nat
        BY <1>2 DEF There, ConnectionRecord
      <4>3. Conn(k) = c \/ (Conn(k) = conns[c].udp /\ conns[Conn(k)].refs = 1)
        BY <3>1 DEF Ending
      <4> QED
        BY <4>1, <4>2, <4>3
    <3> QED
      BY <2>2, <3>1
  <2>4. conns'[Conn(k)] = conns[Conn(k)]
          \/ conns'[Conn(k)] = [conns[Conn(k)] EXCEPT !.refs = @ - 1]
    BY <1>1, <2>1, <2>3 DEF WithoutRef
  <2>5. conns[Conn(k)].refs = 1 => conns'[Conn(k)] = conns[Conn(k)]
    BY <1>1, <2>1, <2>2, <2>3 DEF WithoutRef
  <2> QED
    BY <2>1, <2>4, <2>5 DEF ConnectionRecord
<1>4. k \in awaiting => k \in Existing /\ Conn(k) # NoConn /\ conns[Conn(k)].refs = 1
  BY ClosedIsNoDescriptor DEF AwaitOK
<1> QED
  BY <1>3, <1>4 DEF SameConns

-----------------------------------------------------------------------------
(* Who makes a call, and what a call leaves alone.                         *)

LEMMA OnlyActive ==
    ASSUME UCInv, NEW v \in Workers, NEW w \in Workers, Active(v), Active(w)
    PROVE  v = w /\ tid = w
PROOF
<1> QED
  BY DEF UCInv, Turns, Named

LEMMA OutIsNothing ==
    ASSUME RuleInv, NEW t \in Threads, doing[t].at = "out"
    PROVE  doing[t] = Nothing
PROOF
<1> QED
  BY DEF RuleInv, Calls, Keep, CallOK

LEMMA NothingIs == Nothing.connector = NoConnector /\ NoConnector \notin Connectors
                     /\ Nothing.at = "out" /\ Nothing.then = "return"
PROOF
<1> QED
  BY NoConnectorIsNone DEF Nothing

(* A worker that calls is the one that is active.                          *)
LEMMA CallerIs ==
    ASSUME UCInv, NEW w \in Workers, CanCall(w)
    PROVE  /\ pc[w] \in {"event", "proc"} /\ tid = w
           /\ pc[w] = "event" <=> uxe[w] # NoUxe
           /\ \A v \in Workers \ {w} : ~Active(v)
PROOF
<1>1. pc[w] \in {"event", "proc"} /\ (pc[w] = "event" <=> uxe[w] # NoUxe)
  BY ThreadsAre DEF CanCall, Resting
<1> QED
  BY <1>1 DEF UCInv, Turns, Named, Active

LEMMA UsedIs ==
    ASSUME UCInv, RuleInv, program.rules = Rules, NEW t \in Threads, NEW k \in Connectors,
           MayUse(t, k)
    PROVE  /\ doing[t] = Nothing /\ Idle(k) /\ CanCall(t)
           /\ t \in Workers => /\ pc[t] \in {"event", "proc"} /\ tid = t
                               /\ \A v \in Workers \ {t} : ~Active(v)
           /\ t \in Clients => t \notin Workers
PROOF
<1>1. doing[t] = Nothing /\ CanCall(t)
  BY OutIsNothing DEF MayUse
<1>2. Idle(k)
  BY DEF MayUse, Rules, Idle
<1> QED
  BY <1>1, <1>2, CallerIs, ThreadsAre

(* What k sees of the workers stays as it is.                              *)
WorkersStay(k) ==
    /\ started' = started
    /\ \A w \in Workers :
         \/ pc'[w] = pc[w] /\ first'[w] = first[w] /\ called'[w] = called[w]
         \/ /\ doing[w].connector # k /\ ~Runs(w, k) /\ ~Runs(w, k)'
            /\ telling'[w] = k => pc'[w] \in {"event", "proc", "join"}

(* The tasks of k, and the task that a worker has, are as they were.       *)
OwnTasksStay(k) ==
    \A a \in Addr :
        /\ taskOf[a] = k => taskOf'[a] = k
        /\ taskOf[a] = k \/ taskOf'[a] = k => /\ taskOf'[a] = taskOf[a] /\ heap'[a] = heap[a]
                                              /\ a \in Listed' <=> a \in Listed

(* A call of k0 does not concern the others.                               *)
LEMMA OthersUntouched ==
    ASSUME UCInv, RuleInv, NEW t \in Threads, NEW k0, NEW k \in Connectors, k # k0,
           WorkersStay(k),
           doing[t].connector \in {k0, NoConnector}, doing'[t].connector \in {k0, NoConnector},
           \A u \in Threads \ {t} : doing'[u] = doing[u],
           connectors'[k] = connectors[k], k \in awaiting' <=> k \in awaiting,
           SameConns(k), SameProcs(k), OwnTasksStay(k),
           \A w \in Workers : telling'[w] \in {telling[w], k0}
    PROVE  Keep(k)'
PROOF
<1>1. SameCalls(k)
  BY NothingIs DEF SameCalls, WorkersStay
<1>2. \A a : Pending(a, k) => a \in Addr
  BY ListFacts DEF UCInv, Inv, Types, Pending
<1>3. SameTasks(k)
  BY DEF SameTasks, OwnTasksStay, WorkersStay, Pending
<1>4. SameRuns(k)
  <2> SUFFICES ASSUME NEW w \in Workers
               PROVE  /\ Runs(w, k)' <=> Runs(w, k)
                      /\ Runs(w, k) => first'[w] = first[w]
                      /\ telling'[w] = k =>
                           telling[w] = k /\ pc'[w] \in {"event", "proc", "join"}
    BY DEF SameRuns
  <2>1. telling'[w] = k => telling[w] = k
    OBVIOUS
  <2>2. CASE pc'[w] = pc[w] /\ first'[w] = first[w]
    <3>1. pc[w] = "run" => first[w] \in Addr
      BY RunIsKnown
    <3>2. Runs(w, k)' <=> Runs(w, k)
      BY <2>2, <3>1 DEF Runs, OwnTasksStay
    <3> QED
      BY <2>1, <2>2, <3>2 DEF RuleInv, Keep, TellOK
  <2>3. CASE ~(pc'[w] = pc[w] /\ first'[w] = first[w])
    BY <2>1, <2>3 DEF WorkersStay
  <2> QED
    BY <2>2, <2>3
<1> QED
  BY <1>1, <1>3, <1>4, SameKeeps DEF Untouched, SameSelf, RuleInv

(* A step that touches neither tasks nor started nor where workers are.    *)
LEMMA NothingMoves ==
    ASSUME UNCHANGED <<heap, tasks, taskOf, started, pc, first, called>>
    PROVE  \A k : WorkersStay(k) /\ OwnTasksStay(k)
PROOF
<1> QED
  BY DEF WorkersStay, OwnTasksStay, Listed

LEMMA VarsAre ==
    ASSUME UNCHANGED vars
    PROVE  UNCHANGED <<heap, tasks, uxheap, uxevents, started, pc, first, called, tid, uxe>>
PROOF
<1> QED
  BY DEF vars, sharedVars, restVars, threadVars, taskVars, uxVars, schedVars, selectVars

LEMMA CreateRules ==
    ASSUME UCInv, RuleInv, program.rules = Rules, NEW t \in Threads, NEW k \in Connectors,
           ConnectorCreate(t, k)
    PROVE  RuleInv'
PROOF
<1>1. /\ MayUse(t, k) /\ k \notin Existing
      /\ connectors' = [connectors EXCEPT ![k] = [uxconn |-> NoConn, timeouttask_id |-> NULL]]
      /\ UNCHANGED <<vars, connVars, procs, taskOf, doing, telling, awaiting, lost>>
  BY DEF ConnectorCreate
<1>2. Idle(k) /\ doing[t] = Nothing
  BY <1>1, UsedIs
<1>3. /\ connectors'[k] = [uxconn |-> NoConn, timeouttask_id |-> NULL]
      /\ \A j \in Connectors \ {k} : connectors'[j] = connectors[j]
  BY <1>1 DEF UCInv, CNTypes
<1>4. /\ UNCHANGED <<heap, tasks, uxheap, uxevents, started, pc, first, called>>
      /\ conns' = conns
  BY <1>1, VarsAre DEF connVars
<1>5. \A j : WorkersStay(j) /\ OwnTasksStay(j)
  BY <1>1, <1>4, NothingMoves
<1>6. ASSUME NEW j \in Connectors, j # k PROVE Keep(j)'
  <2>1. SameConns(j) /\ SameProcs(j)
    BY <1>1, <1>4 DEF SameConns, SameProcs
  <2> QED
    BY <1>1, <1>2, <1>3, <1>5, <1>6, <2>1, NothingIs, OthersUntouched
<1>7. Keep(k)'
  <2>1. k \notin awaiting /\ Keep(k)
    BY <1>1 DEF RuleInv, Keep, AwaitOK
  <2>2. /\ \A f \in Ufds : procs[f] # [proc |-> "connect", connector |-> k]
        /\ \A a \in Addr : ~Pending(a, k)
        /\ \A w \in Workers : ~Runs(w, k)
    BY <1>1, <2>1 DEF Keep, ProcOK, TaskOK, RunOK
  <2>3. \A a \in Addr : ~Pending(a, k)'
    BY <1>1, <1>4, <2>2 DEF Pending, Listed
  <2>4. \A w \in Workers : ~Runs(w, k)'
    BY <1>1, <1>4, <2>2 DEF Runs
  <2>5. Id(k)' = NULL
    BY <1>3 DEF Id
  <2>6. \A w \in Workers : TellOK(w, k)'
    BY <1>1, <1>4, <2>1, <2>5 DEF Keep, TellOK
  <2> QED
    BY <1>1, <1>2, <2>1, <2>2, <2>3, <2>4, <2>6 DEF Keep, ProcOK, TaskOK, RunOK, Idle
<1>8. Calls' /\ lost' = "none"
  BY <1>1 DEF RuleInv, Calls
<1> QED
  BY <1>6, <1>7, <1>8 DEF RuleInv

(* A connector that owes nothing and that nobody calls has no handler and  *)
(* no task.                                                                *)
LEMMA IdleHas ==
    ASSUME NEW k, Keep(k), Idle(k), k \notin awaiting
    PROVE  /\ \A f \in Ufds : procs[f] # [proc |-> "connect", connector |-> k]
           /\ \A a \in Addr : ~Pending(a, k)
           /\ \A w \in Workers : ~Runs(w, k)
PROOF
<1> QED
  BY DEF Keep, ProcOK, TaskOK, RunOK

LEMMA IdleKeeps ==
    ASSUME NEW k, Idle(k)', k \notin awaiting',
           \A f \in Ufds : procs'[f] # [proc |-> "connect", connector |-> k],
           \A a \in Addr : ~Pending(a, k)', \A w \in Workers : ~Runs(w, k)',
           \A w \in Workers : TellOK(w, k)'
    PROVE  Keep(k)'
PROOF
<1> QED
  BY DEF Keep, ProcOK, TaskOK, RunOK, Idle

(* A call that touches no task and moves no worker.                        *)
LEMMA SameTimers ==
    ASSUME UNCHANGED <<heap, tasks, taskOf, pc, first>>
    PROVE  \A k : /\ \A a : Pending(a, k)' <=> Pending(a, k)
                  /\ \A w : Runs(w, k)' <=> Runs(w, k)
PROOF
<1> QED
  BY DEF Pending, Runs, Listed

LEMMA SetHandlerRules ==
    ASSUME UCInv, RuleInv, NEW t \in Threads, NEW k \in Connectors, SetEventHandler(t, k)
    PROVE  RuleInv'
PROOF
<1>1. /\ UNCHANGED <<heap, tasks, taskOf, started, pc, first, called>>
      /\ UNCHANGED <<connVars, connectors, doing, telling, awaiting, lost>>
      /\ procs' = [procs EXCEPT ![Ufd(k)] = [proc |-> "user", connector |-> k]]
      /\ doing[t].at = "out"
  BY DEF SetEventHandler, Add, MayUse, taskVars, schedVars, restVars, selectVars
<1>2. doing[t] = Nothing
  BY <1>1, OutIsNothing
<1>3. \A j : WorkersStay(j) /\ OwnTasksStay(j)
  BY <1>1, NothingMoves
<1>4. ASSUME NEW j \in Connectors PROVE Keep(j)'
  <2>1. SameProcs(j)
    BY <1>1 DEF SameProcs, UCInv, CNTypes
  <2>2. SameConns(j) /\ j # NoConnector
    BY <1>1, NothingIs DEF SameConns, connVars
  <2> QED
    BY <1>1, <1>2, <1>3, <2>1, <2>2, NothingIs, OthersUntouched
<1>5. Calls' /\ lost' = "none"
  BY <1>1 DEF RuleInv, Calls
<1> QED
  BY <1>4, <1>5 DEF RuleInv

LEMMA ReleaseRules ==
    ASSUME UCInv, RuleInv, NEW t \in Threads, NEW c \in Conns, Release(t, c)
    PROVE  RuleInv'
PROOF
<1>1. /\ UNCHANGED <<heap, tasks, taskOf, started, pc, first, called>>
      /\ UNCHANGED <<connectors, procs, doing, telling, awaiting, lost>>
      /\ held[c] > 0 /\ LetGo(c) /\ c \in There(conns)
      /\ doing[t].at = "out"
  BY VarsAre DEF Release, cnVars, ConnAutorelease, Allocated, There
<1>2. doing[t] = Nothing
  BY <1>1, OutIsNothing
<1>3. \A j : WorkersStay(j) /\ OwnTasksStay(j)
  BY <1>1, NothingMoves
<1>4. ASSUME NEW j \in Connectors PROVE Keep(j)'
  <2>1. SameProcs(j) /\ j # NoConnector
    BY <1>1, NothingIs DEF SameProcs
  <2>2. SameConns(j)
    BY <1>1, LetGoConns DEF RuleInv, Keep
  <2> QED
    BY <1>1, <1>2, <1>3, <2>1, <2>2, NothingIs, OthersUntouched
<1>5. Calls' /\ lost' = "none"
  BY <1>1 DEF RuleInv, Calls
<1> QED
  BY <1>4, <1>5 DEF RuleInv

LEMMA Open2Rules ==
    ASSUME UCInv, RuleInv, program.rules = Rules, NEW t \in Threads, NEW k \in Connectors,
           NEW c \in Conns, ConnectorOpen2(t, k, c)
    PROVE  RuleInv'
PROOF
<1>1. /\ MayUse(t, k) /\ k \in Existing /\ Conn(k) = NoConn
      /\ UNCHANGED <<heap, tasks, taskOf, started, pc, first, called>>
      /\ UNCHANGED <<procs, doing, telling, awaiting, lost>>
      /\ connectors' = [connectors EXCEPT ![k].uxconn = c]
  BY VarsAre DEF ConnectorOpen2
<1>2. doing[t] = Nothing /\ Idle(k)
  BY <1>1, UsedIs
<1>3. \A j : WorkersStay(j) /\ OwnTasksStay(j)
  BY <1>1, NothingMoves
<1>4. /\ \A j \in Connectors \ {k} : connectors'[j] = connectors[j]
      /\ (k \in Existing)' /\ Id(k)' = Id(k)
  BY <1>1, NoConnectorIsNone, ConnectorTypes DEF UCInv, CNTypes, Id, Existing, ConnectorRecord
<1>5. ASSUME NEW j \in Connectors, j # k PROVE Keep(j)'
  <2>1. SameProcs(j)
    BY <1>1 DEF SameProcs
  <2>2. SameConns(j)
    BY SharedConns DEF RuleInv, Keep
  <2> QED
    BY <1>1, <1>2, <1>3, <1>4, <1>5, <2>1, <2>2, NothingIs, OthersUntouched
<1>6. Keep(k)'
  <2>1. k \notin awaiting /\ Keep(k)
    BY <1>1, ClosedIsNoDescriptor DEF RuleInv, Keep, AwaitOK
  <2>2. /\ \A f \in Ufds : procs[f] # [proc |-> "connect", connector |-> k]
        /\ \A a \in Addr : ~Pending(a, k)
        /\ \A w \in Workers : ~Runs(w, k)
    BY <1>2, <2>1, IdleHas
  <2>3. \A w \in Workers : TellOK(w, k)'
    BY <1>1, <1>4, <2>1 DEF Keep, TellOK
  <2>4. Idle(k)' /\ k \notin awaiting'
    BY <1>1, <1>2, <2>1 DEF Idle
  <2>5. (\A a \in Addr : ~Pending(a, k)') /\ \A w \in Workers : ~Runs(w, k)'
    BY <1>1, <2>2, SameTimers
  <2> QED
    BY <1>1, <2>2, <2>3, <2>4, <2>5, IdleKeeps
<1>7. Calls' /\ lost' = "none"
  BY <1>1 DEF RuleInv, Calls
<1> QED
  BY <1>5, <1>6, <1>7 DEF RuleInv

LEMMA CloseRules ==
    ASSUME UCInv, RuleInv, program.rules = Rules, NEW t \in Threads, NEW k \in Connectors,
           NEW then \in {"return", "takeout", "destroy"}, ConnectorClose(t, k, then)
    PROVE  RuleInv'
PROOF
<1>1. /\ MayUse(t, k) /\ k \in Existing
      /\ UNCHANGED <<heap, tasks, taskOf, started, pc, first, called, procs, telling, lost>>
      /\ awaiting' = awaiting \ {k}
  BY VarsAre DEF ConnectorClose, MayClose
<1>2. /\ doing[t] = Nothing /\ Idle(k)
      /\ t \in Workers => pc[t] \in {"event", "proc"} /\ \A v \in Workers \ {t} : ~Active(v)
  BY <1>1, UsedIs
<1>3. \A j : WorkersStay(j) /\ OwnTasksStay(j)
  BY <1>1, NothingMoves
<1>4. /\ doing'[t] = Nothing \/ doing'[t] = At("rm", k, then, NULL)
      /\ \A u \in Threads \ {t} : doing'[u] = doing[u]
      /\ doing'[t].connector \in {k, NoConnector}
  <2>1. Do(t, Nothing) \/ Do(t, At("rm", k, then, NULL))
    BY DEF ConnectorClose, Finish
  <2> QED
    BY <2>1, NothingIs DEF Do, UCInv, CNTypes, At
<1>5. \A j \in Connectors \ {k} : connectors'[j] = connectors[j]
  BY DEF ConnectorClose, Finish, UCInv, CNTypes
<1>6. conns' = conns
  BY DEF ConnectorClose, Finish, connVars
<1>7. ASSUME NEW j \in Connectors, j # k PROVE Keep(j)'
  <2>1. SameProcs(j) /\ SameConns(j)
    BY <1>1, <1>6 DEF SameProcs, SameConns
  <2>2. \A w \in Workers : telling'[w] \in {telling[w], k}
    BY <1>1
  <2>3. doing[t].connector \in {k, NoConnector} /\ connectors'[j] = connectors[j]
        /\ (j \in awaiting' <=> j \in awaiting)
    BY <1>1, <1>2, <1>5, <1>7, NothingIs
  <2> QED
    BY <1>3, <1>4, <1>7, <2>1, <2>2, <2>3, OthersUntouched
<1>8. (\A a : Pending(a, k)' <=> Pending(a, k)) /\ \A w : Runs(w, k)' <=> Runs(w, k)
  BY <1>1, SameTimers
<1>9. ASSUME Conn(k) = NoConn PROVE Keep(k)'
  <2>1. k \notin awaiting /\ Keep(k)
    BY <1>9, ClosedIsNoDescriptor DEF RuleInv, Keep, AwaitOK
  <2>2. Finish(t, k, then)
    BY <1>9 DEF ConnectorClose
  <2>3. doing' = doing
    BY <1>2, <2>2 DEF Finish, Do, UCInv, CNTypes
  <2>4. (k \in Existing)' => Id(k)' = Id(k)
    <3>1. \/ connectors' = [connectors EXCEPT ![k].uxconn = NoConn]
          \/ connectors' = [connectors EXCEPT ![k] = NoConnector]
          \/ connectors' = connectors
      BY <2>2 DEF Finish
    <3> QED
      BY <1>1, <3>1, ConnectorTypes DEF UCInv, CNTypes, Existing, Id, ConnectorRecord
  <2>5. \A w \in Workers : TellOK(w, k)'
    BY <1>1, <2>1, <2>3, <2>4 DEF Keep, TellOK
  <2>6. /\ \A f \in Ufds : procs[f] # [proc |-> "connect", connector |-> k]
        /\ \A a \in Addr : ~Pending(a, k)
        /\ \A w \in Workers : ~Runs(w, k)
    BY <1>2, <2>1, IdleHas
  <2>7. Idle(k)' /\ k \notin awaiting'
    BY <1>1, <1>2, <2>3 DEF Idle
  <2>8. (\A a \in Addr : ~Pending(a, k)') /\ \A w \in Workers : ~Runs(w, k)'
    BY <1>8, <2>6
  <2>9. \A f \in Ufds : procs'[f] # [proc |-> "connect", connector |-> k]
    BY <1>1, <2>6
  <2> QED
    BY <2>5, <2>7, <2>8, <2>9, IdleKeeps
<1>10. ASSUME Conn(k) # NoConn PROVE Keep(k)'
  <2>1. doing'[t] = At("rm", k, then, NULL) /\ UNCHANGED <<conns, connectors>>
    BY <1>10 DEF ConnectorClose, Do, UCInv, CNTypes, connVars
  <2>2. /\ k \in awaiting => t \in Workers
        /\ k \in awaiting \/ (t \in Workers /\ telling[t] = k) \/ Id(k) = NULL
    BY <1>10 DEF ConnectorClose, MayClose, Rules, Id
  <2>3. /\ Keep(k) /\ (k \in Existing)' /\ Conn(k)' = Conn(k) /\ Id(k)' = Id(k)
        /\ Ufd(k)' = Ufd(k) /\ k \notin awaiting' /\ started' = started
    BY <1>1, <2>1 DEF RuleInv, Existing, Conn, Id, Ufd
  <2>4. \A u \in Threads : doing'[u].connector = k <=> u = t
    BY <1>2, <1>4, <2>1 DEF Idle, At
  <2>5. ~Idle(k)'
    BY <2>4 DEF Idle
  <2>6. CallOK(t, k)'
    <3>1. t \in Clients => Id(k) = NULL
      BY <2>2, ThreadsAre
    <3> QED
      BY <1>1, <1>2, <1>10, <2>1, <2>3, <2>4, <3>1 DEF CallOK, At
  <2>7. \A f \in Ufds : ProcOK(f, k)'
    BY <1>1, <1>2, <2>1, <2>2, <2>3, <2>4, <2>5 DEF Keep, ProcOK, At
  <2>8. \A a \in Addr : TaskOK(a, k)'
    <3> SUFFICES ASSUME NEW a \in Addr, Pending(a, k) PROVE TaskOK(a, k)'
      BY <1>8 DEF TaskOK
    <3>1. k \in awaiting /\ Id(k) = a /\ started /\ t \in Workers
      BY <1>2, <2>2, <2>3 DEF Keep, TaskOK, AwaitOK
    <3> QED
      BY <2>1, <2>3, <2>4, <2>5, <3>1 DEF TaskOK, At
  <2>9. \A w \in Workers : RunOK(w, k)'
    <3> SUFFICES ASSUME NEW w \in Workers, Runs(w, k) PROVE FALSE
      BY <1>8 DEF RunOK
    <3>1. k \in awaiting /\ pc[w] = "run"
      BY <2>3 DEF Keep, RunOK, Runs
    <3> QED
      BY <1>2, <2>2, <3>1 DEF Active
  <2>10. \A w \in Workers : TellOK(w, k)'
    <3> SUFFICES ASSUME NEW w \in Workers PROVE TellOK(w, k)'
      OBVIOUS
    <3>1. TellOK(w, k) /\ (telling[w] = k => pc[w] \in {"event", "proc", "join"})
      BY <2>3 DEF Keep, TellOK
    <3>2. ASSUME telling[w] = k \/ doing'[w].connector = k, started, Id(k) # NULL
          PROVE  taskOf[Id(k)] = k
      <4>1. telling[w] = k \/ k \in awaiting
        BY <2>2, <2>4, <3>2, ThreadsAre
      <4> QED
        BY <1>1, <2>3, <3>1, <3>2, <4>1 DEF Keep, AwaitOK, TellOK
    <3> QED
      BY <1>1, <2>3, <3>1, <3>2 DEF TellOK
  <2>11. \A u \in Threads : doing'[u].connector = k => CallOK(u, k)'
    BY <2>4, <2>6
  <2>12. \A w \in Workers : RunOK(w, k)' /\ TellOK(w, k)'
    BY <2>9, <2>10
  <2> QED
    BY <2>3, <2>7, <2>8, <2>11, <2>12 DEF Keep
<1>11. Calls'
  BY <1>4, NothingIs DEF RuleInv, Calls, At
<1>12. lost' = "none"
  BY <1>1 DEF RuleInv
<1> QED
  BY <1>7, <1>9, <1>10, <1>11, <1>12 DEF RuleInv

(* An open begins with a connector that has no connection.                 *)
LEMMA OpenableIs ==
    ASSUME UCInv, RuleInv, program.rules = Rules, NEW t \in Threads, NEW k \in Connectors,
           NEW c \in Conns, Openable(t, k, c)
    PROVE  /\ doing[t] = Nothing /\ Idle(k) /\ k \in Existing /\ k \notin awaiting /\ Keep(k)
           /\ c \notin Allocated /\ c # NoConn /\ Id(k) = NULL /\ started
           /\ t \in Workers => pc[t] \in {"event", "proc"}
           /\ \A f \in Ufds : procs[f] # [proc |-> "connect", connector |-> k]
           /\ \A a \in Addr : ~Pending(a, k)
           /\ \A w \in Workers : ~Runs(w, k)
PROOF
<1>1. /\ MayUse(t, k) /\ k \in Existing /\ Conn(k) = NoConn /\ c \notin Allocated
      /\ Id(k) = NULL /\ started
  BY DEF Openable, Rules, Id
<1>2. doing[t] = Nothing /\ Idle(k) /\ (t \in Workers => pc[t] \in {"event", "proc"})
  BY <1>1, UsedIs
<1>3. k \notin awaiting /\ Keep(k) /\ c # NoConn
  BY <1>1, ClosedIsNoDescriptor DEF RuleInv, Keep, AwaitOK
<1> QED
  BY <1>1, <1>2, <1>3, IdleHas

LEMMA OpenFailsRules ==
    ASSUME UCInv, RuleInv, program.rules = Rules, NEW t \in Threads, NEW k \in Connectors,
           NEW c \in Conns, ConnectorOpenFails(t, k, c)
    PROVE  RuleInv'
PROOF
<1>1. /\ UNCHANGED <<heap, tasks, taskOf, started, pc, first, called>>
      /\ UNCHANGED <<procs, telling, awaiting, lost>>
      /\ Openable(t, k, c) /\ conns' = Created(c, "ux_stream", Closed, UdpConn)
      /\ connectors' = [connectors EXCEPT ![k].uxconn = c]
      /\ Do(t, At("rm", k, "return", NULL))
  BY VarsAre DEF ConnectorOpenFails
<1>2. /\ doing[t] = Nothing /\ Idle(k) /\ k \in Existing /\ k \notin awaiting /\ Keep(k)
      /\ c \notin Allocated /\ c # NoConn /\ Id(k) = NULL
      /\ t \in Workers => pc[t] \in {"event", "proc"}
      /\ \A f \in Ufds : procs[f] # [proc |-> "connect", connector |-> k]
      /\ \A a \in Addr : ~Pending(a, k)
      /\ \A w \in Workers : ~Runs(w, k)
  BY <1>1, OpenableIs
<1>3. /\ doing'[t] = At("rm", k, "return", NULL) /\ doing'[t].connector = k
      /\ \A u \in Threads \ {t} : doing'[u] = doing[u]
  BY <1>1 DEF Do, UCInv, CNTypes, At
<1>4. /\ \A j \in Connectors \ {k} : connectors'[j] = connectors[j]
      /\ (k \in Existing)' /\ Id(k)' = NULL /\ Conn(k)' = c
  BY <1>1, <1>2, NoConnectorIsNone, ConnectorTypes
     DEF UCInv, CNTypes, Id, Existing, ConnectorRecord, Conn
<1>5. \A j : WorkersStay(j) /\ OwnTasksStay(j)
  BY <1>1, NothingMoves
<1>6. ASSUME NEW j \in Connectors, j # k PROVE Keep(j)'
  <2>1. SameProcs(j)
    BY <1>1 DEF SameProcs
  <2>2. SameConns(j)
    BY <1>1, <1>2, CreatedConns DEF RuleInv, Keep
  <2>3. doing[t].connector \in {k, NoConnector} /\ doing'[t].connector \in {k, NoConnector}
    BY <1>2, <1>3, NothingIs
  <2> QED
    BY <1>1, <1>3, <1>4, <1>5, <1>6, <2>1, <2>2, <2>3, OthersUntouched
<1>7. Keep(k)'
  <2>1. (\A a : Pending(a, k)' <=> Pending(a, k)) /\ \A w : Runs(w, k)' <=> Runs(w, k)
    BY <1>1, SameTimers
  <2>2. \A u \in Threads : doing'[u].connector = k <=> u = t
    BY <1>2, <1>3 DEF Idle
  <2>3. CallOK(t, k)'
    BY <1>1, <1>2, <1>3, <1>4, <2>2 DEF CallOK, At
  <2>4. \A u \in Threads : doing'[u].connector = k => CallOK(u, k)'
    BY <2>2, <2>3
  <2>5. \A f \in Ufds : ProcOK(f, k)'
    BY <1>1, <1>2 DEF ProcOK
  <2>6. \A a \in Addr : TaskOK(a, k)'
    BY <1>2, <2>1 DEF TaskOK
  <2>7. \A w \in Workers : RunOK(w, k)' /\ TellOK(w, k)'
    BY <1>1, <1>2, <1>4, <2>1 DEF Keep, RunOK, TellOK
  <2> QED
    BY <1>1, <1>2, <2>4, <2>5, <2>6, <2>7 DEF Keep
<1>8. Calls' /\ lost' = "none"
  BY <1>1, <1>3 DEF RuleInv, Calls
<1> QED
  BY <1>6, <1>7, <1>8 DEF RuleInv

LEMMA OpenRules ==
    ASSUME UCInv, RuleInv, program.rules = Rules, NEW t \in Threads, NEW k \in Connectors,
           NEW c \in Conns, NEW task \in Addr \cup {NULL}, NEW delay \in Delays,
           ConnectorOpen(t, k, c, task, delay)
    PROVE  RuleInv'
PROOF
<1>1. /\ UNCHANGED <<procs, telling, lost>> /\ awaiting' = awaiting \cup {k}
      /\ Openable(t, k, c)
      /\ connectors' = [connectors EXCEPT ![k].uxconn = c]
      /\ Do(t, At("watch", k, "return", task))
  BY DEF ConnectorOpen
<1>2. /\ doing[t] = Nothing /\ Idle(k) /\ k \in Existing /\ k \notin awaiting /\ Keep(k)
      /\ c \notin Allocated /\ c # NoConn /\ Id(k) = NULL /\ started
      /\ t \in Workers => pc[t] \in {"event", "proc"}
      /\ \A f \in Ufds : procs[f] # [proc |-> "connect", connector |-> k]
      /\ \A a \in Addr : ~Pending(a, k)
      /\ \A w \in Workers : ~Runs(w, k)
  BY <1>1, OpenableIs
<1>3. PICK o \in UxOpen(UdpConn) :
        o.fd # Closed /\ conns' = Created(c, "ux_stream", o.fd, UdpConn)
  BY DEF ConnectorOpen
<1>4. task \in Addr /\ Post(t, task, delay) /\ taskOf' = [taskOf EXCEPT ![task] = k]
  BY <1>2 DEF ConnectorOpen
<1>5. UNCHANGED <<started, pc, first, called>>
  BY <1>4 DEF Post, schedVars, selectVars
<1>6. /\ heap[task] = Free /\ task \notin Listed /\ Listed' = Listed \cup {task}
      /\ heap'[task].state = "valid" /\ \A a \in Addr \ {task} : heap'[a] = heap[a]
  <2>1. /\ TaskTypeOK /\ Distinct /\ ListedAreTasks /\ InDueOrder /\ posted \in Nat
        /\ StampedBelow(posted) /\ now + delay \in Int /\ ListInsert(task, now + delay, posted)
    BY <1>4, ListFacts, NumbersAreNumbers DEF UCInv, Post, Inv, Types
  <2>2. Listed' = Listed \cup {task} /\ task \notin Listed
        /\ \A a \in Addr \ {task} : heap'[a] = heap[a]
    BY <1>4, <2>1, ListInsertKeeps
  <2>3. heap[task] = Free /\ heap'[task].state = "valid"
    BY <1>4, <2>1 DEF ListInsert, TaskTypeOK
  <2> QED
    BY <2>2, <2>3
<1>7. /\ taskOf[task] = NoConnector /\ taskOf'[task] = k
      /\ \A a \in Addr \ {task} : taskOf'[a] = taskOf[a]
  BY <1>4, <1>6 DEF UCInv, CNTypes, Known
<1>8. \A j \in Connectors \ {k} : WorkersStay(j) /\ OwnTasksStay(j)
  BY <1>5, <1>6, <1>7, NothingIs DEF WorkersStay, OwnTasksStay
<1>9. /\ doing'[t] = At("watch", k, "return", task) /\ doing'[t].connector = k
      /\ \A u \in Threads \ {t} : doing'[u] = doing[u]
  BY <1>1 DEF Do, UCInv, CNTypes, At
<1>10. /\ \A j \in Connectors \ {k} : connectors'[j] = connectors[j]
       /\ (k \in Existing)' /\ Id(k)' = NULL /\ Conn(k)' = c
  BY <1>1, <1>2, NoConnectorIsNone, ConnectorTypes
     DEF UCInv, CNTypes, Id, Existing, ConnectorRecord, Conn
<1>11. ASSUME NEW j \in Connectors, j # k PROVE Keep(j)'
  <2>1. SameProcs(j)
    BY <1>1 DEF SameProcs
  <2>2. SameConns(j)
    BY <1>2, <1>3, CreatedConns DEF RuleInv, Keep
  <2>3. doing[t].connector \in {k, NoConnector} /\ doing'[t].connector \in {k, NoConnector}
    BY <1>2, <1>9, NothingIs
  <2>4. connectors'[j] = connectors[j] /\ (j \in awaiting' <=> j \in awaiting)
        /\ WorkersStay(j) /\ OwnTasksStay(j) /\ \A w \in Workers : telling'[w] \in {telling[w], k}
    BY <1>1, <1>8, <1>10, <1>11
  <2> QED
    BY <1>9, <1>11, <2>1, <2>2, <2>3, <2>4, OthersUntouched
<1>12. Keep(k)'
  <2>1. \A a \in Addr : Pending(a, k)' <=> a = task
    BY <1>2, <1>4, <1>6, <1>7 DEF Pending
  <2>2. \A w \in Workers : ~Runs(w, k)'
    <3> SUFFICES ASSUME NEW w \in Workers, Runs(w, k)' PROVE FALSE
      OBVIOUS
    <3>1. pc[w] = "run" /\ first'[w] = first[w]
      BY <1>5 DEF Runs
    <3>2. first[w] \in Addr /\ first[w] # task
      BY <1>6, <3>1, RunIsKnown
    <3> QED
      BY <1>2, <1>6, <1>7, <3>1, <3>2 DEF Runs
  <2>3. \A u \in Threads : doing'[u].connector = k <=> u = t
    BY <1>2, <1>9 DEF Idle
  <2>4. ~Idle(k)' /\ k \in awaiting' /\ started'
    BY <1>1, <1>2, <1>5, <2>3 DEF Idle
  <2>5. AwaitOK(k)'
    <3>1. conns'[c] = [kind |-> "ux_stream", fd |-> o.fd, udp |-> UdpConn, refs |-> 1]
      <4>1. UdpConn \in There(conns)
        BY UsedIsThere, UdpIsConnection DEF UCInv, Links
      <4>2. c # UdpConn
        BY <1>2, <4>1 DEF There, Allocated
      <4> QED
        BY <1>3, <4>2 DEF Created
    <3>2. IsOpen(c)' /\ conns'[c].refs = 1
      BY <1>3, <3>1 DEF IsOpen
    <3> QED
      BY <1>10, <2>4, <3>2 DEF AwaitOK
  <2>6. CallOK(t, k)'
    <3>1. Pending(task, k)'
      BY <1>4, <2>1
    <3>2. /\ doing'[t].at = "watch" /\ doing'[t].then = "return" /\ doing'[t].task = task
      BY <1>9 DEF At
    <3>3. doing'[t].at = "watch" =>
            k \in awaiting' /\ doing'[t].then = "return" /\ Id(k)' = NULL
              /\ Pending(doing[t].task, k)'
      BY <1>10, <2>4, <3>1, <3>2
    <3> QED
      BY <1>2, <1>5, <1>10, <2>3, <3>2, <3>3 DEF CallOK
  <2>7. \A u \in Threads : doing'[u].connector = k => CallOK(u, k)'
    BY <2>3, <2>6
  <2>8. \A f \in Ufds : ProcOK(f, k)'
    BY <1>1, <1>2 DEF ProcOK
  <2>9. \A a \in Addr : TaskOK(a, k)'
    BY <1>9, <1>10, <2>1, <2>3, <2>4 DEF TaskOK, At
  <2>10. \A w \in Workers : RunOK(w, k)' /\ TellOK(w, k)'
    BY <1>1, <1>2, <1>5, <1>10, <2>2 DEF Keep, RunOK, TellOK
  <2> QED
    BY <2>5, <2>7, <2>8, <2>9, <2>10 DEF Keep
<1>13. Calls' /\ lost' = "none"
  BY <1>1, <1>9 DEF RuleInv, Calls
<1> QED
  BY <1>11, <1>12, <1>13 DEF RuleInv

(* The connector of a call that goes on.                                   *)
LEMMA InCall ==
    ASSUME UCInv, RuleInv, NEW t \in Threads, doing[t].at # "out"
    PROVE  LET k == doing[t].connector
           IN  /\ k \in Connectors /\ k \in Existing /\ Conn(k) # NoConn
               /\ CallOK(t, k) /\ Keep(k)
               /\ \A u \in Threads : doing[u].connector = k <=> u = t
PROOF
<1>1. doing[t].connector \in Connectors
  BY NothingIs DEF RuleInv, Calls
<1> QED
  BY <1>1 DEF RuleInv, Keep, CallOK

LEMMA WatchRules ==
    ASSUME UCInv, RuleInv, NEW t \in Threads, ConnectorWatch(t)
    PROVE  RuleInv'
PROOF
<1>0. PICK k, task : doing[t].connector = k /\ doing[t].task = task
  OBVIOUS
<1> DEFINE connect == [proc |-> "connect", connector |-> k]
<1>1. /\ k \in Connectors /\ k \in Existing /\ Conn(k) # NoConn /\ CallOK(t, k) /\ Keep(k)
      /\ \A u \in Threads : doing[u].connector = k <=> u = t
      /\ doing[t].at = "watch"
  BY <1>0, InCall DEF ConnectorWatch
<1>2. /\ k \in awaiting /\ Pending(task, k) /\ started /\ Conn(k) \in Conns
      /\ IsOpen(Conn(k)) /\ conns[Conn(k)].refs = 1
  BY <1>0, <1>1 DEF CallOK, Keep, AwaitOK
<1>3. /\ Add(t, Ufd(k), {"write"}) /\ Do(t, Nothing)
      /\ connectors' = [connectors EXCEPT ![k].timeouttask_id = task]
      /\ procs' = [procs EXCEPT ![Ufd(k)] = connect]
      /\ UNCHANGED <<connVars, program, taskOf, telling, awaiting, lost>>
  BY <1>0, <1>1, <1>2 DEF ConnectorWatch, Remember
<1>4. UNCHANGED <<heap, tasks, taskOf, started, pc, first, called, conns>>
  BY <1>3 DEF Add, taskVars, schedVars, restVars, selectVars, connVars
<1>5. /\ doing'[t] = Nothing /\ \A u \in Threads \ {t} : doing'[u] = doing[u]
  BY <1>3 DEF Do, UCInv, CNTypes
<1>6. Ufd(k) \in Ufds /\ procs'[Ufd(k)] = connect
      /\ \A f \in Ufds \ {Ufd(k)} : procs'[f] = procs[f]
  BY <1>1, <1>2, <1>3, ConnectionOf DEF UCInv, CNTypes
<1>7. task \in Addr /\ taskOf[task] = k
  BY <1>2, ListFacts DEF Pending, UCInv
<1>8. /\ \A j \in Connectors \ {k} : connectors'[j] = connectors[j]
      /\ (k \in Existing)' /\ Id(k)' = task /\ Conn(k)' = Conn(k)
  BY <1>1, <1>3, <1>7, NoConnectorIsNone, ConnectorTypes
     DEF UCInv, CNTypes, Id, Existing, ConnectorRecord, Conn
<1>9. (\A a : Pending(a, k)' <=> Pending(a, k)) /\ \A w : Runs(w, k)' <=> Runs(w, k)
  BY <1>4, SameTimers
<1>10. \A j : WorkersStay(j) /\ OwnTasksStay(j)
  BY <1>4, NothingMoves
<1>11. ASSUME NEW j \in Connectors, j # k PROVE Keep(j)'
  <2>1. SameProcs(j)
    BY <1>6, <1>11 DEF SameProcs
  <2>2. SameConns(j)
    BY <1>4 DEF SameConns
  <2>3. doing[t].connector \in {k, NoConnector} /\ doing'[t].connector \in {k, NoConnector}
    BY <1>0, <1>5, NothingIs
  <2>4. connectors'[j] = connectors[j] /\ (j \in awaiting' <=> j \in awaiting)
        /\ \A w \in Workers : telling'[w] \in {telling[w], k}
    BY <1>3, <1>8, <1>11
  <2> QED
    BY <1>5, <1>10, <1>11, <2>1, <2>2, <2>3, <2>4, OthersUntouched
<1>12. Keep(k)'
  <2>1. Idle(k)' /\ k \in awaiting' /\ started'
    BY <1>1, <1>2, <1>3, <1>4, <1>5, NothingIs DEF Idle
  <2>2. AwaitOK(k)'
    <3>1. Pending(Id(k), k)'
      BY <1>2, <1>8, <1>9 DEF Pending
    <3> QED
      BY <1>2, <1>4, <1>7, <1>8, <2>1, <3>1 DEF AwaitOK, IsOpen
  <2>3. \A f \in Ufds : ProcOK(f, k)'
    <3>1. \A f \in Ufds : procs'[f] = connect => f = Ufd(k)
      BY <1>1, <1>6 DEF Keep, ProcOK
    <3>2. Ufd(k)' = Ufd(k)
      BY <1>4, <1>8 DEF Ufd
    <3> QED
      BY <1>1, <1>8, <2>1, <3>1, <3>2 DEF ProcOK, Idle
  <2>4. \A a \in Addr : TaskOK(a, k)'
    <3>1. \A a \in Addr : Pending(a, k) => a = task
      BY <1>0, <1>1 DEF Keep, TaskOK
    <3> QED
      BY <1>8, <1>9, <2>1, <3>1 DEF TaskOK, Idle
  <2>5. \A w \in Workers : RunOK(w, k)'
    <3>1. \A w \in Workers : ~Runs(w, k)
      BY <1>1 DEF Keep, RunOK, Idle
    <3> QED
      BY <1>9, <3>1 DEF RunOK
  <2>6. \A w \in Workers : TellOK(w, k)'
    BY <1>1, <1>3, <1>4, <1>7, <1>8 DEF Keep, TellOK
  <2> QED
    BY <2>1, <2>2, <2>3, <2>4, <2>5, <2>6 DEF Keep, Idle
<1>13. Calls' /\ lost' = "none"
  BY <1>3, <1>5 DEF RuleInv, Calls
<1> QED
  BY <1>11, <1>12, <1>13 DEF RuleInv

(* A removal moves at most a client, which then waits.                     *)
LEMMA RmMoves ==
    ASSUME UCInv, NEW t \in Threads, NEW f, RmIfWatched(t, f)
    PROVE  UNCHANGED <<started, first, called>> /\ \A w \in Workers : pc'[w] = pc[w]
PROOF
<1>1. CASE UNCHANGED vars
  BY <1>1, VarsAre
<1>2. CASE Rm(t, f)
  <2>1. UNCHANGED <<started, first, called>> /\ CanCall(t)
    BY <1>2 DEF Rm, selectVars
  <2>2. pc' = pc \/ (Goto(t, "rm") /\ tid # t)
    BY <1>2 DEF Rm
  <2>3. pc' = pc \/ (Goto(t, "rm") /\ t \notin Workers)
    BY <2>1, <2>2, CallerIs
  <2>4. \A w \in Workers : pc'[w] = pc[w]
    BY <2>3, ThreadsAre DEF UCInv, Inv, Types, Goto
  <2> QED
    BY <2>1, <2>4
<1> QED
  BY <1>1, <1>2 DEF RmIfWatched

LEMMA RmRules ==
    ASSUME UCInv, RuleInv, Inv', NEW t \in Threads, ConnectorRm(t)
    PROVE  RuleInv'
PROOF
<1>0. PICK k : doing[t].connector = k
  OBVIOUS
<1>1. /\ k \in Connectors /\ k \in Existing /\ Conn(k) # NoConn /\ CallOK(t, k) /\ Keep(k)
      /\ \A u \in Threads : doing[u].connector = k <=> u = t
      /\ doing[t].at = "rm"
  BY <1>0, InCall DEF ConnectorRm
<1>2. /\ RmIfWatched(t, Ufd(k)) /\ Do(t, [doing[t] EXCEPT !.at = "cancel"])
      /\ UNCHANGED <<connVars, program, connectors, telling, awaiting, lost>>
  BY <1>0, <1>1 DEF ConnectorRm
<1>3. /\ UNCHANGED <<heap, tasks, taskOf, conns>>
      /\ \A f \in Ufds : procs'[f] = IF f = Ufd(k) THEN NoConnector ELSE procs[f]
  BY <1>2, RmFrees DEF connVars
<1>4. /\ UNCHANGED <<started, first, called>> /\ \A w \in Workers : pc'[w] = pc[w]
  BY <1>2, RmMoves
<1>5. /\ doing'[t].connector = k /\ doing'[t].at = "cancel" /\ doing'[t].then = doing[t].then
      /\ doing'[t].task = doing[t].task /\ \A u \in Threads \ {t} : doing'[u] = doing[u]
  BY <1>0, <1>2 DEF Do, UCInv, CNTypes, Doing
<1>6. \A j : WorkersStay(j) /\ OwnTasksStay(j)
  BY <1>3, <1>4 DEF WorkersStay, OwnTasksStay, Listed
<1>7. ASSUME NEW j \in Connectors, j # k PROVE Keep(j)'
  <2>1. SameProcs(j)
    BY <1>3, NoConnectorIsNone DEF SameProcs
  <2>2. SameConns(j)
    BY <1>3 DEF SameConns
  <2>3. /\ connectors'[j] = connectors[j] /\ (j \in awaiting' <=> j \in awaiting)
        /\ \A w \in Workers : telling'[w] \in {telling[w], k}
        /\ doing[t].connector \in {k, NoConnector} /\ doing'[t].connector \in {k, NoConnector}
    BY <1>0, <1>2, <1>5
  <2> QED
    BY <1>5, <1>6, <1>7, <2>1, <2>2, <2>3, OthersUntouched
<1>8. Keep(k)'
  <2>1. /\ (k \in Existing)' /\ Id(k)' = Id(k) /\ Conn(k)' = Conn(k) /\ Ufd(k)' = Ufd(k)
        /\ k \in awaiting' <=> k \in awaiting
    BY <1>1, <1>2, <1>3 DEF Existing, Id, Conn, Ufd
  <2>2. \A u \in Threads : doing'[u].connector = k <=> u = t
    BY <1>1, <1>5
  <2>3. ~Idle(k)'
    BY <2>2 DEF Idle
  <2>4. \A a : Pending(a, k)' <=> Pending(a, k)
    BY <1>3 DEF Pending, Listed
  <2>5. k \in awaiting' => AwaitOK(k)'
    BY <1>1, <1>3, <1>4, <2>1, <2>3 DEF Keep, AwaitOK, IsOpen
  <2>6. CallOK(t, k)'
    <3>1. t \in Workers => pc'[t] = pc[t] /\ first'[t] = first[t]
      BY <1>4
    <3> QED
      BY <1>1, <1>5, <2>1, <2>2, <3>1 DEF CallOK
  <2>7. \A u \in Threads : doing'[u].connector = k => CallOK(u, k)'
    BY <2>2, <2>6
  <2>8. \A f \in Ufds : ProcOK(f, k)'
    <3>1. \A f \in Ufds : procs'[f] # [proc |-> "connect", connector |-> k]
      BY <1>1, <1>3, NoConnectorIsNone DEF Keep, ProcOK
    <3> QED
      BY <3>1 DEF ProcOK
  <2>9. \A a \in Addr : TaskOK(a, k)'
    <3> SUFFICES ASSUME NEW a \in Addr, Pending(a, k) PROVE TaskOK(a, k)'
      BY <2>4 DEF TaskOK
    <3>1. Id(k) = a /\ (doing[t].then # "tell" => t \in Workers /\ started)
      BY <1>1 DEF Keep, TaskOK
    <3> QED
      BY <1>4, <1>5, <2>1, <2>2, <2>3, <3>1 DEF TaskOK
  <2>10. \A w \in Workers : RunOK(w, k)' /\ TellOK(w, k)'
    <3> SUFFICES ASSUME NEW w \in Workers PROVE RunOK(w, k)' /\ TellOK(w, k)'
      OBVIOUS
    <3>1. ~Runs(w, k) /\ TellOK(w, k)
      BY <1>1 DEF Keep, RunOK, Idle
    <3>2. ~Runs(w, k)'
      BY <1>3, <1>4, <3>1 DEF Runs
    <3>3. telling' = telling /\ pc'[w] = pc[w] /\ started' = started /\ taskOf' = taskOf
          /\ (doing'[w].connector = k <=> doing[w].connector = k)
      BY <1>1, <1>2, <1>3, <1>4, <2>2, ThreadsAre
    <3>4. TellOK(w, k)'
      BY <1>1, <2>1, <3>1, <3>3 DEF TellOK
    <3> QED
      BY <3>2, <3>4 DEF RunOK
  <2> QED
    BY <2>5, <2>7, <2>8, <2>9, <2>10 DEF Keep
<1>9. Calls' /\ lost' = "none"
  BY <1>1, <1>2, <1>5 DEF RuleInv, Calls
<1> QED
  BY <1>7, <1>8, <1>9 DEF RuleInv

(* A cancel marks at most the task that is named.                          *)
LEMMA CancelMarks ==
    ASSUME UCInv, NEW t \in Threads, NEW id, CancelTimeout(t, id)
    PROVE  /\ UNCHANGED <<tasks, started, pc, first, called>>
           /\ \A a \in Addr : heap'[a] = heap[a] \/ (a = id /\ a \in Listed /\ started)
           /\ started /\ id \in Listed => heap'[id].state = "invalid"
           /\ \A a \in Addr \ Listed : heap'[a] = heap[a]
PROOF
<1>1. CASE ~started /\ UNCHANGED vars
  BY <1>1, VarsAre
<1>2. CASE Cancel(t, id)
  <2>1. /\ ListCancel(id) /\ started
        /\ UNCHANGED <<tasks, started, pc, first, called>>
    BY <1>2 DEF Cancel, ListCancel, schedVars, restVars, selectVars
  <2>2. TaskTypeOK /\ ListedAreTasks /\ Listed \subseteq Addr
    BY ListFacts DEF UCInv
  <2>3. CASE id \notin Listed
    BY <2>1, <2>3 DEF ListCancel
  <2>4. CASE id \in Listed
    <3>1. heap' = [heap EXCEPT ![id].state = "invalid"] /\ heap[id] \in TimerTask /\ id \in Addr
      BY <2>1, <2>2, <2>4 DEF ListCancel, ListedAreTasks
    <3>2. heap'[id].state = "invalid" /\ \A a \in Addr \ {id} : heap'[a] = heap[a]
      BY <2>2, <3>1 DEF TaskTypeOK, TimerTask
    <3> QED
      BY <2>1, <2>4, <3>2
  <2> QED
    BY <2>3, <2>4
<1> QED
  BY <1>1, <1>2 DEF CancelTimeout

LEMMA FinishLeaves ==
    ASSUME UCInv, NEW t \in Threads, NEW k \in Existing, NEW then \in Thens, Finish(t, k, then)
    PROVE  /\ \A j \in Connectors \ {k} : connectors'[j] = connectors[j]
           /\ (k \in Existing)' => Id(k)' = Id(k)
           /\ doing'[t] = Nothing /\ \A u \in Threads \ {t} : doing'[u] = doing[u]
           /\ \/ conns' = conns
              \/ then = "destroy" /\ Conn(k) # NoConn /\ LetGo(Conn(k))
PROOF
<1>1. \/ connectors' = [connectors EXCEPT ![k].uxconn = NoConn]
      \/ connectors' = [connectors EXCEPT ![k] = NoConnector]
      \/ connectors' = connectors
  BY DEF Finish, Thens
<1>2. /\ \A j \in Connectors \ {k} : connectors'[j] = connectors[j]
      /\ (k \in Existing)' => Id(k)' = Id(k)
  BY <1>1, ConnectorTypes DEF UCInv, CNTypes, Existing, Id, ConnectorRecord
<1>3. doing'[t] = Nothing /\ \A u \in Threads \ {t} : doing'[u] = doing[u]
  BY DEF Finish, Do, UCInv, CNTypes
<1>4. \/ conns' = conns
      \/ then = "destroy" /\ Conn(k) # NoConn /\ LetGo(Conn(k))
  BY DEF Finish, Thens, connVars
<1> QED
  BY <1>2, <1>3, <1>4

LEMMA CancelRules ==
    ASSUME UCInv, RuleInv, NEW t \in Threads, ConnectorCancel(t)
    PROVE  RuleInv'
PROOF
<1>0. PICK k, then : doing[t].connector = k /\ doing[t].then = then
  OBVIOUS
<1>1. /\ k \in Connectors /\ k \in Existing /\ Conn(k) # NoConn /\ CallOK(t, k) /\ Keep(k)
      /\ \A u \in Threads : doing[u].connector = k <=> u = t
      /\ doing[t].at = "cancel"
  BY <1>0, InCall DEF ConnectorCancel
<1>2. /\ CancelTimeout(t, Id(k)) /\ Finish(t, k, then) /\ then \in Thens
      /\ awaiting' = IF then = "tell" THEN awaiting \ {k} ELSE awaiting
      /\ telling' = IF then = "tell" THEN [telling EXCEPT ![t] = k] ELSE telling
      /\ UNCHANGED <<program, procs, taskOf, lost>>
  BY <1>0, <1>1 DEF ConnectorCancel, Tell, Id, UCInv, CNTypes, Doing, Thens
<1>3. /\ UNCHANGED <<tasks, started, pc, first, called>>
      /\ \A a \in Addr : heap'[a] = heap[a] \/ (a = Id(k) /\ a \in Listed /\ started)
      /\ started /\ Id(k) \in Listed => heap'[Id(k)].state = "invalid"
      /\ \A a \in Addr \ Listed : heap'[a] = heap[a]
  BY <1>2, CancelMarks
<1>4. /\ \A j \in Connectors \ {k} : connectors'[j] = connectors[j]
      /\ (k \in Existing)' => Id(k)' = Id(k)
      /\ doing'[t] = Nothing /\ \A u \in Threads \ {t} : doing'[u] = doing[u]
      /\ conns' = conns \/ LetGo(Conn(k))
  BY <1>1, <1>2, FinishLeaves
<1>5. /\ then # "tell" => k \notin awaiting /\ (t \in Clients => Id(k) = NULL)
      /\ then = "tell" => t \in Workers /\ pc[t] = "proc" /\ Id(k) = first[t] /\ k \in awaiting
  BY <1>0, <1>1 DEF CallOK
<1>6. then = "tell" => Id(k) \notin Listed
  BY <1>5, RunIsKnown
<1>7. started /\ Id(k) \in Listed => taskOf[Id(k)] = k
  <2>1. ASSUME started, Id(k) \in Listed PROVE t \in Workers /\ Id(k) # NULL
    BY <1>5, <1>6, <2>1, ListFacts, NullIsNoAddress, ThreadsAre DEF UCInv
  <2> QED
    BY <1>0, <1>1, <2>1 DEF Keep, TellOK
<1>8. /\ \A w \in Workers : pc'[w] = pc[w] /\ first'[w] = first[w] /\ called'[w] = called[w]
      /\ Listed' = Listed
  BY <1>3 DEF Listed
<1>9. \A j \in Connectors \ {k} : WorkersStay(j) /\ OwnTasksStay(j)
  BY <1>2, <1>3, <1>7, <1>8 DEF WorkersStay, OwnTasksStay
<1>10. /\ \A w \in Workers : telling'[w] = telling[w] \/ (then = "tell" /\ w = t /\ telling'[w] = k)
       /\ \A j \in Connectors \ {k} : j \in awaiting' <=> j \in awaiting
       /\ k \notin awaiting'
  BY <1>2, <1>5 DEF UCInv, CNTypes
<1>11. ASSUME NEW j \in Connectors, j # k PROVE Keep(j)'
  <2>1. SameProcs(j)
    BY <1>2 DEF SameProcs
  <2>2. SameConns(j)
    <3>1. CASE conns' = conns
      BY <3>1 DEF SameConns
    <3>2. CASE LetGo(Conn(k))
      <4>1. Conn(k) \in Conns /\ Conn(k) \in There(conns)
        BY <1>1, ConnectionOf DEF UCInv
      <4>2. (j \in awaiting => AwaitOK(j)) /\ k # j
        BY <1>11 DEF RuleInv, Keep
      <4> QED
        BY <1>1, <3>2, <4>1, <4>2, LetGoConns
    <3> QED
      BY <1>4, <3>1, <3>2
  <2>3. /\ connectors'[j] = connectors[j] /\ (j \in awaiting' <=> j \in awaiting)
        /\ \A w \in Workers : telling'[w] \in {telling[w], k}
        /\ doing[t].connector \in {k, NoConnector} /\ doing'[t].connector \in {k, NoConnector}
        /\ WorkersStay(j) /\ OwnTasksStay(j)
    BY <1>0, <1>4, <1>9, <1>10, <1>11, NothingIs
  <2> QED
    BY <1>4, <1>11, <2>1, <2>2, <2>3, OthersUntouched
<1>12. Keep(k)'
  <2>1. Idle(k)'
    BY <1>1, <1>4, NothingIs DEF Idle
  <2>2. \A f \in Ufds : procs'[f] # [proc |-> "connect", connector |-> k]
    BY <1>1, <1>2 DEF Keep, ProcOK
  <2>3. \A a \in Addr : ~Pending(a, k)'
    <3> SUFFICES ASSUME NEW a \in Addr, Pending(a, k)' PROVE FALSE
      OBVIOUS
    <3>1. a \in Listed /\ taskOf[a] = k /\ heap'[a].state = "valid"
      BY <1>2, <1>8 DEF Pending
    <3>2. CASE heap'[a] = heap[a]
      <4>1. Pending(a, k)
        BY <3>1, <3>2 DEF Pending
      <4>2. Id(k) = a /\ (then # "tell" => started)
        BY <1>0, <1>1, <4>1 DEF Keep, TaskOK
      <4> QED
        BY <1>3, <1>6, <3>1, <4>2
    <3>3. CASE a = Id(k) /\ started
      BY <1>3, <3>1, <3>3
    <3> QED
      BY <1>3, <3>2, <3>3
  <2>4. \A w \in Workers : ~Runs(w, k)'
    <3> SUFFICES ASSUME NEW w \in Workers, Runs(w, k)' PROVE FALSE
      OBVIOUS
    <3>1. pc[w] = "run" /\ first'[w] = first[w]
      BY <1>8 DEF Runs
    <3>2. heap'[first[w]] = heap[first[w]]
      BY <1>3, <3>1, RunIsKnown
    <3>3. Runs(w, k)
      BY <1>2, <3>1, <3>2 DEF Runs
    <3> QED
      BY <1>1, <3>3 DEF Keep, RunOK, Idle
  <2>5. \A w \in Workers : TellOK(w, k)'
    <3> SUFFICES ASSUME NEW w \in Workers PROVE TellOK(w, k)'
      OBVIOUS
    <3>1. TellOK(w, k)
      BY <1>1 DEF Keep
    <3>2. telling'[w] = k => pc[w] \in {"event", "proc", "join"}
      BY <1>5, <1>10, <3>1 DEF TellOK
    <3>3. doing'[w].connector # k
      BY <2>1, ThreadsAre DEF Idle
    <3>4. ASSUME telling'[w] = k, k \in Existing, started, Id(k) # NULL
          PROVE  taskOf[Id(k)] = k
      <4>1. telling[w] = k \/ k \in awaiting
        BY <1>5, <1>10, <3>4
      <4> QED
        BY <1>1, <3>1, <3>4, <4>1 DEF TellOK, Keep, AwaitOK
    <3> QED
      BY <1>1, <1>2, <1>3, <1>4, <1>8, <3>2, <3>3, <3>4 DEF TellOK
  <2> QED
    BY <1>10, <2>1, <2>2, <2>3, <2>4, <2>5, IdleKeeps
<1>13. Calls' /\ lost' = "none"
  BY <1>2, <1>4 DEF RuleInv, Calls
<1> QED
  BY <1>11, <1>12, <1>13 DEF RuleInv

(* A worker that is somewhere else than in a handler or a callback is in   *)
(* no call, and tells nobody.                                              *)
LEMMA NotCalling ==
    ASSUME RuleInv, NEW w \in Workers, pc[w] \notin {"event", "proc", "join"}
    PROVE  doing[w] = Nothing /\ telling[w] \notin Connectors
PROOF
<1> QED
  BY ThreadsAre DEF RuleInv, Calls, Keep, CallOK, TellOK

LEMMA CallRules ==
    ASSUME UCInv, RuleInv, NEW w \in Workers, CallHandler(w)
    PROVE  RuleInv'
PROOF
<1>1. /\ pc[w] = "call" /\ w \in Threads
      /\ UNCHANGED <<connVars, program, connectors, procs, taskOf, telling, awaiting, lost>>
  BY ThreadsAre DEF CallHandler, Call
<1>2. UNCHANGED <<heap, tasks, started, first, conns>>
  BY <1>1 DEF CallHandler, Call, Abort, sharedVars, taskVars, schedVars, connVars
<1>3. /\ \A v \in Workers \ {w} : pc'[v] = pc[v] /\ called'[v] = called[v]
      /\ \/ pc'[w] = pc[w] /\ called'[w] = called[w]
         \/ /\ pc'[w] = "event" /\ uxheap[uxe[w]] # UxFree
            /\ called'[w] = uxheap[uxe[w]].ufd
  <2>1. CASE Abort("uaf")
    BY <2>1 DEF Abort, selectVars
  <2>2. CASE ~Abort("uaf")
    <3>1. /\ called' = [called EXCEPT ![w] = uxheap[uxe[w]].ufd]
          /\ pc' = [pc EXCEPT ![w] = "event"] /\ uxheap[uxe[w]] # UxFree
      BY <2>2 DEF CallHandler, Call, Goto
    <3> QED
      BY <1>1, <3>1, ThreadsAre DEF UCInv, Inv, Types
  <2> QED
    BY <2>1, <2>2
<1>4. doing[w] = Nothing /\ telling[w] \notin Connectors
  BY <1>1, NotCalling
<1>5. \A j \in Connectors : WorkersStay(j) /\ OwnTasksStay(j)
  BY <1>1, <1>2, <1>3, <1>4, NothingIs DEF WorkersStay, OwnTasksStay, Listed, Runs
<1>6. ASSUME NEW k0, NEW j \in Connectors, j # k0, doing'[w].connector \in {k0, NoConnector},
             \A u \in Threads \ {w} : doing'[u] = doing[u]
      PROVE  Keep(j)'
  <2>1. SameProcs(j) /\ SameConns(j)
    BY <1>1, <1>2 DEF SameProcs, SameConns
  <2>2. doing[w].connector \in {k0, NoConnector}
    BY <1>4, NothingIs
  <2> QED
    BY <1>1, <1>5, <1>6, <2>1, <2>2, OthersUntouched
<1>7. CASE doing' = doing
  <2>1. \A j \in Connectors : Keep(j)'
    BY <1>4, <1>6, <1>7, NothingIs
  <2> QED
    BY <1>1, <1>7, <2>1 DEF RuleInv, Calls
<1>8. CASE doing' # doing
  <2>1. PICK f \in Ufds, k \in Connectors :
          /\ procs[f] = [proc |-> "connect", connector |-> k]
          /\ Do(w, At("assert", k, "tell", NULL)) /\ called'[w] = f /\ pc'[w] = "event"
    <3>1. ~Abort("uaf") /\ uxheap[uxe[w]] # UxFree
      BY <1>8 DEF CallHandler, Call, Abort
    <3>2. /\ called' = [called EXCEPT ![w] = uxheap[uxe[w]].ufd]
          /\ pc' = [pc EXCEPT ![w] = "event"]
      BY <3>1 DEF CallHandler, Call, Goto
    <3>3. called'[w] = uxheap[uxe[w]].ufd /\ pc'[w] = "event"
      BY <1>1, <3>2 DEF UCInv, Inv, Types
    <3>4. uxheap[uxe[w]].ufd \in Ufds /\ procs[uxheap[uxe[w]].ufd] \in Handlers
      BY <1>1, <3>1, CalledIsKnown
    <3>5. /\ procs[uxheap[uxe[w]].ufd].proc # "user"
          /\ Do(w, At("assert", procs[uxheap[uxe[w]].ufd].connector, "tell", NULL))
      BY <1>8 DEF CallHandler
    <3>6. PICK p \in Handlers : p = procs[uxheap[uxe[w]].ufd]
      BY <3>4
    <3>7. p = [proc |-> "connect", connector |-> p.connector] /\ p.connector \in Connectors
      BY <3>5, <3>6 DEF Handlers
    <3> QED
      BY <3>3, <3>4, <3>5, <3>6, <3>7
  <2>2. /\ doing'[w] = At("assert", k, "tell", NULL) /\ doing'[w].connector = k
        /\ \A u \in Threads \ {w} : doing'[u] = doing[u]
    BY <1>1, <2>1 DEF Do, UCInv, CNTypes, At
  <2>3. Keep(k) /\ k \in Existing /\ Conn(k) # NoConn /\ Ufd(k) = f
    BY <2>1 DEF RuleInv, Keep, ProcOK
  <2>4. \A v \in Workers \ {w} : ~Active(v)
    BY <1>1, OnlyActive DEF UCInv, Active
  <2>5. Idle(k)
    <3> SUFFICES ASSUME NEW u \in Threads, doing[u].connector = k PROVE FALSE
      BY DEF Idle
    <3>1. u \in Workers /\ pc[u] \in {"event", "proc"}
      BY <2>1, <2>3 DEF Keep, ProcOK, CallOK
    <3> QED
      BY <1>1, <2>4, <3>1 DEF Active
  <2>6. k \in awaiting /\ AwaitOK(k)
    BY <2>1, <2>3, <2>5 DEF Keep, ProcOK
  <2>7. \A v \in Workers : pc[v] # "run"
    BY <1>1, <2>4 DEF Active
  <2>8. Pending(Id(k), k) /\ \A v \in Workers : ~Runs(v, k)
    BY <2>5, <2>6, <2>7 DEF AwaitOK, Runs
  <2>9. /\ (k \in Existing)' /\ Id(k)' = Id(k) /\ Conn(k)' = Conn(k) /\ Ufd(k)' = f
        /\ k \in awaiting'
    BY <1>1, <1>2, <2>3, <2>6 DEF Existing, Id, Conn, Ufd
  <2>10. \A u \in Threads : doing'[u].connector = k <=> u = w
    BY <2>2, <2>5 DEF Idle
  <2>11. ~Idle(k)'
    BY <1>1, <2>10 DEF Idle
  <2>12. \A a : Pending(a, k)' <=> Pending(a, k)
    BY <1>1, <1>2 DEF Pending, Listed
  <2>13. AwaitOK(k)'
    BY <1>1, <1>2, <2>6, <2>9, <2>11 DEF AwaitOK, IsOpen
  <2>14. CallOK(w, k)'
    <3>1. Pending(Id(k), k)'
      BY <2>8, <2>9, <2>12 DEF Pending
    <3> QED
      BY <1>1, <2>1, <2>2, <2>3, <2>9, <2>10, <3>1 DEF CallOK, At
  <2>15. \A u \in Threads : doing'[u].connector = k => CallOK(u, k)'
    BY <2>10, <2>14
  <2>16. \A g \in Ufds : ProcOK(g, k)'
    <3>1. \A g \in Ufds : procs'[g] = [proc |-> "connect", connector |-> k] => g = f
      BY <1>1, <2>3 DEF Keep, ProcOK
    <3> QED
      BY <2>2, <2>3, <2>9, <2>10, <2>11, <3>1 DEF ProcOK, At
  <2>17. \A a \in Addr : TaskOK(a, k)'
    <3>1. \A a \in Addr : Pending(a, k) => Id(k) = a
      BY <2>3, <2>5 DEF Keep, TaskOK
    <3> QED
      BY <2>2, <2>9, <2>10, <2>11, <2>12, <3>1 DEF TaskOK, At
  <2>18. \A v \in Workers : RunOK(v, k)' /\ TellOK(v, k)'
    <3> SUFFICES ASSUME NEW v \in Workers PROVE RunOK(v, k)' /\ TellOK(v, k)'
      OBVIOUS
    <3>1. pc'[v] # "run"
      BY <1>3, <2>1, <2>7
    <3>2. telling'[v] = k => pc'[v] \in {"event", "proc", "join"}
      BY <1>1, <1>3, <2>1, <2>3 DEF Keep, TellOK
    <3>3. Id(k) # NULL => taskOf[Id(k)] = k
      BY <2>6 DEF AwaitOK
    <3>4. TellOK(v, k)'
      BY <1>1, <2>9, <3>2, <3>3 DEF TellOK
    <3> QED
      BY <3>1, <3>4 DEF RunOK, Runs
  <2>19. Keep(k)'
    BY <2>13, <2>15, <2>16, <2>17, <2>18 DEF Keep
  <2>20. \A j \in Connectors \ {k} : Keep(j)'
    BY <1>6, <2>2
  <2> QED
    BY <1>1, <2>2, <2>19, <2>20 DEF RuleInv, Calls
<1> QED
  BY <1>7, <1>8

LEMMA AssertRules ==
    ASSUME UCInv, RuleInv, NEW w \in Workers, AssertCancelled(w)
    PROVE  RuleInv'
PROOF
<1>0. PICK k : doing[w].connector = k
  OBVIOUS
<1>1. /\ k \in Connectors /\ k \in Existing /\ Conn(k) # NoConn /\ CallOK(w, k) /\ Keep(k)
      /\ \A u \in Threads : doing[u].connector = k <=> u = w
      /\ doing[w].at = "assert" /\ w \in Threads
  BY <1>0, InCall, ThreadsAre DEF AssertCancelled
<1>2. /\ Pending(Id(k), k) /\ k \in awaiting /\ AwaitOK(k) /\ started
      /\ doing[w].then = "tell" /\ called[w] = Ufd(k) /\ pc[w] = "event"
  BY <1>1 DEF CallOK, Keep, AwaitOK
<1>3. /\ Cancel(w, Id(k)) /\ Do(w, [doing[w] EXCEPT !.at = "unwatch"])
      /\ UNCHANGED <<connVars, program, connectors, procs, taskOf, telling, awaiting, lost>>
  BY <1>0, <1>1, <1>2 DEF AssertCancelled, Pending, Id
<1>4. /\ UNCHANGED <<tasks, started, pc, first, called>>
      /\ \A a \in Addr : heap'[a] = heap[a] \/ (a = Id(k) /\ a \in Listed)
      /\ heap'[Id(k)].state = "invalid"
      /\ \A a \in Addr \ Listed : heap'[a] = heap[a]
  <2>1. CancelTimeout(w, Id(k))
    BY <1>3 DEF CancelTimeout
  <2>2. started /\ Id(k) \in Listed
    BY <1>2 DEF Pending
  <2> QED
    BY <1>1, <2>1, <2>2, CancelMarks
<1>5. /\ doing'[w].connector = k /\ doing'[w].at = "unwatch" /\ doing'[w].then = "tell"
      /\ \A u \in Threads \ {w} : doing'[u] = doing[u]
  BY <1>0, <1>1, <1>2, <1>3 DEF Do, UCInv, CNTypes, Doing
<1>6. Listed' = Listed /\ conns' = conns
  BY <1>3, <1>4 DEF Listed, connVars
<1>7. \A j \in Connectors \ {k} : WorkersStay(j) /\ OwnTasksStay(j)
  BY <1>2, <1>3, <1>4, <1>6 DEF WorkersStay, OwnTasksStay, Pending
<1>8. ASSUME NEW j \in Connectors, j # k PROVE Keep(j)'
  <2>1. SameProcs(j) /\ SameConns(j)
    BY <1>3, <1>6 DEF SameProcs, SameConns
  <2>2. /\ connectors'[j] = connectors[j] /\ (j \in awaiting' <=> j \in awaiting)
        /\ \A v \in Workers : telling'[v] \in {telling[v], k}
        /\ doing[w].connector \in {k, NoConnector} /\ doing'[w].connector \in {k, NoConnector}
    BY <1>0, <1>3, <1>5
  <2> QED
    BY <1>1, <1>5, <1>7, <1>8, <2>1, <2>2, OthersUntouched
<1>9. Keep(k)'
  <2>1. /\ (k \in Existing)' /\ Id(k)' = Id(k) /\ Conn(k)' = Conn(k) /\ Ufd(k)' = Ufd(k)
        /\ k \in awaiting'
    BY <1>1, <1>2, <1>3, <1>6 DEF Existing, Id, Conn, Ufd
  <2>2. \A u \in Threads : doing'[u].connector = k <=> u = w
    BY <1>1, <1>5
  <2>3. ~Idle(k)'
    BY <1>1, <2>2 DEF Idle
  <2>4. AwaitOK(k)'
    BY <1>2, <1>3, <1>4, <1>6, <2>1, <2>3 DEF AwaitOK, IsOpen
  <2>5. CallOK(w, k)'
    <3>1. Id(k) \in Listed
      BY <1>2 DEF Pending
    <3> QED
      BY <1>1, <1>2, <1>4, <1>5, <1>6, <2>1, <2>2, <3>1 DEF CallOK
  <2>6. \A u \in Threads : doing'[u].connector = k => CallOK(u, k)'
    BY <2>2, <2>5
  <2>7. \A f \in Ufds : ProcOK(f, k)'
    BY <1>1, <1>3, <1>5, <2>1, <2>2, <2>3 DEF Keep, ProcOK
  <2>8. \A a \in Addr : TaskOK(a, k)'
    <3> SUFFICES ASSUME NEW a \in Addr, Pending(a, k)' PROVE FALSE
      BY DEF TaskOK
    <3>1. a \in Listed /\ taskOf[a] = k /\ heap'[a].state = "valid" /\ a # Id(k)
      BY <1>3, <1>4, <1>6 DEF Pending
    <3>2. Pending(a, k)
      BY <1>4, <3>1 DEF Pending
    <3> QED
      BY <1>1, <3>1, <3>2 DEF Keep, TaskOK
  <2>9. \A v \in Workers : RunOK(v, k)' /\ TellOK(v, k)'
    <3> SUFFICES ASSUME NEW v \in Workers PROVE RunOK(v, k)' /\ TellOK(v, k)'
      OBVIOUS
    <3>1. pc[v] # "run"
      BY <1>1, <1>2, OnlyActive DEF UCInv, Active
    <3>2. telling'[v] = k => pc'[v] \in {"event", "proc", "join"}
      BY <1>1, <1>3, <1>4 DEF Keep, TellOK
    <3>3. Id(k) # NULL => taskOf[Id(k)] = k
      BY <1>2 DEF AwaitOK
    <3>4. TellOK(v, k)'
      BY <1>3, <2>1, <3>2, <3>3 DEF TellOK
    <3> QED
      BY <1>4, <3>1, <3>4 DEF RunOK, Runs
  <2> QED
    BY <2>4, <2>6, <2>7, <2>8, <2>9 DEF Keep
<1>10. Calls' /\ lost' = "none"
  BY <1>1, <1>3, <1>5 DEF RuleInv, Calls
<1> QED
  BY <1>8, <1>9, <1>10 DEF RuleInv

LEMMA UnwatchRules ==
    ASSUME UCInv, RuleInv, Inv', NEW w \in Workers, Unwatch(w)
    PROVE  RuleInv'
PROOF
<1>0. PICK k : doing[w].connector = k
  OBVIOUS
<1>1. /\ k \in Connectors /\ k \in Existing /\ Conn(k) # NoConn /\ CallOK(w, k) /\ Keep(k)
      /\ \A u \in Threads : doing[u].connector = k <=> u = w
      /\ doing[w].at = "unwatch" /\ w \in Threads
  BY <1>0, InCall, ThreadsAre DEF Unwatch
<1>2. /\ Id(k) \in Listed /\ heap[Id(k)].state = "invalid" /\ k \in awaiting /\ AwaitOK(k)
      /\ called[w] = Ufd(k) /\ pc[w] = "event"
  BY <1>1 DEF CallOK, Keep
<1>3. /\ RmIfWatched(w, Ufd(k)) /\ Do(w, Nothing) /\ awaiting' = awaiting \ {k}
      /\ telling' = [telling EXCEPT ![w] = k]
      /\ UNCHANGED <<connVars, program, connectors, lost>>
  BY <1>0, <1>1, <1>2 DEF Unwatch
<1>4. /\ UNCHANGED <<heap, tasks, taskOf, conns>>
      /\ \A f \in Ufds : procs'[f] = IF f = Ufd(k) THEN NoConnector ELSE procs[f]
  BY <1>1, <1>3, RmFrees DEF connVars
<1>5. UNCHANGED <<started, first, called>> /\ \A v \in Workers : pc'[v] = pc[v]
  BY <1>1, <1>3, RmMoves
<1>6. doing'[w] = Nothing /\ \A u \in Threads \ {w} : doing'[u] = doing[u]
  BY <1>1, <1>3 DEF Do, UCInv, CNTypes
<1>7. telling'[w] = k /\ \A v \in Workers \ {w} : telling'[v] = telling[v]
  BY <1>3 DEF UCInv, CNTypes
<1>8. \A j : WorkersStay(j) /\ OwnTasksStay(j)
  BY <1>4, <1>5 DEF WorkersStay, OwnTasksStay, Listed
<1>9. ASSUME NEW j \in Connectors, j # k PROVE Keep(j)'
  <2>1. SameProcs(j)
    BY <1>4, NoConnectorIsNone DEF SameProcs
  <2>2. SameConns(j)
    BY <1>4 DEF SameConns
  <2>3. /\ connectors'[j] = connectors[j] /\ (j \in awaiting' <=> j \in awaiting)
        /\ \A v \in Workers : telling'[v] \in {telling[v], k}
        /\ doing[w].connector \in {k, NoConnector} /\ doing'[w].connector \in {k, NoConnector}
    BY <1>0, <1>3, <1>6, <1>7, <1>9, NothingIs
  <2> QED
    BY <1>1, <1>6, <1>8, <1>9, <2>1, <2>2, <2>3, OthersUntouched
<1>10. Keep(k)'
  <2>1. Idle(k)' /\ k \notin awaiting'
    BY <1>1, <1>3, <1>6, NothingIs DEF Idle
  <2>2. \A f \in Ufds : procs'[f] # [proc |-> "connect", connector |-> k]
    BY <1>1, <1>4, NoConnectorIsNone DEF Keep, ProcOK
  <2>3. \A a \in Addr : ~Pending(a, k)'
    <3> SUFFICES ASSUME NEW a \in Addr, Pending(a, k) PROVE FALSE
      BY <1>4 DEF Pending, Listed
    <3>1. Id(k) = a
      BY <1>1 DEF Keep, TaskOK
    <3> QED
      BY <1>2, <3>1 DEF Pending
  <2>4. \A v \in Workers : ~Runs(v, k)'
    <3>1. \A v \in Workers : ~Runs(v, k)
      BY <1>1 DEF Keep, RunOK, Idle
    <3> QED
      BY <1>4, <1>5, <3>1 DEF Runs
  <2>5. \A v \in Workers : TellOK(v, k)'
    <3> SUFFICES ASSUME NEW v \in Workers PROVE TellOK(v, k)'
      OBVIOUS
    <3>1. telling'[v] = k => pc'[v] \in {"event", "proc", "join"}
      BY <1>1, <1>2, <1>5, <1>7 DEF Keep, TellOK
    <3>2. Id(k)' = Id(k) /\ taskOf' = taskOf /\ (Id(k) # NULL => taskOf[Id(k)] = k)
      BY <1>2, <1>3, <1>4 DEF AwaitOK, Id
    <3> QED
      BY <3>1, <3>2 DEF TellOK
  <2> QED
    BY <2>1, <2>2, <2>3, <2>4, <2>5, IdleKeeps
<1>11. Calls' /\ lost' = "none"
  BY <1>1, <1>3, <1>6 DEF RuleInv, Calls
<1> QED
  BY <1>9, <1>10, <1>11 DEF RuleInv

LEMMA DoneRules ==
    ASSUME UCInv, RuleInv, NEW w \in Workers, HandlerDone(w) \/ TimeoutDone(w)
    PROVE  RuleInv'
PROOF
<1>1. /\ doing[w].at = "out" /\ w \in Threads /\ pc[w] \in {"event", "proc"}
      /\ telling' = [telling EXCEPT ![w] = NoConnector]
      /\ UNCHANGED <<connVars, program, connectors, procs, taskOf, doing, awaiting, lost>>
  BY ThreadsAre DEF HandlerDone, TimeoutDone, HandlerReturns, Return, MoveOn
<1>2. UNCHANGED <<heap, tasks, started, first, conns>>
  BY <1>1 DEF HandlerDone, TimeoutDone, HandlerReturns, Return, MoveOn, sharedVars, taskVars,
     schedVars, restVars, connVars
<1>3. /\ \A v \in Workers \ {w} : pc'[v] = pc[v] /\ called'[v] = called[v]
      /\ pc'[w] \in {"find", "drop"}
  <2>1. /\ pc' = [pc EXCEPT ![w] = "find"] \/ pc' = [pc EXCEPT ![w] = "drop"]
        /\ called' = [called EXCEPT ![w] = NoUfd] \/ called' = called
    BY DEF HandlerDone, TimeoutDone, HandlerReturns, Return, MoveOn, Goto, restVars, selectVars
  <2> QED
    BY <1>1, <2>1, ThreadsAre DEF UCInv, Inv, Types
<1>4. doing[w] = Nothing
  BY <1>1, OutIsNothing
<1>5. telling'[w] = NoConnector /\ \A v \in Workers \ {w} : telling'[v] = telling[v]
  BY <1>1 DEF UCInv, CNTypes
<1>6. \A j \in Connectors : WorkersStay(j) /\ OwnTasksStay(j)
  BY <1>1, <1>2, <1>3, <1>4, <1>5, NothingIs DEF WorkersStay, OwnTasksStay, Listed, Runs
<1>7. ASSUME NEW j \in Connectors PROVE Keep(j)'
  <2>1. SameProcs(j) /\ SameConns(j) /\ j # NoConnector
    BY <1>1, <1>2, NothingIs DEF SameProcs, SameConns
  <2>2. \A v \in Workers : telling'[v] \in {telling[v], NoConnector}
    BY <1>5
  <2> QED
    BY <1>1, <1>4, <1>6, <2>1, <2>2, NothingIs, OthersUntouched
<1> QED
  BY <1>1, <1>7 DEF RuleInv, Calls

LEMMA RunRules ==
    ASSUME UCInv, RuleInv, NEW w \in Workers, RunTimeout(w)
    PROVE  RuleInv'
PROOF
<1>0. PICK k : k = taskOf[first[w]]
  OBVIOUS
<1>1. /\ pc[w] = "run" /\ w \in Threads
      /\ Goto(w, IF heap[first[w]].state = "valid" THEN "proc" ELSE "drop")
      /\ UNCHANGED <<connVars, program, connectors, procs, taskOf, telling, awaiting, lost>>
  BY ThreadsAre DEF RunTimeout, Run, MoveOn
<1>2. UNCHANGED <<heap, tasks, started, first, called, conns>>
  BY <1>1 DEF RunTimeout, Run, MoveOn, sharedVars, taskVars, schedVars, restVars, selectVars,
     connVars
<1>3. /\ \A v \in Workers \ {w} : pc'[v] = pc[v]
      /\ pc'[w] = IF heap[first[w]].state = "valid" THEN "proc" ELSE "drop"
  BY <1>1, ThreadsAre DEF UCInv, Inv, Types, Goto
<1>4. doing[w] = Nothing /\ telling[w] \notin Connectors /\ k \in Connectors
  BY <1>0, <1>1, NotCalling, RunIsKnown
<1>5. \A v \in Workers \ {w} : ~Active(v)
  BY <1>1, OnlyActive DEF UCInv, Active
<1>6. /\ doing'[w] = IF heap[first[w]].state = "valid" THEN At("rm", k, "tell", NULL) ELSE Nothing
      /\ \A u \in Threads \ {w} : doing'[u] = doing[u]
  BY <1>0, <1>1, <1>3, <1>4 DEF RunTimeout, Do, UCInv, CNTypes
<1>7. ASSUME NEW j \in Connectors, j # k \/ heap[first[w]].state # "valid" PROVE Keep(j)'
  <2>1. ~Runs(w, j)
    BY <1>0, <1>7 DEF Runs
  <2>2. WorkersStay(j) /\ OwnTasksStay(j)
    BY <1>1, <1>2, <1>3, <1>4, <2>1, NothingIs
       DEF WorkersStay, OwnTasksStay, Listed, Runs
  <2>3. SameProcs(j) /\ SameConns(j)
    BY <1>1, <1>2 DEF SameProcs, SameConns
  <2>4. PICK k0 : k0 # j /\ doing'[w].connector \in {k0, NoConnector}
    BY <1>6, <1>7, NothingIs DEF At
  <2>5. doing[w].connector \in {k0, NoConnector}
    BY <1>4, NothingIs
  <2> QED
    BY <1>1, <1>6, <2>2, <2>3, <2>4, <2>5, OthersUntouched
<1>8. ASSUME heap[first[w]].state = "valid" PROVE Keep(k)'
  <2>1. Runs(w, k) /\ Keep(k)
    BY <1>0, <1>1, <1>4, <1>8 DEF Runs, RuleInv
  <2>2. k \in awaiting /\ Id(k) = first[w] /\ Idle(k) /\ AwaitOK(k)
    BY <2>1 DEF Keep, RunOK
  <2>3. /\ doing'[w].connector = k /\ doing'[w].at = "rm" /\ doing'[w].then = "tell"
        /\ pc'[w] = "proc"
    BY <1>3, <1>6, <1>8 DEF At
  <2>4. /\ (k \in Existing)' /\ Id(k)' = Id(k) /\ Conn(k)' = Conn(k) /\ Ufd(k)' = Ufd(k)
        /\ k \in awaiting' /\ Conn(k) # NoConn
    BY <1>1, <1>2, <2>2, ClosedIsNoDescriptor DEF AwaitOK, Existing, Id, Conn, Ufd
  <2>5. \A u \in Threads : doing'[u].connector = k <=> u = w
    BY <1>6, <2>2, <2>3 DEF Idle
  <2>6. ~Idle(k)'
    BY <1>1, <2>5 DEF Idle
  <2>7. AwaitOK(k)'
    BY <1>1, <1>2, <2>2, <2>4, <2>6 DEF AwaitOK, IsOpen
  <2>8. CallOK(w, k)'
    BY <1>2, <2>2, <2>3, <2>4, <2>5 DEF CallOK
  <2>9. \A u \in Threads : doing'[u].connector = k => CallOK(u, k)'
    BY <2>5, <2>8
  <2>10. \A f \in Ufds : ProcOK(f, k)'
    BY <1>1, <2>1, <2>3, <2>4, <2>5, <2>6 DEF Keep, ProcOK
  <2>11. \A a \in Addr : TaskOK(a, k)'
    <3>1. \A a \in Addr : Pending(a, k) => Id(k) = a
      BY <2>1, <2>2 DEF Keep, TaskOK
    <3>2. \A a : Pending(a, k)' <=> Pending(a, k)
      BY <1>1, <1>2 DEF Pending, Listed
    <3> QED
      BY <2>3, <2>4, <2>5, <2>6, <3>1, <3>2 DEF TaskOK
  <2>12. \A v \in Workers : RunOK(v, k)' /\ TellOK(v, k)'
    <3> SUFFICES ASSUME NEW v \in Workers PROVE RunOK(v, k)' /\ TellOK(v, k)'
      OBVIOUS
    <3>1. pc'[v] # "run"
      BY <1>3, <1>5, <2>3 DEF Active
    <3>2. telling'[v] = k => pc'[v] \in {"event", "proc", "join"}
      BY <1>1, <1>3, <1>4, <2>1 DEF Keep, TellOK
    <3>3. Id(k) # NULL => taskOf[Id(k)] = k
      BY <2>2 DEF AwaitOK
    <3>4. TellOK(v, k)'
      BY <1>1, <2>4, <3>2, <3>3 DEF TellOK
    <3> QED
      BY <3>1, <3>4 DEF RunOK, Runs
  <2> QED
    BY <2>7, <2>9, <2>10, <2>11, <2>12 DEF Keep
<1>9. \A j \in Connectors : Keep(j)'
  BY <1>7, <1>8
<1>10. Calls' /\ lost' = "none"
  BY <1>1, <1>4, <1>6 DEF RuleInv, Calls, At
<1> QED
  BY <1>9, <1>10 DEF RuleInv
-----------------------------------------------------------------------------
(* The steps of the uxscheduler itself: no call of a connector goes on.    *)

LEMMA LeftAlone ==
    ASSUME UCInv, RuleInv, NEW k \in Connectors, WorkersStay(k), SameProcs(k), OwnTasksStay(k),
           UNCHANGED <<connVars, connectors, doing, telling, awaiting>>
    PROVE  Keep(k)'
PROOF
<1>1. \A a : Pending(a, k) => a \in Addr
  BY ListFacts DEF UCInv, Inv, Types, Pending
<1>2. SameTasks(k)
  BY DEF SameTasks, OwnTasksStay, WorkersStay, Pending
<1>3. SameRuns(k)
  <2> SUFFICES ASSUME NEW w \in Workers
               PROVE  /\ Runs(w, k)' <=> Runs(w, k)
                      /\ Runs(w, k) => first'[w] = first[w]
                      /\ telling[w] = k => pc'[w] \in {"event", "proc", "join"}
    BY DEF SameRuns
  <2>1. CASE pc'[w] = pc[w] /\ first'[w] = first[w]
    <3>1. pc[w] = "run" => first[w] \in Addr
      BY RunIsKnown
    <3>2. Runs(w, k)' <=> Runs(w, k)
      BY <2>1, <3>1 DEF Runs, OwnTasksStay
    <3> QED
      BY <2>1, <3>2 DEF RuleInv, Keep, TellOK
  <2>2. CASE ~(pc'[w] = pc[w] /\ first'[w] = first[w])
    BY <2>2 DEF WorkersStay
  <2> QED
    BY <2>1, <2>2
<1>4. SameCalls(k) /\ SameSelf(k)
  BY DEF SameCalls, SameSelf, SameConns, WorkersStay, connVars
<1> QED
  BY <1>2, <1>3, <1>4, SameKeeps DEF Untouched, RuleInv

(* What is freed is known to nobody, and the rest as before.               *)
LEMMA SchedulerForgets ==
    ASSUME UCInv, Inv', SchedulerStep
    PROVE  /\ UNCHANGED <<connVars, program, connectors, doing, telling, awaiting, lost>>
           /\ \A a \in Addr : taskOf'[a] = IF heap'[a] = Free THEN NoConnector ELSE taskOf[a]
           /\ \A a \in Addr : heap'[a] = heap[a] => taskOf'[a] = taskOf[a]
           /\ \A k \in Connectors : SameProcs(k)
PROOF
<1>1. ForgetFreed /\ UNCHANGED <<connVars, program, connectors, doing, telling, awaiting, lost>>
  BY DEF SchedulerStep
<1>2. \A a \in Addr : taskOf'[a] = IF heap'[a] = Free THEN NoConnector ELSE taskOf[a]
  BY <1>1 DEF ForgetFreed
<1>3. \A a \in Addr : heap[a] = Free => taskOf[a] = NoConnector
  BY DEF UCInv, Known
<1>4. \A f \in Ufds : procs'[f] \in {procs[f], NoConnector}
  BY <1>1 DEF ForgetFreed
<1>5. ASSUME NEW k \in Connectors PROVE SameProcs(k)
  <2>1. [proc |-> "connect", connector |-> k] # NoConnector
    BY NoConnectorIsNone
  <2> QED
    BY <1>4, <2>1 DEF SameProcs
<1> QED
  BY <1>1, <1>2, <1>3, <1>5

(* Where workers go that begin or end no call of a connector and no task.  *)
Moves(w) ==
    \/ pc'[w] = pc[w] /\ first'[w] = first[w] /\ called'[w] = called[w]
    \/ /\ pc[w] \notin {"event", "proc", "run"} /\ pc'[w] # "run"
       /\ pc[w] = "join" => pc'[w] \in {"event", "proc"}

LEMMA MovesStay ==
    ASSUME RuleInv, started' = started, telling' = telling, NEW k \in Connectors,
           \A w \in Workers : Moves(w)
    PROVE  WorkersStay(k)
PROOF
<1> SUFFICES ASSUME NEW w \in Workers,
                    ~(pc'[w] = pc[w] /\ first'[w] = first[w] /\ called'[w] = called[w])
             PROVE  /\ doing[w].connector # k /\ ~Runs(w, k) /\ ~Runs(w, k)'
                    /\ telling'[w] = k => pc'[w] \in {"event", "proc", "join"}
  BY DEF WorkersStay
<1>1. /\ pc[w] \notin {"event", "proc", "run"} /\ pc'[w] # "run"
      /\ pc[w] = "join" => pc'[w] \in {"event", "proc"}
  BY DEF Moves
<1>2. doing[w].connector # k
  BY <1>1, ThreadsAre DEF RuleInv, Keep, CallOK
<1>3. telling[w] = k => pc[w] = "join"
  BY <1>1 DEF RuleInv, Keep, TellOK
<1> QED
  BY <1>1, <1>2, <1>3 DEF Runs

LEMMA GoesOn ==
    ASSUME UCInv, NEW t \in Threads, NEW label, pc' = [pc EXCEPT ![t] = label],
           UNCHANGED <<first, called>>,
           pc[t] \notin {"event", "proc", "run"} /\ label # "run",
           pc[t] = "join" => label \in {"event", "proc"} \/ t \in Clients
    PROVE  \A w \in Workers : Moves(w)
PROOF
<1>1. pc'[t] = label /\ \A u \in Threads \ {t} : pc'[u] = pc[u]
  BY DEF UCInv, Inv, Types
<1> QED
  BY <1>1, ThreadsAre DEF Moves

LEMMA OwnerMoves ==
    ASSUME UCInv, NEW t \in Threads, OwnerStep(t), ~StopLock(t)
    PROVE  \A w \in Workers : Moves(w)
PROOF
<1>1. CASE UNCHANGED <<pc, first, called>>
  BY <1>1 DEF Moves
<1>2. CASE /\ StartLock(t) /\ ~(UNCHANGED <<pc, first, called>>)
  <2>1. PICK w \in Workers :
          /\ pc[w] = "none" /\ tid = NoThread
          /\ pc' = [pc EXCEPT ![t] = "arm", ![w] = "loop"]
          /\ pc[t] = Resting(t) /\ UNCHANGED <<first, called>>
    BY <1>2 DEF StartLock, CanCall, Spawn, restVars, selectVars, Abort
  <2>2. \A u \in Workers : ~Active(u)
    BY <2>1, NoWorker DEF UCInv, Turns, Named
  <2>3. t \in Clients
    BY <2>1, <2>2, ThreadsAre DEF Active, Resting
  <2>4. pc'[w] = "loop" /\ \A u \in Threads \ {t, w} : pc'[u] = pc[u]
    BY <2>1, <2>3, ThreadsAre DEF UCInv, Inv, Types
  <2> QED
    BY <2>1, <2>3, <2>4, ThreadsAre DEF Moves
<1>3. CASE StartArm(t) \/ DestroyStopped(t) \/ DestroyClear(t) \/ DestroyClearTasks(t)
  <2>1. \/ pc' = [pc EXCEPT ![t] = "mark"] /\ pc[t] = "arm"
        \/ pc' = [pc EXCEPT ![t] = "clear"] /\ pc[t] = "destroy"
        \/ pc' = [pc EXCEPT ![t] = "cleartasks"] /\ pc[t] = "clear"
        \/ pc' = [pc EXCEPT ![t] = "dispose"] /\ pc[t] = "cleartasks"
    BY <1>3 DEF StartArm, DestroyStopped, DestroyClear, DestroyClearTasks, MoveOn, Goto
  <2>2. UNCHANGED <<first, called>>
    BY <1>3 DEF StartArm, DestroyStopped, DestroyClear, DestroyClearTasks, MoveOn, restVars,
       selectVars
  <2> QED
    BY <2>1, <2>2, GoesOn
<1>4. CASE StartMark(t) \/ (StopJoin(t) /\ ~(UNCHANGED <<pc, first, called>>))
  <2>1. /\ pc[t] \in {"mark", "join"} /\ UNCHANGED <<first, called>>
        /\ \/ pc' = [pc EXCEPT ![t] = Resting(t)]
           \/ pc' = [pc EXCEPT ![t] = "clear"] /\ t \in Clients
    BY <1>4 DEF StartMark, StopJoin, Goto, restVars, selectVars
  <2>2. Resting(t) \in {"idle", "event", "proc"} /\ (t \notin Clients => Resting(t) # "idle")
    BY DEF Resting
  <2> QED
    BY <2>1, <2>2, GoesOn
<1>5. CASE Destroy(t) \/ (DestroyFree(t) /\ ~(UNCHANGED <<pc, first, called>>))
  <2>1. /\ pc[t] \in {"idle", "dispose"} /\ UNCHANGED <<first, called>>
        /\ pc' = [pc EXCEPT ![t] = "destroy"] \/ pc' = [pc EXCEPT ![t] = "idle"]
    BY <1>5 DEF Destroy, DestroyFree, CanCall, Resting, Goto, selectVars, Abort
  <2> QED
    BY <2>1, GoesOn
<1> QED
  BY <1>1, <1>2, <1>3, <1>4, <1>5 DEF OwnerStep

(* A worker that does not take a task.                                     *)
LEMMA WorkerGoesOn ==
    ASSUME UCInv, NEW v \in Workers,
           \/ Loop(v) \/ LockWait(v) \/ CheckStarted(v) \/ Prepare(v)
           \/ SelectReady(v) \/ SelectTimesOut(v) \/ Find(v) \/ Drop(v)
           \/ (TakeTask(v) /\ ~FirstIsDue)
           \/ Leave(v) \/ Forget(v) \/ Pend(v) \/ Halt(v)
    PROVE  /\ \A w \in Workers : Moves(w)
           /\ started' = started
PROOF
<1>1. started' = started
  BY DEF Loop, LockWait, CheckStarted, Prepare, SelectReady, SelectTimesOut, Find, Drop,
     TakeTask, Leave, Forget, Pend, Halt, MoveOn, sharedVars, schedVars
<1>2. CASE pc' = pc
  <2>1. ~Drop(v)
    <3>1. Drop(v) => pc[v] = "drop" /\ pc' = [pc EXCEPT ![v] = "loop"]
      BY DEF Drop, Goto
    <3> QED
      BY <1>2, <3>1, ThreadsAre DEF UCInv, Inv, Types
  <2>2. UNCHANGED <<first, called>>
    BY <2>1 DEF Loop, LockWait, CheckStarted, Prepare, SelectReady, SelectTimesOut, Find,
       TakeTask, Leave, Forget, Pend, Halt, MoveOn, restVars, selectVars
  <2> QED
    BY <1>1, <1>2, <2>2 DEF Moves
<1>3. CASE ~(pc' = pc)
  <2>1. /\ pc[v] \notin {"event", "proc", "run", "join"}
        /\ \E label \in {"leave", "lock", "check", "prepare", "select", "timer", "find", "call",
                         "loop", "forget", "pend", "halt", "none"} : Goto(v, label)
    BY <1>3 DEF Loop, LockWait, CheckStarted, Prepare, SelectReady, SelectTimesOut, Find, Drop,
       TakeTask, Leave, Forget, Pend, Halt, MoveOn
  <2>2. PICK label \in {"leave", "lock", "check", "prepare", "select", "timer", "find", "call",
                        "loop", "forget", "pend", "halt", "none"} : Goto(v, label)
    BY <2>1
  <2>3. pc'[v] = label /\ \A u \in Workers \ {v} : pc'[u] = pc[u]
    BY <2>2, ThreadsAre DEF Goto, UCInv, Inv, Types
  <2>4. \A u \in Workers \ {v} : first'[u] = first[u] /\ called'[u] = called[u]
    BY DEF Loop, LockWait, CheckStarted, Prepare, SelectReady, SelectTimesOut, Find, Drop,
       TakeTask, Leave, Forget, Pend, Halt, MoveOn, restVars, selectVars, UCInv, Inv, Types
  <2> QED
    BY <1>1, <2>1, <2>3, <2>4 DEF Moves
<1> QED
  BY <1>2, <1>3

LEMMA TimeMoves ==
    ASSUME UCInv, NEW t \in Threads, RmReturn(t) \/ Timeout(t) \/ Spurious(t)
    PROVE  /\ \A w \in Workers : Moves(w)
           /\ started' = started
PROOF
<1>1. UNCHANGED <<started, first, called>>
  BY DEF RmReturn, Timeout, Spurious, sharedVars, schedVars, restVars, selectVars
<1>2. CASE RmReturn(t)
  <2>1. Resting(t) \in {"idle", "event", "proc"} /\ (t \notin Clients => Resting(t) # "idle")
    BY DEF Resting
  <2>2. pc[t] = "rm" /\ pc' = [pc EXCEPT ![t] = Resting(t)]
    BY <1>2 DEF RmReturn, Goto
  <2> QED
    BY <1>1, <2>1, <2>2, GoesOn
<1>3. CASE Timeout(t) \/ Spurious(t)
  BY <1>1, <1>3 DEF Timeout, Spurious, Moves
<1> QED
  BY <1>2, <1>3

(* Of a uxscheduler that is not started nobody waits for an outcome, and   *)
(* nothing is left to be run.                                              *)
LEMMA StoppedHas ==
    ASSUME UCInv, RuleInv, ~started, NEW k \in Connectors
    PROVE  /\ k \notin awaiting
           /\ \A a \in Addr : ~Pending(a, k)
           /\ \A w \in Workers : ~Runs(w, k)
           /\ \A t \in Threads : doing[t].connector = k =>
                doing[t].at \in {"rm", "cancel"} /\ doing[t].then # "tell"
PROOF
<1>1. Keep(k)
  BY DEF RuleInv
<1>2. k \notin awaiting
  BY <1>1 DEF Keep, AwaitOK
<1>3. ASSUME NEW t \in Threads, doing[t].connector = k
      PROVE  doing[t].then # "tell" /\ doing[t].at \notin {"watch", "assert", "unwatch"}
  BY <1>1, <1>2, <1>3 DEF Keep, CallOK
<1>4. ASSUME NEW a \in Addr, Pending(a, k) PROVE FALSE
  <2>1. TaskOK(a, k)
    BY <1>1 DEF Keep
  <2> QED
    BY <1>2, <1>3, <1>4, <2>1 DEF TaskOK, Idle
<1>5. \A t \in Threads : doing[t].connector = k => doing[t].at \in Labels \ {"out"}
  BY <1>1 DEF Keep, CallOK, UCInv, CNTypes, Doing
<1>6. \A w \in Workers : ~Runs(w, k)
  BY <1>1, <1>2 DEF Keep, RunOK
<1> QED
  BY <1>2, <1>3, <1>4, <1>5, <1>6 DEF Labels

LEMMA StoppedKeeps ==
    ASSUME UCInv, RuleInv, ~started, NEW k \in Connectors, SameProcs(k),
           UNCHANGED <<connVars, connectors, doing, telling, awaiting>>,
           \A a \in Addr : ~Pending(a, k)', \A w \in Workers : ~Runs(w, k)',
           \A w \in Workers : TellOK(w, k)',
           \A w \in Workers : pc[w] \in {"event", "proc"} => pc'[w] = pc[w]
    PROVE  Keep(k)'
PROOF
<1>1. /\ k \notin awaiting /\ Keep(k)
      /\ \A t \in Threads : doing[t].connector = k =>
           doing[t].at \in {"rm", "cancel"} /\ doing[t].then # "tell"
  BY StoppedHas DEF RuleInv
<1>2. ASSUME NEW t \in Threads, doing[t].connector = k PROVE CallOK(t, k)'
  <2>1. CallOK(t, k)
    BY <1>1, <1>2 DEF Keep
  <2>2. (k \in Existing)' <=> k \in Existing
    BY DEF Existing
  <2>3. Conn(k)' = Conn(k) /\ Id(k)' = Id(k)
    BY DEF Conn, Id
  <2> QED
    BY <1>1, <1>2, <2>1, <2>2, <2>3 DEF CallOK
<1>3. ASSUME NEW f \in Ufds PROVE ProcOK(f, k)'
  <2>1. procs'[f] = [proc |-> "connect", connector |-> k] => procs[f] = procs'[f]
    BY DEF SameProcs
  <2>2. ProcOK(f, k)
    BY <1>1 DEF Keep
  <2> QED
    BY <2>1, <2>2 DEF ProcOK, Existing, Conn, Ufd, Idle, connVars
<1> QED
  BY <1>1, <1>2, <1>3 DEF Keep, TaskOK, RunOK

(* Start of a stopped uxscheduler.                                         *)
LEMMA StartRules ==
    ASSUME UCInv, RuleInv, Inv', NEW t \in Threads, SchedulerStep, StartLock(t),
           started' # started
    PROVE  \A k \in Connectors : Keep(k)'
PROOF
<1>1. /\ ~started /\ tid = NoThread /\ started' = TRUE
      /\ UNCHANGED <<heap, tasks, first, called>>
  BY DEF StartLock, Spawn, Abort, sharedVars, schedVars, taskVars, restVars, selectVars
<1>2. \A w \in Workers : ~Active(w)
  BY <1>1, NoWorker DEF UCInv, Turns, Named
<1>3. OwnerStep(t) /\ ~StopLock(t)
  BY <1>1 DEF OwnerStep, StopLock
<1>4. \A w \in Workers : Moves(w)
  BY <1>3, OwnerMoves
<1>5. UNCHANGED <<connVars, connectors, doing, telling, awaiting>> /\ taskOf' = taskOf
  <2>1. \A a \in Addr : taskOf'[a] = taskOf[a]
    BY <1>1, SchedulerForgets
  <2>2. taskOf' = [a \in Addr |-> taskOf'[a]]
    BY DEF SchedulerStep, ForgetFreed
  <2> QED
    BY <2>1, <2>2, SchedulerForgets DEF UCInv, CNTypes
<1> SUFFICES ASSUME NEW k \in Connectors PROVE Keep(k)'
  OBVIOUS
<1>6. \A a \in Addr : ~Pending(a, k)'
  BY <1>1, <1>5, StoppedHas DEF Pending, Listed
<1>7. \A w \in Workers : pc[w] \notin {"event", "proc", "run", "join"} /\ pc'[w] # "run"
  BY <1>2, <1>4 DEF Active, Moves
<1>8. \A w \in Workers : ~Runs(w, k)' /\ TellOK(w, k)'
  <2> SUFFICES ASSUME NEW w \in Workers PROVE ~Runs(w, k)' /\ TellOK(w, k)'
    OBVIOUS
  <2>1. doing[w] = Nothing /\ telling[w] \notin Connectors
    BY <1>7, NotCalling
  <2>2. doing'[w].connector # k /\ telling'[w] # k
    BY <1>5, <2>1, NothingIs
  <2> QED
    BY <1>7, <2>2 DEF Runs, TellOK
<1> QED
  BY <1>1, <1>5, <1>6, <1>7, <1>8, SchedulerForgets, StoppedKeeps

(* The tasks of a stopped uxscheduler are freed.                           *)
LEMMA ClearRules ==
    ASSUME UCInv, RuleInv, Inv', NEW t \in Threads, SchedulerStep, DestroyClearTasks(t)
    PROVE  \A k \in Connectors : Keep(k)'
PROOF
<1>1. /\ pc[t] = "cleartasks" /\ ListClear
      /\ UNCHANGED <<started, first, called>>
  BY DEF DestroyClearTasks, schedVars, restVars, selectVars
<1>2. ~started
  <2>1. t \in Clients
    BY <1>1, OnlyClients DEF UCInv, Inv, Types
  <2> QED
    BY <1>1, <2>1, ThreadsAre DEF UCInv, Turns, EndedStopped, Clearing
<1>3. \A w \in Workers : Moves(w)
  BY OwnerMoves DEF OwnerStep, StopLock, CanCall, Resting, DestroyClearTasks
<1>4. /\ UNCHANGED <<connVars, connectors, doing, telling, awaiting>>
      /\ \A k \in Connectors : SameProcs(k)
  BY SchedulerForgets
<1> SUFFICES ASSUME NEW k \in Connectors PROVE Keep(k)'
  OBVIOUS
<1>5. \A a \in Addr : ~Pending(a, k)'
  BY <1>1, ListFacts DEF Pending, Listed, ListClear
<1>6. ASSUME NEW w \in Workers PROVE ~Runs(w, k)'
  <2> SUFFICES ASSUME pc'[w] = "run" PROVE ~Runs(w, k)'
    BY DEF Runs
  <2>1. pc[w] = "run" /\ first'[w] = first[w]
    BY <1>3 DEF Moves
  <2>2. first[w] \in Addr \ Listed
    BY <2>1, RunIsKnown
  <2>3. heap'[first[w]] = heap[first[w]]
    BY <1>1, <2>2 DEF ListClear
  <2>4. taskOf'[first[w]] = taskOf[first[w]]
    BY <2>2, <2>3, SchedulerForgets
  <2> QED
    BY <1>2, <2>1, <2>3, <2>4, StoppedHas DEF Runs
<1>7. ASSUME NEW w \in Workers PROVE TellOK(w, k)'
  <2>1. telling[w] = k => pc[w] \in {"event", "proc", "join"}
    BY DEF RuleInv, Keep, TellOK
  <2>2. telling[w] = k => pc'[w] \in {"event", "proc", "join"}
    BY <1>3, <2>1 DEF Moves
  <2> QED
    BY <1>1, <1>2, <1>4, <2>2 DEF TellOK
<1> QED
  BY <1>2, <1>3, <1>4, <1>5, <1>6, <1>7, StoppedKeeps DEF Moves

(* Stop, which no call or outcome may meet.                                *)
LEMMA StopRules ==
    ASSUME UCInv, RuleInv, Inv', program.rules = Rules, NEW t \in Threads, SchedulerStep,
           OwnerMay(t), StopLock(t)
    PROVE  \A k \in Connectors : Keep(k)'
PROOF
<1>1. /\ started /\ started' = FALSE /\ pc' = [pc EXCEPT ![t] = "join"]
      /\ UNCHANGED <<heap, tasks, first, called>>
  BY DEF StopLock, Goto, taskVars, restVars, selectVars
<1>2. awaiting = {} /\ \A u \in Threads : doing[u] = Nothing
  BY <1>1, OutIsNothing DEF OwnerMay, Rules
<1>3. /\ UNCHANGED <<connVars, connectors, doing, telling, awaiting>>
      /\ \A a \in Addr : taskOf'[a] = taskOf[a]
  BY <1>1, SchedulerForgets
<1>4. \A w \in Workers : pc'[w] \in {pc[w], "join"}
  BY <1>1, ThreadsAre DEF UCInv, Inv, Types
<1> SUFFICES ASSUME NEW k \in Connectors PROVE Keep(k)'
  OBVIOUS
<1>5. Idle(k) /\ Keep(k) /\ k \notin awaiting
  BY <1>2, NothingIs DEF Idle, RuleInv
<1>6. /\ \A f \in Ufds : procs[f] # [proc |-> "connect", connector |-> k]
      /\ \A a \in Addr : ~Pending(a, k)
      /\ \A w \in Workers : ~Runs(w, k)
  BY <1>5, IdleHas
<1>7. \A f \in Ufds : procs'[f] # [proc |-> "connect", connector |-> k]
  BY <1>6, SchedulerForgets DEF SameProcs
<1>8. \A a \in Addr : ~Pending(a, k)'
  BY <1>1, <1>3, <1>6 DEF Pending, Listed
<1>9. \A w \in Workers : ~Runs(w, k)'
  <2> SUFFICES ASSUME NEW w \in Workers, pc[w] = "run" PROVE ~Runs(w, k)'
    BY <1>4 DEF Runs
  <2> QED
    BY <1>1, <1>3, <1>6, RunIsKnown DEF Runs
<1>10. \A w \in Workers : TellOK(w, k)'
  BY <1>1, <1>3, <1>4, <1>5 DEF Keep, TellOK
<1>11. Idle(k)' /\ k \notin awaiting'
  BY <1>3, <1>5 DEF Idle
<1> QED
  BY <1>7, <1>8, <1>9, <1>10, <1>11, IdleKeeps

(* While the worker is between its tasks, or drops one, only clients are   *)
(* in a call.                                                              *)
LEMMA BetweenCalls ==
    ASSUME UCInv, RuleInv, NEW w \in Workers, pc[w] \in {"timer", "drop"}, NEW k \in Connectors
    PROVE  /\ \A v \in Workers : pc[v] # "run" /\ doing[v] = Nothing /\ telling[v] # k
           /\ \A t \in Threads : doing[t].connector = k =>
                /\ t \notin Workers /\ doing[t].then # "tell" /\ Id(k) = NULL
                /\ doing[t].at = "watch" => Pending(doing[t].task, k)
                /\ doing[t].at # "watch" => k \notin awaiting
           /\ k \in awaiting /\ Idle(k) => Pending(Id(k), k)
PROOF
<1>1. \A v \in Workers : pc[v] \in {"none", "pend", "halt", "timer", "drop"}
  BY OnlyActive DEF Active
<1>2. \A v \in Workers : doing[v] = Nothing /\ telling[v] # k
  BY <1>1, NotCalling
<1>3. Keep(k)
  BY DEF RuleInv
<1>4. ASSUME NEW t \in Threads, doing[t].connector = k
      PROVE  /\ t \notin Workers /\ doing[t].then # "tell" /\ Id(k) = NULL
             /\ doing[t].at = "watch" => Pending(doing[t].task, k)
             /\ doing[t].at # "watch" => k \notin awaiting
  <2>1. t \notin Workers /\ t \in Clients
    BY <1>2, <1>4, NothingIs, ThreadsAre
  <2>2. CallOK(t, k) /\ doing[t].at \in Labels
    BY <1>3, <1>4 DEF Keep, UCInv, CNTypes, Doing
  <2> QED
    BY <1>4, <2>1, <2>2 DEF CallOK, Labels
<1>5. k \in awaiting /\ Idle(k) => Pending(Id(k), k)
  BY <1>1, <1>3 DEF Keep, AwaitOK, Runs
<1> QED
  BY <1>1, <1>2, <1>4, <1>5

LEMMA BetweenKeeps ==
    ASSUME UCInv, RuleInv, NEW w \in Workers, pc[w] \in {"timer", "drop"}, NEW k \in Connectors,
           UNCHANGED <<connVars, connectors, doing, telling, awaiting, started>>, SameProcs(k),
           \A a \in Addr : Pending(a, k)' => Pending(a, k),
           \A t \in Threads : doing[t].connector = k /\ doing[t].at = "watch" =>
                Pending(doing[t].task, k)',
           k \in awaiting /\ Id(k) # NULL => taskOf'[Id(k)] = k,
           k \in awaiting /\ Idle(k) => Pending(Id(k), k)' \/ Runs(w, k)',
           \A v \in Workers : Runs(v, k)' => k \in awaiting /\ Id(k) = first'[v] /\ Idle(k)
    PROVE  Keep(k)'
PROOF
<1>1. /\ \A v \in Workers : doing[v] = Nothing /\ telling[v] # k
      /\ \A t \in Threads : doing[t].connector = k =>
           /\ t \notin Workers /\ doing[t].then # "tell" /\ Id(k) = NULL
           /\ doing[t].at = "watch" => Pending(doing[t].task, k)
           /\ doing[t].at # "watch" => k \notin awaiting
  BY BetweenCalls
<1>2. Keep(k)
  BY DEF RuleInv
<1>3. /\ (k \in Existing)' <=> k \in Existing
      /\ Idle(k)' <=> Idle(k)
      /\ Conn(k)' = Conn(k) /\ Id(k)' = Id(k) /\ Ufd(k)' = Ufd(k) /\ conns' = conns
  BY DEF Existing, Conn, Id, Ufd, Idle, connVars
<1>4. k \in awaiting' => AwaitOK(k)'
  <2> SUFFICES ASSUME k \in awaiting PROVE AwaitOK(k)'
    OBVIOUS
  <2>1. AwaitOK(k)
    BY <1>2 DEF Keep
  <2>2. Conn(k)' \in Conns /\ IsOpen(Conn(k))' /\ conns'[Conn(k)'].refs = 1
    BY <1>3, <2>1 DEF AwaitOK, IsOpen
  <2>3. Id(k)' # NULL => taskOf'[Id(k)'] = k
    BY <1>3
  <2> QED
    BY <1>3, <2>1, <2>2, <2>3 DEF AwaitOK
<1>5. ASSUME NEW t \in Threads, doing[t].connector = k PROVE CallOK(t, k)'
  <2>1. CallOK(t, k)
    BY <1>2, <1>5 DEF Keep
  <2>2. doing[t].at = "watch" => Pending(doing[t].task, k)'
    BY <1>5
  <2> QED
    BY <1>1, <1>3, <1>5, <2>1, <2>2 DEF CallOK
<1>6. ASSUME NEW f \in Ufds PROVE ProcOK(f, k)'
  <2>1. procs'[f] = [proc |-> "connect", connector |-> k] => procs[f] = procs'[f]
    BY DEF SameProcs
  <2>2. ProcOK(f, k)
    BY <1>2 DEF Keep
  <2> QED
    BY <1>3, <2>1, <2>2 DEF ProcOK
<1>7. ASSUME NEW a \in Addr PROVE TaskOK(a, k)'
  BY <1>2, <1>3 DEF Keep, TaskOK
<1>8. ASSUME NEW v \in Workers PROVE RunOK(v, k)' /\ TellOK(v, k)'
  <2>1. doing[v].connector # k /\ telling[v] # k
    BY <1>1, NothingIs
  <2> QED
    BY <1>3, <2>1 DEF RunOK, TellOK
<1> QED
  BY <1>4, <1>5, <1>6, <1>7, <1>8 DEF Keep

(* The worker takes a task, that no call is about to remember.             *)
LEMMA TakeRules ==
    ASSUME UCInv, RuleInv, Inv', SchedulerStep, NEW w \in Workers, TakeTask(w), FirstIsDue,
           \A t \in Threads : doing[t].task # ListFirst
    PROVE  \A k \in Connectors : Keep(k)'
PROOF
<1> DEFINE a == ListFirst
<1>1. /\ pc[w] = "timer" /\ tasks # <<>> /\ ListDelFirst /\ heap' = heap
      /\ first' = [first EXCEPT ![w] = a] /\ pc' = [pc EXCEPT ![w] = "run"]
      /\ started' = started
  BY DEF TakeTask, FirstIsDue, Goto, ListDelFirst
<1>2. a \in Listed /\ Listed' = Listed \ {a} /\ a \in Addr
  BY <1>1, ListDelFirstKeeps, ListFacts DEF UCInv, Inv, Types, HeapOwnership, ListedAreTasks
<1>3. first'[w] = a /\ pc'[w] = "run" /\ \A v \in Workers \ {w} : pc'[v] = pc[v]
  BY <1>1, ThreadsAre DEF UCInv, Inv, Types
<1>4. /\ UNCHANGED <<connVars, connectors, doing, telling, awaiting, started>>
      /\ \A k \in Connectors : SameProcs(k)
      /\ \A b \in Addr : taskOf'[b] = taskOf[b]
  BY <1>1, SchedulerForgets
<1> SUFFICES ASSUME NEW k \in Connectors PROVE Keep(k)'
  OBVIOUS
<1> HIDE DEF a
<1>5. \A b \in Addr : Pending(b, k)' <=> Pending(b, k) /\ b # a
  BY <1>1, <1>2, <1>4 DEF Pending
<1>6. \A b : Pending(b, k) => b \in Addr
  BY ListFacts DEF UCInv, Inv, Types, Pending
<1>7. /\ \A v \in Workers : pc[v] # "run"
      /\ \A t \in Threads : doing[t].connector = k =>
           /\ t \notin Workers /\ doing[t].then # "tell"
           /\ doing[t].at = "watch" => Pending(doing[t].task, k)
      /\ k \in awaiting /\ Idle(k) => Pending(Id(k), k)
  BY <1>1, BetweenCalls
<1>8. \A v \in Workers : Runs(v, k)' <=> v = w /\ Pending(a, k)
  BY <1>1, <1>2, <1>3, <1>4, <1>7 DEF Runs, Pending
<1>9. Pending(a, k) => k \in awaiting /\ Id(k) = a /\ Idle(k)
  <2> SUFFICES ASSUME Pending(a, k) PROVE k \in awaiting /\ Id(k) = a /\ Idle(k)
    OBVIOUS
  <2>1. TaskOK(a, k)
    BY <1>2 DEF RuleInv, Keep
  <2>2. ASSUME NEW t \in Threads, doing[t].connector = k PROVE FALSE
    <3>1. doing[t].at # "watch"
      BY <2>1, <2>2 DEF TaskOK, a
    <3> QED
      BY <1>7, <2>1, <2>2, <3>1 DEF TaskOK
  <2> QED
    BY <2>1, <2>2 DEF TaskOK, Idle
<1>10. \A t \in Threads : doing[t].connector = k /\ doing[t].at = "watch" =>
         Pending(doing[t].task, k)'
  <2> SUFFICES ASSUME NEW t \in Threads, doing[t].connector = k, doing[t].at = "watch"
               PROVE  Pending(doing[t].task, k)'
    OBVIOUS
  <2>1. Pending(doing[t].task, k) /\ doing[t].task # a /\ doing[t].task \in Addr
    BY <1>6, <1>7 DEF a
  <2>2. doing'[t].task = doing[t].task
    BY <1>4
  <2> QED
    BY <1>5, <2>1, <2>2 DEF Pending
<1>11. k \in awaiting /\ Id(k) # NULL => taskOf'[Id(k)] = k
  <2>1. k \in awaiting => AwaitOK(k)
    BY DEF RuleInv, Keep
  <2>2. k \in Existing => Id(k) \in Addr \cup {NULL}
    BY ConnectorTypes DEF UCInv, Id
  <2> QED
    BY <1>4, <2>1, <2>2 DEF AwaitOK
<1>12. k \in awaiting /\ Idle(k) => Pending(Id(k), k)' \/ Runs(w, k)'
  <2> SUFFICES ASSUME k \in awaiting, Idle(k), Id(k) # a PROVE Pending(Id(k), k)'
    BY <1>7, <1>8
  <2>1. Pending(Id(k), k) /\ Id(k) \in Addr
    BY <1>6, <1>7
  <2>2. Id(k)' = Id(k)
    BY <1>4 DEF Id
  <2> QED
    BY <1>5, <2>1, <2>2 DEF Pending
<1>13. \A v \in Workers : Runs(v, k)' => k \in awaiting /\ Id(k) = first'[v] /\ Idle(k)
  BY <1>3, <1>8, <1>9
<1> QED
  BY <1>1, <1>4, <1>5, <1>10, <1>11, <1>12, <1>13, BetweenKeeps

(* The worker frees the task that it ran, or that was cancelled.           *)
LEMMA DropRules ==
    ASSUME UCInv, RuleInv, Inv', SchedulerStep, NEW w \in Workers, Drop(w)
    PROVE  \A k \in Connectors : Keep(k)'
PROOF
<1> DEFINE a == first[w]
<1>1. /\ pc[w] = "drop" /\ heap' = [heap EXCEPT ![a] = Free] /\ tasks' = tasks
      /\ pc' = [pc EXCEPT ![w] = "loop"] /\ started' = started
  BY DEF Drop, TaskDestroy, Goto, schedVars
<1>2. a \in Addr \ Listed /\ Listed' = Listed
  BY <1>1, RunIsKnown DEF Listed
<1>3. \A b \in Addr \ {a} : heap'[b] = heap[b]
  BY <1>1 DEF UCInv, Inv, Types, TaskTypeOK
<1>4. /\ UNCHANGED <<connVars, connectors, doing, telling, awaiting, started>>
      /\ \A k \in Connectors : SameProcs(k)
      /\ \A b \in Addr \ {a} : taskOf'[b] = taskOf[b]
  BY <1>1, <1>3, SchedulerForgets
<1>5. \A v \in Workers : pc'[v] \in {pc[v], "loop"}
  BY <1>1, ThreadsAre DEF UCInv, Inv, Types
<1> SUFFICES ASSUME NEW k \in Connectors PROVE Keep(k)'
  OBVIOUS
<1> HIDE DEF a
<1>6. \A b : Pending(b, k) => b \in Addr \ {a}
  BY <1>2, ListFacts DEF UCInv, Inv, Types, Pending
<1>7. \A b \in Addr : Pending(b, k)' <=> Pending(b, k)
  BY <1>2, <1>3, <1>4 DEF Pending
<1>8. /\ \A v \in Workers : pc[v] # "run"
      /\ \A t \in Threads : doing[t].connector = k =>
           /\ Id(k) = NULL /\ (doing[t].at = "watch" => Pending(doing[t].task, k))
      /\ k \in awaiting /\ Idle(k) => Pending(Id(k), k)
  BY <1>1, BetweenCalls
<1>9. \A v \in Workers : ~Runs(v, k)'
  BY <1>5, <1>8 DEF Runs
<1>10. \A t \in Threads : doing[t].connector = k /\ doing[t].at = "watch" =>
         Pending(doing[t].task, k)'
  <2> SUFFICES ASSUME NEW t \in Threads, doing[t].connector = k, doing[t].at = "watch"
               PROVE  Pending(doing[t].task, k)'
    OBVIOUS
  <2>1. Pending(doing[t].task, k) /\ doing[t].task \in Addr
    BY <1>6, <1>8
  <2>2. doing'[t].task = doing[t].task
    BY <1>4
  <2> QED
    BY <1>7, <2>1, <2>2 DEF Pending
<1>11. k \in awaiting /\ Id(k) # NULL => taskOf'[Id(k)] = k
  <2> SUFFICES ASSUME k \in awaiting, Id(k) # NULL PROVE taskOf'[Id(k)] = k
    OBVIOUS
  <2>1. Idle(k)
    BY <1>8 DEF Idle
  <2>2. Pending(Id(k), k) /\ Id(k) \in Addr \ {a}
    BY <1>6, <1>8, <2>1
  <2> QED
    BY <1>4, <2>2 DEF Pending
<1>12. k \in awaiting /\ Idle(k) => Pending(Id(k), k)'
  <2> SUFFICES ASSUME k \in awaiting, Idle(k) PROVE Pending(Id(k), k)'
    OBVIOUS
  <2>1. Pending(Id(k), k) /\ Id(k) \in Addr
    BY <1>6, <1>8
  <2>2. Id(k)' = Id(k)
    BY <1>4 DEF Id
  <2> QED
    BY <1>7, <2>1, <2>2 DEF Pending
<1> QED
  BY <1>1, <1>4, <1>7, <1>9, <1>10, <1>11, <1>12, BetweenKeeps

AllKeep == \A k \in Connectors : Keep(k)

LEMMA SchedulerRules ==
    ASSUME UCInv, RuleInv, Inv', program.rules = Rules, SchedulerStep
    PROVE  RuleInv'
PROOF
<1>1. /\ UNCHANGED <<connVars, program, connectors, doing, telling, awaiting, lost>>
      /\ \A a \in Addr : heap'[a] = heap[a] => taskOf'[a] = taskOf[a]
      /\ \A k \in Connectors : SameProcs(k)
  BY SchedulerForgets
<1>2. ASSUME started' = started, heap' = heap, tasks' = tasks, \A w \in Workers : Moves(w)
      PROVE  AllKeep'
  <2>1. \A k \in Connectors : WorkersStay(k)
    BY <1>1, <1>2, MovesStay
  <2>2. \A k \in Connectors : OwnTasksStay(k)
    BY <1>1, <1>2 DEF OwnTasksStay, Listed
  <2> QED
    BY <1>1, <2>1, <2>2, LeftAlone DEF AllKeep
<1>3. ASSUME NEW t \in Threads, OwnerMay(t), OwnerStep(t)
      PROVE  AllKeep'
  <2>1. CASE StopLock(t)
    BY <1>3, <2>1, StopRules DEF AllKeep
  <2>2. CASE StartLock(t) /\ started' # started
    BY <2>2, StartRules DEF AllKeep
  <2>3. CASE DestroyClearTasks(t)
    BY <2>3, ClearRules DEF AllKeep
  <2>4. CASE ~(StopLock(t) \/ (StartLock(t) /\ started' # started) \/ DestroyClearTasks(t))
    <3>1. UNCHANGED <<heap, tasks, started>>
      BY <1>3, <2>4 DEF OwnerStep, StartLock, StartArm, StartMark, StopJoin, Destroy,
         DestroyStopped, DestroyClear, DestroyFree, MoveOn, Abort, sharedVars, taskVars, schedVars
    <3>2. \A w \in Workers : Moves(w)
      BY <1>3, <2>4, OwnerMoves
    <3> QED
      BY <1>2, <3>1, <3>2
  <2> QED
    BY <2>1, <2>2, <2>3, <2>4
<1>4. ASSUME NEW t \in Threads, RmReturn(t) \/ Timeout(t) \/ Spurious(t)
      PROVE  AllKeep'
  <2>1. UNCHANGED <<heap, tasks>>
    BY <1>4 DEF RmReturn, Timeout, Spurious, sharedVars, taskVars
  <2> QED
    BY <1>2, <1>4, <2>1, TimeMoves
<1>5. ASSUME NEW w \in Workers,
             \/ Loop(w) \/ LockWait(w) \/ CheckStarted(w) \/ Prepare(w)
             \/ SelectReady(w) \/ SelectTimesOut(w) \/ Find(w)
             \/ (TakeTask(w) /\ ~FirstIsDue)
             \/ Leave(w) \/ Forget(w) \/ Pend(w) \/ Halt(w)
      PROVE  AllKeep'
  <2>1. UNCHANGED <<heap, tasks>>
    BY <1>5 DEF Loop, LockWait, CheckStarted, Prepare, SelectReady, SelectTimesOut, Find,
       TakeTask, Leave, Forget, Pend, Halt, MoveOn, sharedVars, taskVars
  <2>2. (\A v \in Workers : Moves(v)) /\ started' = started
    BY <1>5, WorkerGoesOn
  <2> QED
    BY <1>2, <2>1, <2>2
<1>6. ASSUME NEW w \in Workers, TakeTask(w), FirstIsDue,
             "prompt" \in program.rules /\ tasks # <<>> =>
                \A t \in Threads : doing[t].task # ListFirst
      PROVE  AllKeep'
  <2>1. "prompt" \in program.rules /\ tasks # <<>>
    BY <1>6 DEF Rules, FirstIsDue
  <2> QED
    BY <1>6, <2>1, TakeRules DEF AllKeep
<1>7. ASSUME NEW w \in Workers, Drop(w) PROVE AllKeep'
  BY <1>7, DropRules DEF AllKeep
<1>8. ASSUME Tick PROVE AllKeep'
  <2>1. UNCHANGED <<heap, tasks, started, pc, first, called>>
    BY <1>8 DEF Tick, sharedVars, taskVars, schedVars, selectVars
  <2>2. \A w \in Workers : Moves(w)
    BY <2>1 DEF Moves
  <2> QED
    BY <1>2, <2>1, <2>2
<1>9. ASSUME NEW w \in Workers, TakeTask(w),
             "prompt" \in program.rules /\ tasks # <<>> =>
                \A t \in Threads : doing[t].task # ListFirst
      PROVE  AllKeep'
  BY <1>5, <1>6, <1>9
<1>10. AllKeep'
  BY <1>3, <1>4, <1>5, <1>7, <1>8, <1>9 DEF SchedulerStep
<1> QED
  BY <1>1, <1>10 DEF RuleInv, Calls, AllKeep

LEMMA ConnectorRules ==
    ASSUME UCInv, RuleInv, Inv', program.rules = Rules, NEW t \in Threads, ConnectorStep(t)
    PROVE  RuleInv'
PROOF
<1>1. ASSUME NEW k \in Connectors, ConnectorCreate(t, k) \/ SetEventHandler(t, k) PROVE RuleInv'
  BY <1>1, CreateRules, SetHandlerRules
<1>2. ASSUME NEW k \in Connectors, NEW then \in {"return", "takeout", "destroy"},
             ConnectorClose(t, k, then)
      PROVE  RuleInv'
  BY <1>2, CloseRules
<1>3. ASSUME NEW k \in Connectors, NEW c \in Conns,
             ConnectorOpenFails(t, k, c) \/ ConnectorOpen2(t, k, c)
      PROVE  RuleInv'
  BY <1>3, OpenFailsRules, Open2Rules
<1>4. ASSUME NEW k \in Connectors, NEW c \in Conns, NEW task \in Addr \cup {NULL},
             NEW delay \in Delays, ConnectorOpen(t, k, c, task, delay)
      PROVE  RuleInv'
  BY <1>4, OpenRules
<1>5. CASE \E c \in Conns : Release(t, c)
  BY <1>5, ReleaseRules
<1>6. CASE ConnectorWatch(t)
  BY <1>6, WatchRules
<1>7. CASE ConnectorRm(t)
  BY <1>7, RmRules
<1>8. CASE ConnectorCancel(t)
  BY <1>8, CancelRules
<1> QED
  BY <1>1, <1>2, <1>3, <1>4, <1>5, <1>6, <1>7, <1>8 DEF ConnectorStep

LEMMA NextRules ==
    UCInv /\ [UCNext]_allVars /\ program.rules = Rules /\ RuleInv => RuleInv'
PROOF
<1> SUFFICES ASSUME UCInv, [UCNext]_allVars, program.rules = Rules, RuleInv PROVE RuleInv'
  OBVIOUS
<1>1. CASE UNCHANGED allVars
  <2>1. UNCHANGED <<conns, connectors, procs, taskOf, doing, telling, awaiting, lost>>
    BY <1>1 DEF allVars, cnVars, connVars
  <2>2. UNCHANGED <<started, heap, tasks, pc, first, called>>
    BY <1>1, VarsAre DEF allVars
  <2>3. \A k \in Connectors : Keep(k)'
    <3>1. \A k \in Connectors : WorkersStay(k) /\ OwnTasksStay(k)
      BY <2>1, <2>2, NothingMoves
    <3>2. \A k \in Connectors : SameProcs(k)
      BY <2>1 DEF SameProcs
    <3>3. UNCHANGED connVars
      BY <1>1 DEF allVars
    <3> QED
      BY <2>1, <3>1, <3>2, <3>3, LeftAlone
  <2> QED
    BY <2>1, <2>3 DEF RuleInv, Calls
<1>2. CASE Working /\ UCStep
  <2>1. Inv'
    BY <1>2, UCStepIsNext, NextInv DEF UCInv
  <2>2. ASSUME NEW w \in Workers,
               \/ CallHandler(w) \/ AssertCancelled(w) \/ Unwatch(w) \/ HandlerDone(w)
               \/ RunTimeout(w) \/ TimeoutDone(w)
        PROVE  RuleInv'
    BY <2>1, <2>2, CallRules, AssertRules, UnwatchRules, DoneRules, RunRules
  <2> QED
    BY <1>2, <2>1, <2>2, ConnectorRules, SchedulerRules DEF UCStep
<1> QED
  BY <1>1, <1>2 DEF UCNext

LEMMA SameProgram == [UCNext]_allVars => program' = program
PROOF
<1> SUFFICES ASSUME [UCNext]_allVars PROVE program' = program
  OBVIOUS
<1>1. ASSUME NEW t \in Threads, ConnectorStep(t) PROVE program' = program
  BY <1>1 DEF ConnectorStep, ConnectorCreate, SetEventHandler, ConnectorClose, ConnectorOpenFails,
     ConnectorOpen2, ConnectorOpen, Release, ConnectorWatch, ConnectorRm, ConnectorCancel, Lose,
     cnVars
<1>2. ASSUME NEW w \in Workers,
             \/ CallHandler(w) \/ AssertCancelled(w) \/ Unwatch(w) \/ HandlerDone(w)
             \/ RunTimeout(w) \/ TimeoutDone(w)
      PROVE  program' = program
  BY <1>2 DEF CallHandler, AssertCancelled, Unwatch, HandlerDone, RunTimeout, TimeoutDone, Lose
<1> QED
  BY <1>1, <1>2 DEF UCNext, UCStep, SchedulerStep, allVars, cnVars

LEMMA InitRules == UCInit => RuleInv
PROOF
<1> SUFFICES ASSUME UCInit PROVE RuleInv
  OBVIOUS
<1>1. /\ \A t \in Threads : doing[t] = Nothing
      /\ \A w \in Workers : telling[w] = NoConnector
      /\ awaiting = {} /\ lost = "none" /\ ~started
  BY ThreadsAre DEF UCInit, Init
<1>2. ASSUME NEW k \in Connectors PROVE Keep(k)
  <2>1. \A t \in Threads : doing[t].connector # k
    BY <1>1, NothingIs
  <2>2. \A w \in Workers : telling[w] # k /\ pc[w] = "none"
    BY <1>1, NothingIs, ThreadsAre DEF UCInit, Init
  <2>3. \A f \in Ufds : procs[f] # [proc |-> "connect", connector |-> k]
    BY NoConnectorIsNone DEF UCInit
  <2>4. \A a : ~Pending(a, k)
    BY ListFacts DEF Pending, UCInit, Init, ListInit, Listed
  <2> QED
    BY <1>1, <2>1, <2>2, <2>3, <2>4 DEF Keep, ProcOK, TaskOK, RunOK, TellOK, Runs
<1> QED
  BY <1>1, <1>2 DEF RuleInv, Calls

LEMMA SpecRules == UCSpec => [](program.rules = Rules => RuleInv)
PROOF
<1> DEFINE K == program.rules = Rules => RuleInv
<1>1. UCInit => K
  BY InitRules
<1>2. UCInv /\ K /\ [UCNext]_allVars => K'
  BY NextRules, SameProgram
<1> HIDE DEF K, UCInv
<1>3. UCSpec => []K
  BY <1>1, <1>2, UCSpecInv, PTL DEF UCSpec
<1> QED
  BY <1>3 DEF K

(* Programs that keep the rules: the assertion of connector.c:115 holds,   *)
(* and no connector or connection is used after it was freed, whatever the *)
(* other threads and the worker do between the calls that a call of a      *)
(* connector makes of the uxscheduler.                                     *)
THEOREM UxConnectorsAreSound == UCSpec => []Sound
PROOF
<1>1. (program.rules = Rules => RuleInv) => Sound
  BY DEF Sound, RuleInv
<1> HIDE DEF RuleInv, Sound
<1> QED
  BY <1>1, SpecRules, PTL

(* Programs that keep the rules: only a connector that owes an outcome     *)
(* tells one, so its user is never told twice, by the completion of the    *)
(* connection and by its timeout.                                          *)
THEOREM UxConnectorsTellOnce == UCSpec => []OneOutcome
PROOF
<1>1. UCInv /\ (program.rules = Rules => RuleInv) => OneOutcome
  <2> SUFFICES ASSUME UCInv, RuleInv, NEW w \in Workers, doing[w].then = "tell"
               PROVE  doing[w].connector \in Existing \cap awaiting
    BY DEF OneOutcome
  <2>1. doing[w] # Nothing /\ w \in Threads
    BY NothingIs, ThreadsAre
  <2>2. doing[w].connector \in Connectors
    BY <2>1 DEF RuleInv, Calls
  <2> QED
    BY <2>1, <2>2 DEF RuleInv, Keep, CallOK
<1> HIDE DEF UCInv, RuleInv, OneOutcome
<1> QED
  BY <1>1, SpecRules, UCSpecInv, PTL

(* Programs that keep the rules: a connector that was opened and was not   *)
(* closed has a timeout that will be run in its name, or a thread that is  *)
(* about to tell: nobody waits in vain.                                    *)
THEOREM UxConnectorsForgetNobody == UCSpec => []NeverForgotten
PROOF
<1>1. UCInv /\ (program.rules = Rules => RuleInv) => NeverForgotten
  <2> SUFFICES ASSUME UCInv, RuleInv, NEW k \in awaiting
               PROVE  \/ \E t \in Threads : doing[t].connector = k /\ doing[t].at # "out"
                      \/ \E w \in Workers : pc[w] = "run" /\ taskOf[first[w]] = k
                      \/ LET a == connectors[k].timeouttask_id
                         IN  a \in Listed /\ heap[a].state = "valid" /\ taskOf[a] = k
    BY DEF NeverForgotten
  <2>1. k \in Connectors /\ Keep(k)
    BY DEF UCInv, CNTypes, RuleInv
  <2>2. CASE Idle(k)
    BY <2>1, <2>2 DEF Keep, AwaitOK, Pending, Runs, Id
  <2>3. CASE ~Idle(k)
    BY <2>1, <2>3 DEF Keep, CallOK, Idle
  <2> QED
    BY <2>2, <2>3
<1> HIDE DEF UCInv, RuleInv, NeverForgotten
<1> QED
  BY <1>1, SpecRules, UCSpecInv, PTL
=============================================================================
