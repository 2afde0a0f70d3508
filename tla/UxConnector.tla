---------------------------- MODULE UxConnector ----------------------------
(***************************************************************************)
(* The ux half of src/connector.c: connectors over the uxscheduler of      *)
(* UxScheduler, and with the connections of Connection.  Connectors are    *)
(* used by clients and by the callbacks of the worker, while the worker    *)
(* completes them and runs their timeouts.  A call of a connector is       *)
(* several calls of the uxscheduler, and other threads run in between.     *)
(*                                                                         *)
(* The datagram connection that ux connections are bound to is open, and   *)
(* is the program's.  The code relies on four rules:                       *)
(*   "prompt"  the worker does not get to a connector's timeout before the *)
(*             call that opens the connector is over;                      *)
(*   "quiet"   connectors are opened on a started uxscheduler, that is not *)
(*             stopped before they have told their outcome, nor during a   *)
(*             call of a connector;                                        *)
(*   "inside"  threads do not call one connector at the same time, and one *)
(*             that owes an outcome is closed, taken out or destroyed only *)
(*             by the worker's callbacks;                                  *)
(*   "tidy"    a connector is opened once, and what was opened is closed,  *)
(*             taken out or destroyed, if at all, before it has told its   *)
(*             outcome or in the callback that is told.                    *)
(***************************************************************************)
EXTENDS UxScheduler, Connection

CONSTANTS
    Connectors,   \* the addresses malloc may return for a connector
    NoConnector,  \* the content of an address that is not allocated
    UdpConn,      \* the datagram connection
    UdpFd,        \* and its descriptor
    Programs      \* the programs that are looked at

Rules == {"prompt", "quiet", "inside", "tidy"}

(* A program: the rules it keeps, its connectors, the threads that use     *)
(* them, and which of the calls that not every program makes it makes.     *)
Program == [rules : SUBSET Rules, connectors : SUBSET Connectors, users : SUBSET Threads,
            calls : SUBSET {"open2", "takeout", "setEventHandler"}]

ASSUME UdpIsConnection == UdpConn \in Conns /\ UdpFd \in Fds /\ Fds = Ufds \cup {UdpFd}
ASSUME ProgramsArePrograms == Programs \subseteq Program

VARIABLES
    program,     \* the program
    connectors,  \* the connector at each address, or NoConnector
    procs,       \* the proc and connector each socket's uxevent was given
    taskOf,      \* the connector each task was posted for
    doing,       \* where each thread is in a call of a connector
    telling,     \* the connector whose user is told by each worker
    awaiting,    \* the connectors that owe their user an outcome
    lost         \* why the program is lost, or "none"

cnVars == <<program, connectors, procs, taskOf, doing, telling, awaiting, lost>>
allVars == <<vars, connVars, cnVars>>

ConnectorRecord == [uxconn : Conns \cup {NoConn}, timeouttask_id : Addr \cup {NULL}]

(* "watch": the task is posted and the socket is to be added; "rm" and     *)
(* "cancel" are the two calls of awe_uxconnector_rmEventHandler; "assert"  *)
(* and "unwatch" those of uxconnector_connecthandling.                     *)
Labels == {"out", "watch", "rm", "cancel", "assert", "unwatch"}
Doing == [at : Labels, connector : Connectors \cup {NoConnector},
          then : {"return", "takeout", "destroy", "tell"}, task : Addr \cup {NULL}]

ASSUME NoConnectorIsNone ==
    /\ NoConnector \notin Connectors /\ NoConnector \notin ConnectorRecord
    /\ NoConnector \notin [proc : {"connect", "user"}, connector : Connectors]

Nothing == [at |-> "out", connector |-> NoConnector, then |-> "return", task |-> NULL]
At(label, k, then, task) == [at |-> label, connector |-> k, then |-> then, task |-> task]

UCTypeOK ==
    /\ TypeOK /\ ConnTypeOK
    /\ program \in Programs
    /\ connectors \in [Connectors -> ConnectorRecord \cup {NoConnector}]
    /\ procs \in [Ufds -> [proc : {"connect", "user"}, connector : Connectors] \cup {NoConnector}]
    /\ taskOf \in [Addr -> Connectors \cup {NoConnector}]
    /\ doing \in [Threads -> Doing]
    /\ telling \in [Workers -> Connectors \cup {NoConnector}]
    /\ awaiting \subseteq Connectors
    /\ lost \in {"none", "assert", "uaf"}

UCInit ==
    /\ Init
    /\ conns = [c \in Conns |->
         IF c = UdpConn THEN [kind |-> "inet_dgram", fd |-> UdpFd, udp |-> NoConn, refs |-> 1]
                        ELSE Unallocated]
    /\ socks = {UdpFd} /\ held = [c \in Conns |-> IF c = UdpConn THEN 1 ELSE 0]
    /\ program \in Programs
    /\ connectors = [k \in Connectors |-> NoConnector]
    /\ procs = [f \in Ufds |-> NoConnector]
    /\ taskOf = [a \in Addr |-> NoConnector]
    /\ doing = [t \in Threads |-> Nothing]
    /\ telling = [w \in Workers |-> NoConnector]
    /\ awaiting = {} /\ lost = "none"

Existing == {k \in Connectors : connectors[k] # NoConnector}
Conn(k) == connectors[k].uxconn
Ufd(k) == conns[Conn(k)].fd

(* A thread may begin a call of a connector.                               *)
MayUse(t, k) ==
    /\ t \in program.users /\ CanCall(t) /\ doing[t].at = "out"
    /\ "inside" \in program.rules => \A u \in Threads : doing[u].connector # k

Do(t, what) == doing' = [doing EXCEPT ![t] = what]

(* A connector, or the descriptor of its connection, is used after it was  *)
(* freed; or the assertion of line 115 fails.                              *)
Lose(why) ==
    /\ lost' = why
    /\ UNCHANGED <<vars, connVars, program, connectors, procs, taskOf, doing, telling, awaiting>>

(* What is freed takes what is known of it along.                          *)
ForgetFreed ==
    /\ taskOf' = [a \in Addr |-> IF heap'[a] = Free THEN NoConnector ELSE taskOf[a]]
    /\ procs' = [f \in Ufds |->
         IF \E a \in UxAddr : uxheap'[a] # UxFree /\ uxheap'[a].ufd = f THEN procs[f]
         ELSE NoConnector]
-----------------------------------------------------------------------------
(* awe_uxconnector_create.                                                 *)
ConnectorCreate(t, k) ==
    /\ MayUse(t, k) /\ k \in program.connectors \ Existing
    /\ connectors' = [connectors EXCEPT ![k] = [uxconn |-> NoConn, timeouttask_id |-> NULL]]
    /\ UNCHANGED <<vars, connVars, program, procs, taskOf, doing, telling, awaiting, lost>>

Openable(t, k, c) ==
    /\ MayUse(t, k) /\ k \in Existing
    /\ Conn(k) = NoConn /\ c \notin Allocated
    /\ "tidy" \in program.rules => connectors[k].timeouttask_id = NULL
    /\ "quiet" \in program.rules => started

(* awe_uxconnector_open and openaddr, with the first half of               *)
(* uxconnector_setTimeout: a post to a uxscheduler that is not started     *)
(* returns no task.                                                        *)
ConnectorOpen(t, k, c, task, delay) ==
    /\ Openable(t, k, c)
    /\ \E o \in UxOpen(UdpConn) :
         /\ o.fd # Closed
         /\ conns' = Created(c, "ux_stream", o.fd, UdpConn)
         /\ socks' = o.open
    /\ \/ /\ task \in Addr
          /\ Post(t, task, delay)
          /\ taskOf' = [taskOf EXCEPT ![task] = k]
       \/ /\ task = NULL
          /\ ~started /\ Unlocked
          /\ UNCHANGED <<vars, taskOf>>
    /\ connectors' = [connectors EXCEPT ![k].uxconn = c]
    /\ awaiting' = awaiting \cup {k}
    /\ Do(t, At("watch", k, "return", task))
    /\ UNCHANGED <<held, program, procs, telling, lost>>

(* Mutant: the id is not stored.                                           *)
RememberNothing(k, task) == UNCHANGED connectors

Remember(k, task) == connectors' = [connectors EXCEPT ![k].timeouttask_id = task]

(* The second half: the id is stored, and the socket added.                *)
ConnectorWatch(t) ==
    /\ doing[t].at = "watch"
    /\ LET k == doing[t].connector
       IN  IF k \in Existing /\ Conn(k) # NoConn /\ IsOpen(Conn(k))
             THEN /\ Add(t, Ufd(k), {"write"})
                  /\ Remember(k, doing[t].task)
                  /\ procs' = [procs EXCEPT ![Ufd(k)] = [proc |-> "connect", connector |-> k]]
                  /\ Do(t, Nothing)
                  /\ UNCHANGED <<connVars, program, taskOf, telling, awaiting, lost>>
             ELSE Lose("uaf")

(* The connection could not be opened: the connector is closed, and keeps  *)
(* the connection.                                                         *)
ConnectorOpenFails(t, k, c) ==
    /\ Openable(t, k, c)
    /\ \E o \in UxOpen(UdpConn) :
         /\ o.fd = Closed
         /\ conns' = Created(c, "ux_stream", Closed, UdpConn)
         /\ socks' = o.open
    /\ connectors' = [connectors EXCEPT ![k].uxconn = c]
    /\ Do(t, At("rm", k, "return", NULL))
    /\ UNCHANGED <<vars, held, program, procs, taskOf, telling, awaiting, lost>>

(* awe_uxconnector_open2 with a connection of the program.                 *)
ConnectorOpen2(t, k, c) ==
    /\ "open2" \in program.calls
    /\ MayUse(t, k) /\ k \in Existing
    /\ Conn(k) = NoConn
    /\ held[c] > 0 /\ conns[c].refs < MaxHeld /\ c # UdpConn
    /\ conns' = [conns EXCEPT ![c].refs = @ + 1]
    /\ connectors' = [connectors EXCEPT ![k].uxconn = c]
    /\ UNCHANGED <<vars, socks, held, program, procs, taskOf, doing, telling, awaiting, lost>>

(* awe_uxconnector_setEventHandler for the connector's own connection.     *)
SetEventHandler(t, k) ==
    /\ "setEventHandler" \in program.calls
    /\ MayUse(t, k) /\ k \in Existing
    /\ Conn(k) # NoConn /\ IsOpen(Conn(k))
    /\ Add(t, Ufd(k), {"read"})
    /\ procs' = [procs EXCEPT ![Ufd(k)] = [proc |-> "user", connector |-> k]]
    /\ UNCHANGED <<connVars, program, connectors, taskOf, doing, telling, awaiting, lost>>
-----------------------------------------------------------------------------
(* awe_uxconnector_close, takeout and destroy, and the body of             *)
(* uxconnector_connecttimeout.                                             *)

MayClose(t, k) ==
    /\ MayUse(t, k) /\ k \in Existing
    /\ Conn(k) # NoConn => /\ ("inside" \in program.rules /\ k \in awaiting) => t \in Workers
                           /\ "tidy" \in program.rules =>
                                \/ k \in awaiting
                                \/ t \in Workers /\ telling[t] = k
                                \/ connectors[k].timeouttask_id = NULL

(* What follows the removal of handler and timeout.                        *)
Finish(t, k, then) ==
    /\ CASE then = "takeout" ->
              /\ connectors' = [connectors EXCEPT ![k].uxconn = NoConn]
              /\ held' = [c \in Conns |-> IF c = Conn(k) THEN held[c] + 1 ELSE held[c]]
              /\ UNCHANGED <<conns, socks>>
         [] then = "destroy" ->
              /\ connectors' = [connectors EXCEPT ![k] = NoConnector]
              /\ IF Conn(k) = NoConn THEN UNCHANGED <<conns, socks>> ELSE LetGo(Conn(k))
              /\ UNCHANGED held
         [] then \in {"return", "tell"} -> UNCHANGED <<connVars, connectors>>
    /\ Do(t, Nothing)

ConnectorClose(t, k, then) ==
    /\ MayClose(t, k)
    /\ then = "takeout" => "takeout" \in program.calls
    /\ awaiting' = awaiting \ {k}
    /\ IF Conn(k) = NoConn
         THEN Finish(t, k, then)
         ELSE Do(t, At("rm", k, then, NULL)) /\ UNCHANGED <<connVars, connectors>>
    /\ UNCHANGED <<vars, program, procs, taskOf, telling, lost>>

(* Mutant: the socket stays watched.                                       *)
RmNothing(t, ufd) == CanCall(t) /\ Unlocked /\ UNCHANGED <<vars, procs, taskOf>>

(* awe_uxscheduler_rm of a socket that may be watched or not.              *)
RmIfWatched(t, ufd) ==
    \/ ufd \in Ufds /\ Rm(t, ufd) /\ ForgetFreed
    \/ UxFind(ufd) = {} /\ CanCall(t) /\ Unlocked /\ UNCHANGED <<vars, procs, taskOf>>

(* The user is told of the timeout when its connector is closed.           *)
Tell(t, k, then) ==
    /\ awaiting' = IF then = "tell" THEN awaiting \ {k} ELSE awaiting
    /\ telling' = IF then = "tell" THEN [telling EXCEPT ![t] = k] ELSE telling

(* Line 223: a connection that was taken out meanwhile is left alone.      *)
ConnectorRm(t) ==
    /\ doing[t].at = "rm" /\ CanCall(t)
    /\ LET k == doing[t].connector
           then == doing[t].then
       IN  \/ k \notin Existing /\ Lose("uaf")
           \/ /\ k \in Existing /\ Conn(k) # NoConn
              /\ RmIfWatched(t, Ufd(k))
              /\ Do(t, [doing[t] EXCEPT !.at = "cancel"])
              /\ UNCHANGED <<connVars, program, connectors, telling, awaiting, lost>>
           \/ /\ k \in Existing /\ Conn(k) = NoConn
              /\ Finish(t, k, then) /\ Tell(t, k, then)
              /\ UNCHANGED <<vars, program, procs, taskOf, lost>>

(* Mutant: the timeout goes on.                                            *)
CancelNothing(t, id) == Unlocked /\ UNCHANGED vars

CancelTimeout(t, id) == Cancel(t, id) \/ (~started /\ Unlocked /\ UNCHANGED vars)

ConnectorCancel(t) ==
    /\ doing[t].at = "cancel" /\ CanCall(t)
    /\ LET k == doing[t].connector
           then == doing[t].then
       IN  IF k \in Existing
             THEN /\ CancelTimeout(t, connectors[k].timeouttask_id)
                  /\ Finish(t, k, then) /\ Tell(t, k, then)
                  /\ UNCHANGED <<program, procs, taskOf, lost>>
             ELSE Lose("uaf")
-----------------------------------------------------------------------------
(* The worker calls the proc of a ready socket: uxconnector_connecthandling *)
(* or the program's handler.                                               *)
CallHandler(w) ==
    /\ Call(w)
    /\ LET p == procs[uxheap[uxe[w]].ufd]
       IN  IF fault' # "none" \/ p.proc = "user" THEN UNCHANGED doing
           ELSE Do(w, At("assert", p.connector, "tell", NULL))
    /\ UNCHANGED <<connVars, program, connectors, procs, taskOf, telling, awaiting, lost>>

(* Line 115: the timeout must still be listed, and the uxscheduler         *)
(* started.                                                                *)
AssertCancelled(w) ==
    /\ doing[w].at = "assert"
    /\ LET k == doing[w].connector
       IN  \/ k \notin Existing /\ Lose("uaf")
           \/ /\ k \in Existing /\ Unlocked
              /\ ~started \/ connectors[k].timeouttask_id \notin Listed
              /\ Lose("assert")
           \/ /\ k \in Existing
              /\ connectors[k].timeouttask_id \in Listed
              /\ Cancel(w, connectors[k].timeouttask_id)
              /\ Do(w, [doing[w] EXCEPT !.at = "unwatch"])
              /\ UNCHANGED <<connVars, program, connectors, procs, taskOf, telling, awaiting, lost>>

(* Line 117, up to the call of the user.                                   *)
Unwatch(w) ==
    /\ doing[w].at = "unwatch"
    /\ LET k == doing[w].connector
       IN  IF k \in Existing
             THEN /\ RmIfWatched(w, called[w])
                  /\ awaiting' = awaiting \ {k}
                  /\ telling' = [telling EXCEPT ![w] = k]
                  /\ Do(w, Nothing)
                  /\ UNCHANGED <<connVars, program, connectors, lost>>
             ELSE Lose("uaf")

HandlerDone(w) ==
    /\ doing[w].at = "out"
    /\ HandlerReturns(w)
    /\ telling' = [telling EXCEPT ![w] = NoConnector]
    /\ UNCHANGED <<connVars, program, connectors, procs, taskOf, doing, awaiting, lost>>

(* The worker runs a task, unless it is marked: uxconnector_connecttimeout *)
(* begins with a close.                                                    *)
RunTimeout(w) ==
    /\ Run(w)
    /\ IF pc'[w] = "proc" THEN Do(w, At("rm", taskOf[first[w]], "tell", NULL))
                          ELSE UNCHANGED doing
    /\ UNCHANGED <<connVars, program, connectors, procs, taskOf, telling, awaiting, lost>>

TimeoutDone(w) ==
    /\ doing[w].at = "out"
    /\ Return(w)
    /\ telling' = [telling EXCEPT ![w] = NoConnector]
    /\ UNCHANGED <<connVars, program, connectors, procs, taskOf, doing, awaiting, lost>>
-----------------------------------------------------------------------------
(* The program gives up a connection that it took out, when it is not      *)
(* watched.                                                                *)
Release(t, c) ==
    /\ t \in program.users /\ CanCall(t) /\ doing[t].at = "out"
    /\ c # UdpConn /\ c \in Allocated /\ UxFind(conns[c].fd) = {}
    /\ ConnAutorelease(c)
    /\ UNCHANGED <<vars, cnVars>>

ConnectorStep(t) ==
    \/ \E k \in Connectors :
         \/ ConnectorCreate(t, k) \/ SetEventHandler(t, k)
         \/ \E then \in {"return", "takeout", "destroy"} : ConnectorClose(t, k, then)
         \/ \E c \in Conns :
              \/ ConnectorOpenFails(t, k, c) \/ ConnectorOpen2(t, k, c)
              \/ \E task \in Addr \cup {NULL}, delay \in Delays :
                   ConnectorOpen(t, k, c, task, delay)
    \/ \E c \in Conns : Release(t, c)
    \/ ConnectorWatch(t) \/ ConnectorRm(t) \/ ConnectorCancel(t)

(* The uxscheduler goes on meanwhile, and its owner starts and stops it.   *)
OwnerMay(t) ==
    /\ doing[t].at = "out"
    /\ "quiet" \in program.rules /\ started =>
         awaiting = {} /\ \A u \in Threads : doing[u].at = "out"

SchedulerStep ==
    \/ /\ \/ \E t \in Threads :
               \/ OwnerMay(t) /\ OwnerStep(t)
               \/ RmReturn(t) \/ Timeout(t) \/ Spurious(t)
          \/ \E w \in Workers :
               \/ Loop(w) \/ LockWait(w) \/ CheckStarted(w) \/ Prepare(w)
               \/ SelectReady(w) \/ SelectTimesOut(w) \/ Find(w)
               \/ Drop(w)
               \/ /\ "prompt" \in program.rules /\ tasks # <<>> =>
                       \A t \in Threads : doing[t].task # ListFirst
                  /\ TakeTask(w)
               \/ Leave(w) \/ Forget(w) \/ Pend(w) \/ Halt(w)
          \/ Tick
       /\ ForgetFreed
       /\ UNCHANGED <<connVars, program, connectors, doing, telling, awaiting, lost>>

UCStep ==
    \/ \E t \in Threads : ConnectorStep(t)
    \/ \E w \in Workers :
         \/ CallHandler(w) \/ AssertCancelled(w) \/ Unwatch(w) \/ HandlerDone(w)
         \/ RunTimeout(w) \/ TimeoutDone(w)
    \/ SchedulerStep

UCNext ==
    \/ Working /\ lost = "none" /\ UCStep
    \/ (~Working \/ lost # "none") /\ UNCHANGED allVars

UCSpec == UCInit /\ [][UCNext]_allVars
-----------------------------------------------------------------------------
(* Every program: each uxevent is listed for one socket, each task has one *)
(* owner, every open descriptor belongs to a connection, and a connection  *)
(* has a reference for each of its holders, whatever the threads do with   *)
(* connectors at the same time (uxscheduler.c:325-377, connector.c:142-227). *)
Owned ==
    /\ OneEventPerSocket
    /\ HeapOwnership
    /\ DescriptorsOwned
    /\ RefsAre([c \in Conns |-> Cardinality({k \in Existing : Conn(k) = c})])

(* Programs that keep the rules: the assertion of line 115 holds, and no   *)
(* connector or connection is used after it was freed.                     *)
Sound == program.rules = Rules => lost = "none"

(* Programs that keep the rules: an outcome is told by a connector that    *)
(* exists and owes one, never twice.                                       *)
OneOutcome ==
    program.rules = Rules =>
        \A w \in Workers : doing[w].then = "tell" => doing[w].connector \in Existing \cap awaiting

(* Programs that keep the rules: who owes an outcome has a task that will  *)
(* be run in its name, or is about to tell.                                *)
NeverForgotten ==
    program.rules = Rules =>
        \A k \in awaiting :
            \/ \E t \in Threads : doing[t].connector = k /\ doing[t].at # "out"
            \/ \E w \in Workers : pc[w] = "run" /\ taskOf[first[w]] = k
            \/ LET a == connectors[k].timeouttask_id
               IN  a \in Listed /\ heap[a].state = "valid" /\ taskOf[a] = k
=============================================================================
