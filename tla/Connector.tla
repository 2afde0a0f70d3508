----------------------------- MODULE Connector -----------------------------
(***************************************************************************)
(* The TCP half of src/connector.c: a connector opens a connection, waits  *)
(* until it is writable or a timeout ends, and tells its user the outcome, *)
(* over the scheduler of Scheduler and with the connections of Connection. *)
(* All of it happens in the loop's thread, or in the program's when no     *)
(* loop runs; the time of the timeout is not modelled, only its race with  *)
(* the connection: one iteration of the loop may make both pending.        *)
(*                                                                         *)
(* The program opens a connector only while the scheduler is started and   *)
(* when it has no connection (the assertions of lines 54 and 77: also one  *)
(* whose open failed has to be taken out first), and leaves a connection   *)
(* alone that is watched.  It uses the scheduler's sockets and tasks only  *)
(* through connectors.                                                     *)
(***************************************************************************)
EXTENDS Scheduler, Connection

CONSTANTS
    Connectors,      \* the addresses malloc may return for a connector
    NoConnector,     \* the content of an address that is not allocated
    NoProc,          \* the binding of a token that is not allocated
    OpensInTimeouts  \* does the program open connectors when it is told of
                     \* a timeout, from within that callback?

ASSUME OpensInTimeoutsIsBoolean == OpensInTimeouts \in BOOLEAN

VARIABLES
    connectors,   \* the connector at each address, or NoConnector
    bound,        \* the proc and userdata of each token's evdata
    stage,        \* of the callback: the connector's "body", then the "user"'s
    awaiting      \* the connectors that owe their user an outcome

cnVars == <<connectors, bound, stage, awaiting>>
allVars == <<vars, connVars, cnVars>>

ConnectorRecord ==
    [conn : Conns \cup {NoConn},
     conntoken : Tokens \cup {NULL}, timeouttoken : Tokens \cup {NULL}]

(* "connect" is connector_connecthandling, "timeout" is                    *)
(* connector_connecttimeout, "user" a handler of setEventHandler.          *)
Binding ==
    [proc : {"connect", "timeout", "user"}, connector : Connectors, fd : Fds \cup {Closed}]

ASSUME NoConnectorIsNone == NoConnector \notin ConnectorRecord
ASSUME NoProcIsNone == NoProc \notin Binding

CNTypeOK ==
    /\ TypeOK /\ ConnTypeOK
    /\ connectors \in [Connectors -> ConnectorRecord \cup {NoConnector}]
    /\ bound \in [Tokens -> Binding \cup {NoProc}]
    /\ stage \in {"none", "body", "user"}
    /\ awaiting \subseteq Connectors

CNInit ==
    /\ Init /\ ConnInit
    /\ connectors = [k \in Connectors |-> NoConnector]
    /\ bound = [t \in Tokens |-> NoProc]
    /\ stage = "none" /\ awaiting = {}

Existing == {k \in Connectors : connectors[k] # NoConnector}
Conn(k) == connectors[k].conn

(* The evdata that is freed takes its binding along.                       *)
Unbind == bound' = [t \in Tokens |-> IF objs'[t] = Freed THEN NoProc ELSE bound[t]]

(* A callback, or the program outside of every loop.                       *)
MayUse == CanCall /\ stage # "body"
-----------------------------------------------------------------------------
(* awe_connector_create.                                                   *)
ConnectorCreate(k) ==
    /\ MayUse /\ k \notin Existing
    /\ connectors' =
         [connectors EXCEPT ![k] = [conn |-> NoConn, conntoken |-> NULL, timeouttoken |-> NULL]]
    /\ UNCHANGED <<vars, connVars, bound, stage, awaiting>>

(* Mutant: only the token of the connection is destroyed.                  *)
RmOnlyConntoken(k) ==
    LET old == {connectors[k].conntoken} \cap Members(evio_list)
    IN  /\ objs' = [t \in Tokens |-> IF t \in old THEN Released(objs, t)[t] ELSE objs[t]]
        /\ evio_list' = Without(evio_list, connectors[k].conntoken)
        /\ active' = active \ old /\ pending' = pending \ old
        /\ UNCHANGED evtimer_list
        /\ Unbind

(* awe_connector_rmEventHandler: both tokens are destroyed, a socket's or  *)
(* task's that is not listed any more only forgotten.  The connection is   *)
(* left open.                                                              *)
RmEventHandler(k) ==
    LET old == ({connectors[k].conntoken} \cap Members(evio_list))
                 \cup ({connectors[k].timeouttoken} \cap Members(evtimer_list))
    IN  /\ objs' = [t \in Tokens |-> IF t \in old THEN Released(objs, t)[t] ELSE objs[t]]
        /\ evio_list' = Without(evio_list, connectors[k].conntoken)
        /\ evtimer_list' = Without(evtimer_list, connectors[k].timeouttoken)
        /\ active' = active \ old /\ pending' = pending \ old
        /\ Unbind

(* What a call of the connector leaves alone in the scheduler.             *)
Aside == UNCHANGED <<threadVars, started, triggertoken, sockVars, breaking, loopVars, pc, endVars>>

Detached(k, conn) ==
    [connectors EXCEPT ![k] = [conn |-> conn, conntoken |-> NULL, timeouttoken |-> NULL]]

(* awe_connector_close: it owes no outcome any more.                       *)
Close(k) ==
    /\ RmEventHandler(k) /\ Aside
    /\ connectors' = Detached(k, Conn(k))
    /\ awaiting' = awaiting \ {k}
    /\ UNCHANGED connVars

ConnectorClose(k) ==
    /\ MayUse /\ k \in Existing
    /\ Close(k)
    /\ UNCHANGED stage

(* awe_connector_takeout: the program has the connector's reference then.  *)
ConnectorTakeout(k) ==
    /\ MayUse /\ k \in Existing
    /\ RmEventHandler(k) /\ Aside
    /\ connectors' = Detached(k, NoConn)
    /\ awaiting' = awaiting \ {k}
    /\ held' = [c \in Conns |-> IF c = Conn(k) THEN held[c] + 1 ELSE held[c]]
    /\ UNCHANGED <<conns, socks, stage>>

(* Mutant: the tokens are left to the scheduler.                           *)
ConnectorDestroyAlone(k) ==
    /\ MayUse /\ k \in Existing
    /\ IF Conn(k) = NoConn THEN UNCHANGED <<conns, socks>> ELSE LetGo(Conn(k))
    /\ connectors' = [connectors EXCEPT ![k] = NoConnector]
    /\ awaiting' = awaiting \ {k}
    /\ UNCHANGED <<vars, held, bound, stage>>

(* awe_connector_destroy.                                                  *)
ConnectorDestroy(k) ==
    /\ MayUse /\ k \in Existing
    /\ RmEventHandler(k) /\ Aside
    /\ IF Conn(k) = NoConn THEN UNCHANGED <<conns, socks>> ELSE LetGo(Conn(k))
    /\ connectors' = [connectors EXCEPT ![k] = NoConnector]
    /\ awaiting' = awaiting \ {k}
    /\ UNCHANGED <<held, stage>>
-----------------------------------------------------------------------------
(* awe_connector_open of a connector without a connection.                 *)
Openable(k) ==
    /\ MayUse /\ started /\ k \in Existing
    /\ Conn(k) = NoConn
    /\ ~Corrupt

(* The timer is created first, then the watcher.                           *)
ConnectorOpen(k, c, task, watch) ==
    /\ Openable(k)
    /\ OpensInTimeouts \/ phase # "task"
    /\ c \notin Allocated
    /\ objs[task] = Freed /\ objs[watch] = Freed /\ task # watch
    /\ \E o \in StreamOpen :
         /\ o.fd # Closed
         /\ conns' = Created(c, "inet_stream", o.fd, NoConn)
         /\ socks' = o.open
         /\ bound' = [bound EXCEPT
              ![task] = [proc |-> "timeout", connector |-> k, fd |-> Closed],
              ![watch] = [proc |-> "connect", connector |-> k, fd |-> o.fd]]
    /\ objs' = [objs EXCEPT
         ![task] = [kind |-> "once", refs |-> 1, events |-> {}],
         ![watch] = [kind |-> "io", refs |-> 1, events |-> Masks \ {AWE_READ}]]
    /\ evtimer_list' = Added(evtimer_list, task)
    /\ evio_list' = Added(evio_list, watch)
    /\ active' = active \cup {task, watch}
    /\ connectors' =
         [connectors EXCEPT ![k] = [conn |-> c, conntoken |-> watch, timeouttoken |-> task]]
    /\ awaiting' = awaiting \cup {k}
    /\ Aside
    /\ UNCHANGED <<pending, held, stage>>

(* Mutant: that it was not opened is not noticed.                          *)
ConnectorOpenFailsUnnoticed(k, c) ==
    /\ Openable(k)
    /\ c \notin Allocated
    /\ conns' = Created(c, "inet_stream", Closed, NoConn)
    /\ connectors' = Detached(k, c)
    /\ awaiting' = awaiting \cup {k}
    /\ UNCHANGED <<vars, socks, held, bound, stage>>

(* The connection could not be opened; the connector keeps it.             *)
ConnectorOpenFails(k, c) ==
    /\ Openable(k)
    /\ c \notin Allocated
    /\ \E o \in StreamOpen :
         /\ o.fd = Closed
         /\ conns' = Created(c, "inet_stream", Closed, NoConn)
         /\ socks' = o.open
    /\ connectors' = Detached(k, c)
    /\ UNCHANGED <<vars, held, bound, stage, awaiting>>

(* awe_connector_open2 with a connection of the program.                   *)
ConnectorOpen2(k, c) ==
    /\ MayUse /\ k \in Existing
    /\ Conn(k) = NoConn
    /\ held[c] > 0 /\ conns[c].refs < MaxHeld
    /\ conns' = [conns EXCEPT ![c].refs = @ + 1]
    /\ connectors' = Detached(k, c)
    /\ UNCHANGED <<vars, socks, held, bound, stage, awaiting>>

(* awe_connector_setEventHandler for the connector's own connection; when  *)
(* there is a watcher already it changes nothing.                          *)
SetEventHandler(k, watch) ==
    /\ MayUse /\ started /\ k \in Existing
    /\ Conn(k) # NoConn /\ IsOpen(Conn(k))
    /\ connectors[k].conntoken = NULL
    /\ objs[watch] = Freed /\ ~Corrupt
    /\ objs' = [objs EXCEPT ![watch] = [kind |-> "io", refs |-> 1, events |-> {AWE_READ}]]
    /\ evio_list' = Added(evio_list, watch)
    /\ active' = active \cup {watch}
    /\ bound' = [bound EXCEPT
         ![watch] = [proc |-> "user", connector |-> k, fd |-> conns[Conn(k)].fd]]
    /\ connectors' = [connectors EXCEPT ![k].conntoken = watch]
    /\ Aside
    /\ UNCHANGED <<pending, evtimer_list, connVars, stage, awaiting>>
-----------------------------------------------------------------------------
(* The program's own connections: accepted, closed and given up.           *)
WatchedFds == {bound[t].fd : t \in {u \in Tokens : bound[u] # NoProc}} \ {Closed}

ConnectionCall ==
    /\ MayUse
    /\ \E c \in Conns :
         \/ Create(c) /\ conns'[c].kind = "inet_stream" /\ conns'[c].fd # Closed
         \/ /\ c \in Allocated /\ conns[c].fd \notin WatchedFds
            /\ ConnAutorelease(c) \/ ConnClose(c)
    /\ UNCHANGED <<vars, cnVars>>
-----------------------------------------------------------------------------
(* The loop calls the proc of a pending watcher or task.                   *)
Dispatch(t) ==
    /\ Invoke(t)
    /\ stage' = IF bound[t].proc = "user" THEN "user" ELSE "body"
    /\ UNCHANGED <<connVars, connectors, bound, awaiting>>

(* Mutant: the timeout goes on.                                            *)
ConnectHandlingLeavesTimeout ==
    /\ stage = "body" /\ bound[current].proc = "connect"
    /\ LET k == bound[current].connector
       IN  /\ RmOnlyConntoken(k) /\ Aside
           /\ connectors' = [connectors EXCEPT ![k].conntoken = NULL]
           /\ awaiting' = awaiting \ {k}
    /\ stage' = "user"
    /\ UNCHANGED connVars

(* connector_connecthandling, up to the call of the user, who is told what *)
(* awe_socket_connected says of the socket.                                *)
ConnectHandling ==
    /\ stage = "body" /\ bound[current].proc = "connect"
    /\ Close(bound[current].connector)
    /\ stage' = "user"

(* connector_connecttimeout, up to the call of the user.  It frees the     *)
(* task that is being run.                                                 *)
ConnectTimeout ==
    /\ stage = "body" /\ bound[current].proc = "timeout"
    /\ Close(bound[current].connector)
    /\ stage' = "user"

CallbackReturns ==
    /\ stage # "body"
    /\ ReturnTask \/ ReturnHandler
    /\ stage' = "none"
    /\ Unbind
    /\ UNCHANGED <<connVars, connectors, awaiting>>
-----------------------------------------------------------------------------
ConnectorCall ==
    \E k \in Connectors :
        \/ ConnectorCreate(k) \/ ConnectorClose(k) \/ ConnectorTakeout(k) \/ ConnectorDestroy(k)
        \/ \E c \in Conns :
             \/ ConnectorOpenFails(k, c) \/ ConnectorOpen2(k, c)
             \/ \E task, watch \in Tokens : ConnectorOpen(k, c, task, watch)
        \/ \E watch \in Tokens : SetEventHandler(k, watch)

SchedulerStep ==
    /\ \/ stage # "body" /\ (Break \/ \E t \in Tokens : Start(t))
       \/ Enter(Main) \/ Poll \/ Turn
       \/ \E t \in Tokens : InvokeFreed(t) \/ InvokeTrigger(t)
    /\ UNCHANGED <<connVars, cnVars>>

(* What was started ends, whatever connectors still have tokens.           *)
SchedulerStops ==
    /\ Stop /\ Unbind
    /\ UNCHANGED <<connVars, connectors, stage, awaiting>>

CNStep ==
    \/ ConnectorCall \/ ConnectionCall
    \/ \E t \in Tokens : Dispatch(t)
    \/ ConnectHandling \/ ConnectTimeout \/ CallbackReturns
    \/ SchedulerStep \/ SchedulerStops

CNNext ==
    \/ Running /\ CNStep
    \/ Terminated /\ UNCHANGED <<connVars, cnVars>>

CNSpec == CNInit /\ [][CNNext]_allVars
-----------------------------------------------------------------------------
(* The tokens of connectors, listed ones and those forgotten by stop.      *)
TokensOf(k) == {connectors[k].conntoken, connectors[k].timeouttoken} \ {NULL}

(* A user is told an outcome only by a connector that exists and owes one: *)
(* not twice, though the connection and the timeout may be pending in one  *)
(* iteration, and not after a close, takeout or destroy, even if another   *)
(* connector was created at the same address (connector.c:15-30).          *)
OneOutcome ==
    stage = "body" =>
        LET b == bound[current]
        IN  b # NoProc /\ b.connector \in Existing \cap awaiting

(* Whoever owes an outcome will tell it: its timeout is listed, and will   *)
(* be called or is being called, as long as the scheduler is started.      *)
NeverForgotten ==
    started => \A k \in awaiting :
        /\ k \in Existing /\ Conn(k) # NoConn /\ IsOpen(Conn(k))
        /\ LET t == connectors[k].timeouttoken
           IN  /\ t \in Members(evtimer_list)
               /\ bound[t].proc = "timeout" /\ bound[t].connector = k
               /\ t \in active \cup pending \/ current = t

(* Every watcher and task belongs to the one connector that has its token, *)
(* and watches a descriptor that is open and the connection's.             *)
WatchersOwned ==
    /\ started => \A t \in (Members(evio_list) \cup Members(evtimer_list)) \ {triggertoken} :
         LET k == bound[t].connector
         IN  /\ k \in Existing /\ t \in TokensOf(k)
             /\ Conn(k) # NoConn
             /\ t \in Members(evio_list) => bound[t].fd = conns[Conn(k)].fd /\ IsOpen(Conn(k))
    /\ \A j, k \in Existing : j # k => TokensOf(j) \cap TokensOf(k) = {}

(* No watcher outlives its connector or its connection, a connector        *)
(* without a connection has none, and no descriptor or reference leaks:    *)
(* not when an open fails, a connector is destroyed or its connection is   *)
(* taken out (connector.c:44-50, 105-110).                                 *)
Owned ==
    /\ WatchersOwned
    /\ DescriptorsOwned
    /\ RefsAre([c \in Conns |-> Cardinality({k \in Existing : Conn(k) = c})])

(* scheduler.c:93 and 122, assertions that are commented out: a watcher is *)
(* not active when it is freed.  Until the scheduler is stopped that is    *)
(* true of programs that open no connector in the callback of a timeout:   *)
(* one that does may get the address of the task that is being run for its *)
(* new timeout, which scheduler.c:159 then takes for the old one, and      *)
(* frees.                                                                  *)
StoppedBeforeFreed == started => FreedIsInactive
=============================================================================
