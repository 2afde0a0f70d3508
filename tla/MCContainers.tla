---------------------------- MODULE MCContainers ----------------------------
(***************************************************************************)
(* The containers, connections and packets, each checked by itself: one    *)
(* of them is chosen, and the others are as they were created.             *)
(***************************************************************************)
EXTENDS RingBuffer, RingArray, DList, Connection, Packet, TLC

CONSTANTS c1, c2, c3, n1, n2, n3, f1, f2, f3

VARIABLE component

vars == <<component, rbVars, raVars, dlVars, connVars, pkVars>>

Init ==
    /\ component \in {"buffer", "array", "list", "connection", "packet"}
    /\ RBInit /\ RAInit /\ DLInit /\ ConnInit /\ PKInit
    /\ component # "buffer" => use = CHOOSE u \in Uses : TRUE
    /\ component # "buffer" => capacity = CHOOSE c \in Capacities : TRUE
    /\ component # "array" => habit = CHOOSE h \in Habits : TRUE
    /\ component # "array" => size = CHOOSE n \in Sizes : TRUE
    /\ component # "list" => removal = CHOOSE r \in Removals : TRUE
    /\ component # "packet" => careful

Next ==
    /\ UNCHANGED component
    /\ \/ component = "buffer" /\ RBNext /\ UNCHANGED <<raVars, dlVars, connVars, pkVars>>
       \/ component = "array" /\ RANext /\ UNCHANGED <<rbVars, dlVars, connVars, pkVars>>
       \/ component = "list" /\ DLNext /\ UNCHANGED <<rbVars, raVars, connVars, pkVars>>
       \/ component = "connection" /\ ConnNext /\ UNCHANGED <<rbVars, raVars, dlVars, pkVars>>
       \/ component = "packet" /\ PKNext /\ UNCHANGED <<rbVars, raVars, dlVars, connVars>>

Spec == Init /\ [][Next]_vars

(* A lock around the calls, or a build that evaluates a limit once.        *)
SafeUses == Use \ {[locked |-> FALSE, twice |-> TRUE]}

(* With both habits the ring array works; with none it need not.           *)
AllOrNone == {{}, {"lock", "positive"}}

TypeOK == RBTypeOK /\ RATypeOK /\ DLTypeOK /\ ConnTypeOK /\ PKTypeOK
=============================================================================
