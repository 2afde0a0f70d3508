--------------------------- MODULE MCUxConnector ---------------------------
(* Instances of UxConnector for TLC.                                       *)
EXTENDS UxConnector, TLC

CONSTANTS c1, w1, a1, a2, e1, e2, s1, s2, u1, k1, k2, n1, n2, udp

(* Programs that keep every rule, with two connectors or with one that     *)
(* shares its connection, and programs that keep none.                     *)
ProgramOf(theRules, theConnectors, theCalls) ==
    [rules |-> theRules, connectors |-> theConnectors, users |-> {c1, w1}, calls |-> theCalls]
SomePrograms ==
    {ProgramOf(Rules, Connectors, {"takeout", "setEventHandler"})}
      \cup {ProgramOf(Rules, {k}, {"open2", "takeout"}) : k \in Connectors}
      \cup {ProgramOf({}, {k}, {}) : k \in Connectors}

Symmetry == Permutations({a1, a2}) \cup Permutations({e1, e2}) \cup Permutations({s1, s2})
              \cup Permutations({n1, n2}) \cup Permutations({k1, k2})
=============================================================================
