-------------------------- MODULE ConnectionProofs --------------------------
(***************************************************************************)
(* Proofs about Connection, for any number of connections, descriptors and *)
(* references: every open descriptor has one owner, and a connection has   *)
(* as many references as holders.                                          *)
(*                                                                         *)
(* The facts about references and descriptors are stated for a map m of    *)
(* connections, a count h of the references that others than connections   *)
(* have to each, and a set s of descriptors: they are as true of modules   *)
(* in which someone else than the program holds connections.               *)
(***************************************************************************)
EXTENDS Connection, FiniteSetTheorems, TLAPS

There(m) == {c \in Conns : m[c] # Unallocated}
BoundIn(m, c) == {d \in There(m) : m[d].udp = c}

ConnMap(m) == m \in [Conns -> ConnectionRecord \cup {Unallocated}]
HoldMap(h) == h \in [Conns -> Nat]

(* Each connection has the references it is said to have.                  *)
RefsIn(m, h) ==
    \A c \in Conns :
        LET count == h[c] + Cardinality(BoundIn(m, c))
        IN  IF c \in There(m) THEN m[c].refs = count /\ count > 0 ELSE count = 0

(* A connection is bound to a datagram connection or to none, and datagram *)
(* connections are bound to none: letting go of one frees at most two.     *)
Chains(m) ==
    \A c \in There(m) :
        /\ m[c].kind = "inet_dgram" => m[c].udp = NoConn
        /\ m[c].udp # NoConn => m[c].udp \in There(m) /\ m[m[c].udp].kind = "inet_dgram"

OwnedIn(m, s) ==
    /\ s = {m[c].fd : c \in {d \in There(m) : m[d].fd # Closed}}
    /\ \A c, d \in There(m) : m[c].fd # Closed /\ m[c].fd = m[d].fd => c = d

(* The part of the invariant that only the references need.                *)
Counted(m, h) ==
    ConnMap(m) /\ HoldMap(h) /\ IsFiniteSet(There(m)) /\ Chains(m) /\ RefsIn(m, h)
-----------------------------------------------------------------------------
LEMMA BoundFacts ==
    ASSUME NEW m, NEW h, Counted(m, h), NEW c \in Conns
    PROVE  /\ IsFiniteSet(BoundIn(m, c)) /\ Cardinality(BoundIn(m, c)) \in Nat
           /\ Cardinality(BoundIn(m, c)) = 0 <=> BoundIn(m, c) = {}
           /\ c \notin There(m) => h[c] = 0 /\ BoundIn(m, c) = {}
PROOF
<1>1. IsFiniteSet(BoundIn(m, c))
  <2>1. BoundIn(m, c) \subseteq There(m)
    BY DEF BoundIn
  <2> QED
    BY <2>1, FS_Subset DEF Counted
<1>2. Cardinality(BoundIn(m, c)) \in Nat
  BY <1>1, FS_CardinalityType
<1>3. Cardinality(BoundIn(m, c)) = 0 <=> BoundIn(m, c) = {}
  BY <1>1, FS_EmptySet
<1> QED
  BY <1>1, <1>2, <1>3 DEF Counted, RefsIn, HoldMap

(* A step that frees nothing and binds nothing: references and holds grow  *)
(* or shrink alike.                                                        *)
LEMMA SameBindings ==
    ASSUME NEW m, NEW h, Counted(m, h), NEW n, NEW g, ConnMap(n), HoldMap(g),
           There(n) = There(m),
           \A c \in There(m) : /\ n[c].udp = m[c].udp /\ n[c].kind = m[c].kind
                               /\ n[c].refs - g[c] = m[c].refs - h[c] /\ n[c].refs > 0,
           \A c \in Conns \ There(m) : g[c] = h[c]
    PROVE  Counted(n, g)
PROOF
<1>1. \A c \in Conns : BoundIn(n, c) = BoundIn(m, c)
  BY DEF BoundIn
<1>2. Chains(n)
  BY DEF Counted, Chains
<1>3. RefsIn(n, g)
  <2> SUFFICES ASSUME NEW c \in Conns
               PROVE  LET count == g[c] + Cardinality(BoundIn(n, c))
                      IN  IF c \in There(n) THEN n[c].refs = count /\ count > 0 ELSE count = 0
    BY DEF RefsIn
  <2>1. Cardinality(BoundIn(m, c)) \in Nat /\ g[c] \in Nat /\ h[c] \in Nat
    BY BoundFacts DEF Counted, HoldMap
  <2>2. CASE c \notin There(m)
    BY <1>1, <2>1, <2>2 DEF Counted, RefsIn
  <2>3. CASE c \in There(m)
    <3>1. m[c].refs \in Nat /\ n[c].refs \in Nat
      BY <2>3 DEF Counted, ConnMap, There, ConnectionRecord
    <3>2. m[c].refs = h[c] + Cardinality(BoundIn(m, c))
      BY <2>3 DEF Counted, RefsIn
    <3> QED
      BY <1>1, <2>1, <2>3, <3>1, <3>2
  <2> QED
    BY <2>2, <2>3
<1> QED
  BY <1>2, <1>3 DEF Counted

(* The creation of a connection, with a reference of its own to the        *)
(* datagram connection that it is bound to.                                *)
LEMMA CreatedCounted ==
    ASSUME NEW h, Counted(conns, h), NEW c \in Conns, c \notin There(conns),
           NEW kind \in ConnKinds, NEW fd \in Fds \cup {Closed},
           NEW udp \in Conns \cup {NoConn},
           kind = "inet_dgram" => udp = NoConn,
           udp # NoConn => udp \in There(conns) /\ conns[udp].kind = "inet_dgram",
           NEW g, HoldMap(g), g[c] = 1, \A d \in Conns \ {c} : g[d] = h[d]
    PROVE  /\ Counted(Created(c, kind, fd, udp), g)
           /\ There(Created(c, kind, fd, udp)) = There(conns) \cup {c}
           /\ Created(c, kind, fd, udp)[c].fd = fd
           /\ \A d \in There(conns) : Created(c, kind, fd, udp)[d].fd = conns[d].fd
PROOF
<1> DEFINE n == Created(c, kind, fd, udp)
<1>0. c # udp
  BY ClosedIsNoDescriptor
<1>1. n[c] = [kind |-> kind, fd |-> fd, udp |-> udp, refs |-> 1]
  BY <1>0 DEF Created
<1>2. udp # NoConn => udp # c /\ n[udp] = [conns[udp] EXCEPT !.refs = @ + 1]
  BY ClosedIsNoDescriptor DEF Created
<1>3. \A d \in Conns \ {c, udp} : n[d] = conns[d]
  BY DEF Created
<1>4. n[c] \in ConnectionRecord /\ n[c] # Unallocated
  BY <1>1, UnallocatedIsNoConnection DEF ConnectionRecord
<1>5. ASSUME NEW d \in There(conns)
      PROVE  /\ d # c /\ conns[d] \in ConnectionRecord
             /\ n[d] \in ConnectionRecord /\ n[d] # Unallocated
             /\ n[d].kind = conns[d].kind /\ n[d].udp = conns[d].udp /\ n[d].fd = conns[d].fd
             /\ n[d].refs = IF d = udp THEN conns[d].refs + 1 ELSE conns[d].refs
  <2>1. d # c /\ conns[d] \in ConnectionRecord
    BY DEF There, Counted, ConnMap
  <2>2. CASE d = udp
    <3>1. n[d] = [conns[d] EXCEPT !.refs = @ + 1]
      BY <1>2, <2>2, ClosedIsNoDescriptor DEF There
    <3>2. n[d] \in ConnectionRecord /\ n[d].kind = conns[d].kind /\ n[d].udp = conns[d].udp
          /\ n[d].fd = conns[d].fd /\ n[d].refs = conns[d].refs + 1
      BY <2>1, <3>1 DEF ConnectionRecord
    <3> QED
      BY <2>1, <2>2, <3>2, UnallocatedIsNoConnection
  <2>3. CASE d # udp
    BY <1>3, <2>1, <2>3, UnallocatedIsNoConnection DEF There
  <2> QED
    BY <2>2, <2>3
<1>6. \A d \in Conns : d # c /\ d \notin There(conns) => n[d] = Unallocated
  BY <1>3, ClosedIsNoDescriptor DEF There
<1>7. There(n) = There(conns) \cup {c}
  BY <1>4, <1>5, <1>6 DEF There
<1>8. ConnMap(n)
  <2>1. n = [d \in Conns |-> n[d]]
    BY DEF Created
  <2>2. \A d \in Conns : n[d] \in ConnectionRecord \cup {Unallocated}
    BY <1>4, <1>5, <1>6
  <2> QED
    BY <2>1, <2>2 DEF ConnMap
<1>9. IsFiniteSet(There(n))
  BY <1>7, FS_AddElement DEF Counted
<1>10. Chains(n)
  BY <1>1, <1>2, <1>5, <1>7 DEF Counted, Chains
<1>11. \A d \in Conns : BoundIn(n, d) = IF d = udp THEN BoundIn(conns, d) \cup {c}
                                        ELSE BoundIn(conns, d)
  BY <1>1, <1>5, <1>7 DEF BoundIn
<1>12. RefsIn(n, g)
  <2> SUFFICES ASSUME NEW d \in Conns
               PROVE  LET count == g[d] + Cardinality(BoundIn(n, d))
                      IN  IF d \in There(n) THEN n[d].refs = count /\ count > 0 ELSE count = 0
    BY DEF RefsIn
  <2>1. Cardinality(BoundIn(conns, d)) \in Nat /\ g[d] \in Nat /\ h[d] \in Nat
    BY BoundFacts DEF Counted, HoldMap
  <2>2. CASE d = c
    <3>1. BoundIn(n, d) = {}
      BY <1>2, <1>11, <2>2, BoundFacts, ClosedIsNoDescriptor
    <3>2. Cardinality(BoundIn(n, d)) = 0
      BY <3>1, FS_EmptySet
    <3> QED
      BY <1>1, <1>7, <2>2, <3>2
  <2>3. CASE d # c /\ d = udp
    <3>1. d \in There(conns)
      BY <2>3, ClosedIsNoDescriptor
    <3>2. c \notin BoundIn(conns, d)
      BY DEF BoundIn
    <3>3. Cardinality(BoundIn(n, d)) = Cardinality(BoundIn(conns, d)) + 1
      BY <1>11, <2>3, <3>2, BoundFacts, FS_AddElement
    <3>4. conns[d].refs \in Nat /\ n[d].refs = conns[d].refs + 1
      BY <1>5, <2>3, <3>1 DEF ConnectionRecord
    <3>5. conns[d].refs = h[d] + Cardinality(BoundIn(conns, d))
      BY <3>1 DEF Counted, RefsIn
    <3> QED
      BY <1>7, <2>1, <2>3, <3>1, <3>3, <3>4, <3>5
  <2>4. CASE d # c /\ d # udp
    <3>1. Cardinality(BoundIn(n, d)) = Cardinality(BoundIn(conns, d))
      BY <1>11, <2>4
    <3>2. d \in There(n) <=> d \in There(conns)
      BY <1>7, <2>4
    <3>3. d \in There(conns) => n[d].refs = conns[d].refs
      BY <1>5, <2>4
    <3> QED
      BY <2>4, <3>1, <3>2, <3>3 DEF Counted, RefsIn
  <2> QED
    BY <2>2, <2>3, <2>4
<1> QED
  BY <1>1, <1>5, <1>7, <1>8, <1>9, <1>10, <1>12 DEF Counted

(* A reference is given up: the last one frees the connection, and with it *)
(* the datagram connection that nobody else has.                           *)
LEMMA ReleasedCounted ==
    ASSUME NEW h, Counted(conns, h), NEW c \in There(conns), h[c] > 0,
           NEW g, HoldMap(g), g[c] = h[c] - 1, \A d \in Conns \ {c} : g[d] = h[d]
    PROVE  /\ Counted(WithoutRef(c), g)
           /\ Ending(c) \subseteq There(conns)
           /\ There(WithoutRef(c)) = There(conns) \ Ending(c)
           /\ \A d \in There(conns) \ Ending(c) : WithoutRef(c)[d].fd = conns[d].fd
PROOF
<1> DEFINE n == WithoutRef(c)
           u == conns[c].udp
<1>1. /\ \A d \in There(conns) : d \in Conns /\ conns[d] \in ConnectionRecord
      /\ \A d \in There(conns) : conns[d].refs \in Nat /\ conns[d].refs > 0
      /\ \A d \in There(conns) : conns[d].refs = h[d] + Cardinality(BoundIn(conns, d))
  BY DEF There, Counted, ConnMap, RefsIn, ConnectionRecord
<1>2. \A d \in Conns : h[d] \in Nat /\ g[d] \in Nat /\ Cardinality(BoundIn(conns, d)) \in Nat
  BY BoundFacts DEF Counted, HoldMap
<1>3. c \in Conns /\ NoConn \notin Conns /\ (u = NoConn \/ u \in There(conns))
  BY <1>1, ClosedIsNoDescriptor DEF Counted, Chains
<1>4. CASE conns[c].refs > 1
  <2>1. Ending(c) = {}
    BY <1>4 DEF Ending
  <2>2. n[c] = [conns[c] EXCEPT !.refs = @ - 1] /\ \A d \in Conns \ {c} : n[d] = conns[d]
    BY <1>3, <2>1 DEF WithoutRef
  <2>3. /\ n[c] \in ConnectionRecord /\ n[c].refs = conns[c].refs - 1
        /\ n[c].kind = conns[c].kind /\ n[c].udp = conns[c].udp /\ n[c].fd = conns[c].fd
    BY <1>1, <1>4, <2>2 DEF ConnectionRecord
  <2>4. There(n) = There(conns)
    BY <1>3, <2>2, <2>3, UnallocatedIsNoConnection DEF There
  <2>5. ConnMap(n)
    <3>1. n = [d \in Conns |-> n[d]]
      BY DEF WithoutRef
    <3>2. \A d \in Conns : n[d] \in ConnectionRecord \cup {Unallocated}
      BY <2>2, <2>3 DEF Counted, ConnMap
    <3> QED
      BY <3>1, <3>2 DEF ConnMap
  <2>6. \A d \in There(conns) :
           /\ n[d].udp = conns[d].udp /\ n[d].kind = conns[d].kind
           /\ n[d].refs - g[d] = conns[d].refs - h[d] /\ n[d].refs > 0
    <3>1. n[c].udp = conns[c].udp /\ n[c].kind = conns[c].kind
          /\ n[c].refs - g[c] = conns[c].refs - h[c] /\ n[c].refs > 0
      BY <1>1, <1>2, <1>3, <1>4, <2>3
    <3>2. \A d \in There(conns) \ {c} : n[d] = conns[d] /\ g[d] = h[d] /\ conns[d].refs > 0
      BY <1>1, <2>2
    <3> QED
      BY <3>1, <3>2
  <2>7. Counted(n, g)
    BY <1>3, <2>4, <2>5, <2>6, SameBindings
  <2> QED
    BY <1>1, <2>1, <2>2, <2>3, <2>4, <2>7
<1>5. CASE conns[c].refs <= 1
  <2>1. h[c] = 1 /\ g[c] = 0 /\ BoundIn(conns, c) = {}
    BY <1>1, <1>2, <1>3, <1>5, BoundFacts
  <2>2. u # c
    BY <1>3, <2>1 DEF BoundIn
  <2>3. u # NoConn => u \in Conns /\ conns[u].udp = NoConn
    BY <1>1, <1>3 DEF Counted, Chains
  <2>4. Ending(c) = {c} \cup {d \in {u} : d # NoConn /\ conns[d].refs = 1}
    BY <1>1, <1>3, <1>5, <2>3 DEF Ending
  <2>5. \A d \in Ending(c) : d \in Conns => n[d] = Unallocated
    BY DEF WithoutRef
  <2>6. c \in Ending(c) /\ n[c] = Unallocated
    BY <1>3, <2>4, <2>5
  <2>7. u \in Conns \ Ending(c) => n[u] = [conns[u] EXCEPT !.refs = @ - 1]
    BY <1>3, <2>2, <2>4 DEF WithoutRef
  <2>8. \A d \in Conns \ {c, u} : n[d] = conns[d]
    BY <2>4 DEF WithoutRef
  <2>9. ASSUME NEW d \in There(conns), d \notin Ending(c)
        PROVE  /\ n[d] \in ConnectionRecord /\ n[d] # Unallocated
               /\ n[d].kind = conns[d].kind /\ n[d].udp = conns[d].udp /\ n[d].fd = conns[d].fd
               /\ n[d].refs = IF d = u THEN conns[d].refs - 1 ELSE conns[d].refs
               /\ n[d].refs > 0 /\ d # c
    <3>1. d \in Conns /\ conns[d] \in ConnectionRecord /\ d # c
      BY <1>1, <2>4, <2>9
    <3>2. CASE d = u
      <4>1. conns[d].refs > 1 /\ n[d] = [conns[d] EXCEPT !.refs = @ - 1]
        BY <1>1, <1>3, <2>4, <2>7, <2>9, <3>1, <3>2
      <4>2. /\ n[d] \in ConnectionRecord /\ n[d].refs = conns[d].refs - 1
            /\ n[d].kind = conns[d].kind /\ n[d].udp = conns[d].udp /\ n[d].fd = conns[d].fd
        BY <3>1, <4>1 DEF ConnectionRecord
      <4> QED
        BY <1>1, <3>1, <3>2, <4>1, <4>2, UnallocatedIsNoConnection
    <3>3. CASE d # u
      BY <1>1, <2>8, <3>1, <3>3, UnallocatedIsNoConnection
    <3> QED
      BY <3>2, <3>3
  <2>10. Ending(c) \subseteq There(conns)
    BY <1>3, <2>4
  <2>11. \A d \in Conns : d \in Ending(c) \/ d \notin There(conns) => n[d] = Unallocated
    BY <1>3, <2>5, <2>6, <2>8 DEF There
  <2>12. There(n) = There(conns) \ Ending(c)
    BY <1>1, <2>9, <2>11 DEF There
  <2>13. ConnMap(n)
    <3>1. n = [d \in Conns |-> n[d]]
      BY DEF WithoutRef
    <3>2. \A d \in Conns : n[d] \in ConnectionRecord \cup {Unallocated}
      BY <2>9, <2>11
    <3> QED
      BY <3>1, <3>2 DEF ConnMap
  <2>14. IsFiniteSet(There(n))
    BY <2>12, FS_Difference DEF Counted
  <2>15. \A d \in Conns : BoundIn(n, d) = IF d = u THEN BoundIn(conns, d) \ {c}
                                          ELSE BoundIn(conns, d)
    <3> SUFFICES ASSUME NEW d \in Conns
                 PROVE  BoundIn(n, d) = IF d = u THEN BoundIn(conns, d) \ {c}
                                        ELSE BoundIn(conns, d)
      OBVIOUS
    <3>1. Ending(c) \cap BoundIn(conns, d) = IF d = u THEN {c} ELSE {}
      BY <1>3, <2>3, <2>4 DEF BoundIn
    <3>2. BoundIn(n, d) = BoundIn(conns, d) \ Ending(c)
      BY <2>9, <2>12 DEF BoundIn
    <3> QED
      BY <3>1, <3>2
  <2>16. u \in Ending(c) => h[u] = 0 /\ BoundIn(conns, u) \ {c} = {}
    <3> SUFFICES ASSUME u \in Ending(c) PROVE h[u] = 0 /\ BoundIn(conns, u) \ {c} = {}
      OBVIOUS
    <3>1. u \in There(conns) /\ u \in Conns /\ conns[u].refs = 1
      BY <1>3, <2>2, <2>3, <2>4
    <3>2. c \in BoundIn(conns, u)
      BY DEF BoundIn
    <3>3. Cardinality(BoundIn(conns, u) \ {c}) = Cardinality(BoundIn(conns, u)) - 1
      BY <3>1, <3>2, BoundFacts, FS_RemoveElement
    <3>4. IsFiniteSet(BoundIn(conns, u) \ {c})
      BY <3>1, BoundFacts, FS_Difference
    <3>5. Cardinality(BoundIn(conns, u) \ {c}) \in Nat
      BY <3>4, FS_CardinalityType
    <3>6. Cardinality(BoundIn(conns, u) \ {c}) = 0 /\ h[u] = 0
      <4>1. Cardinality(BoundIn(conns, u)) \in Nat /\ h[u] \in Nat
        BY <1>2, <3>1
      <4>2. 1 = h[u] + Cardinality(BoundIn(conns, u))
        BY <1>1, <3>1
      <4> QED
        BY <3>3, <3>5, <4>1, <4>2
    <3> QED
      BY <3>4, <3>6, FS_EmptySet
  <2>17. RefsIn(n, g)
    <3> SUFFICES ASSUME NEW d \in Conns
                 PROVE  LET count == g[d] + Cardinality(BoundIn(n, d))
                        IN  IF d \in There(n) THEN n[d].refs = count /\ count > 0 ELSE count = 0
      BY DEF RefsIn
    <3>1. CASE d = c
      <4>1. BoundIn(n, d) = {}
        BY <2>1, <2>2, <2>15, <3>1
      <4>2. Cardinality(BoundIn(n, d)) = 0 /\ d \notin There(n)
        BY <2>4, <2>12, <3>1, <4>1, FS_EmptySet
      <4> QED
        BY <2>1, <3>1, <4>2
    <3>2. CASE d = u /\ d \in Ending(c)
      <4>1. BoundIn(n, d) = {} /\ g[d] = 0
        BY <2>2, <2>15, <2>16, <3>2
      <4>2. Cardinality(BoundIn(n, d)) = 0 /\ d \notin There(n)
        BY <2>12, <3>2, <4>1, FS_EmptySet
      <4> QED
        BY <4>1, <4>2
    <3>3. CASE d = u /\ d \notin Ending(c)
      <4>1. d \in There(conns) /\ d \in There(n)
        BY <1>3, <2>12, <3>3
      <4>2. c \in BoundIn(conns, d)
        BY <3>3 DEF BoundIn
      <4>3. Cardinality(BoundIn(n, d)) = Cardinality(BoundIn(conns, d)) - 1
        BY <2>15, <3>3, <4>2, BoundFacts, FS_RemoveElement
      <4>4. n[d].refs = conns[d].refs - 1 /\ n[d].refs > 0 /\ g[d] = h[d]
        BY <2>2, <2>9, <3>3, <4>1
      <4> QED
        BY <1>1, <1>2, <4>1, <4>3, <4>4
    <3>4. CASE d \notin {c, u}
      <4>1. BoundIn(n, d) = BoundIn(conns, d) /\ g[d] = h[d]
        BY <2>15, <3>4
      <4>2. d \in There(n) <=> d \in There(conns)
        BY <2>4, <2>12, <3>4
      <4>3. d \in There(n) => n[d].refs = conns[d].refs
        BY <2>8, <3>4
      <4> QED
        BY <4>1, <4>2, <4>3 DEF Counted, RefsIn
    <3> QED
      BY <3>1, <3>2, <3>3, <3>4
  <2>18. Chains(n)
    <3> SUFFICES ASSUME NEW d \in There(n)
                 PROVE  /\ n[d].kind = "inet_dgram" => n[d].udp = NoConn
                        /\ n[d].udp # NoConn =>
                             n[d].udp \in There(n) /\ n[n[d].udp].kind = "inet_dgram"
      BY DEF Chains
    <3>1. /\ d \in There(conns) /\ d \notin Ending(c) /\ d # c
          /\ n[d].kind = conns[d].kind /\ n[d].udp = conns[d].udp
      BY <2>9, <2>12
    <3>2. conns[d].kind = "inet_dgram" => conns[d].udp = NoConn
      BY <3>1 DEF Counted, Chains
    <3>3. ASSUME conns[d].udp # NoConn
          PROVE  conns[d].udp \in There(n) /\ n[conns[d].udp].kind = "inet_dgram"
      <4>1. conns[d].udp \in There(conns) /\ conns[conns[d].udp].kind = "inet_dgram"
        BY <3>1, <3>3 DEF Counted, Chains
      <4>2. conns[d].udp \notin Ending(c)
        <5>1. conns[d].udp # c
          BY <2>1, <3>1 DEF BoundIn
        <5>2. u \in Ending(c) => conns[d].udp # u
          BY <2>16, <3>1 DEF BoundIn
        <5> QED
          BY <2>4, <5>1, <5>2
      <4> QED
        BY <2>9, <2>12, <4>1, <4>2
    <3> QED
      BY <3>1, <3>2, <3>3
  <2>19. Counted(n, g)
    BY <2>13, <2>14, <2>17, <2>18 DEF Counted
  <2> QED
    BY <2>9, <2>10, <2>12, <2>19
<1> QED
  BY <1>1, <1>4, <1>5
-----------------------------------------------------------------------------
(* Descriptors.                                                            *)

(* However an open fails, every descriptor it opened is closed again.      *)
LEMMA OutcomesAre ==
    ASSUME socks \subseteq Fds, NEW kind \in ConnKinds, NEW udp,
           NEW o \in OpenOutcomes(kind, udp)
    PROVE  \/ o.fd = Closed /\ o.open = socks
           \/ o.fd \in Fds \ socks /\ o.open = socks \cup {o.fd}
PROOF
<1> DEFINE Fine(x) == \/ x.fd = Closed /\ x.open = socks
                      \/ x.fd \in Fds \ socks /\ x.open = socks \cup {x.fd}
<1>1. \A x \in SocketCreate : Fine(x)
  BY DEF SocketCreate, Failed, Opened
<1>2. \A x : Fine(x) => Fine(Failed(x.open \ {x.fd})) /\ Fine(Failed(socks))
  BY ClosedIsNoDescriptor DEF Failed
<1>3. \A x \in Setup : Fine(x)
  BY <1>1, <1>2 DEF Setup
<1>4. Fine(NoAddress)
  BY DEF NoAddress, Failed
<1>5. (\A x \in StreamOpen : Fine(x)) /\ (\A x \in DgramOpen : Fine(x))
  BY <1>2, <1>3, <1>4 DEF StreamOpen, DgramOpen
<1>6. \A x \in UxOpen(udp) : Fine(x)
  BY <1>1, <1>2 DEF UxOpen, Failed
<1>7. Fine(o)
  <2>1. CASE kind = "inet_stream"
    BY <1>5, <2>1 DEF OpenOutcomes, UxKinds
  <2>2. CASE kind = "inet_dgram"
    BY <1>5, <2>2 DEF OpenOutcomes, UxKinds
  <2>3. CASE kind \in UxKinds
    BY <1>4, <1>6, <2>3 DEF OpenOutcomes, UxKinds
  <2> QED
    BY <2>1, <2>2, <2>3 DEF ConnKinds, UxKinds
<1> QED
  BY <1>7

(* A connection without a descriptor stays without, or gets a new one.     *)
LEMMA OwnedGrows ==
    ASSUME NEW m, NEW s, OwnedIn(m, s), NEW n, NEW r, NEW c,
           There(n) = There(m) \cup {c}, c \in There(m) => m[c].fd = Closed,
           \A d \in There(m) \ {c} : n[d].fd = m[d].fd,
           \/ n[c].fd = Closed /\ r = s
           \/ n[c].fd # Closed /\ n[c].fd \notin s /\ r = s \cup {n[c].fd}
    PROVE  OwnedIn(n, r)
PROOF
<1>1. \A d \in There(m) : m[d].fd # Closed => m[d].fd \in s
  BY DEF OwnedIn
<1>2. \A d, e \in There(n) : n[d].fd # Closed /\ n[d].fd = n[e].fd => d = e
  BY <1>1 DEF OwnedIn
<1>3. r = {n[d].fd : d \in {e \in There(n) : n[e].fd # Closed}}
  BY DEF OwnedIn
<1> QED
  BY <1>2, <1>3 DEF OwnedIn

(* Connections that are freed, or closed, give their descriptors up.       *)
LEMMA OwnedStays ==
    ASSUME NEW m, NEW s, OwnedIn(m, s), NEW n, There(n) = There(m),
           \A d \in There(m) : n[d].fd = m[d].fd
    PROVE  OwnedIn(n, s)
PROOF
<1>1. {n[d].fd : d \in {e \in There(n) : n[e].fd # Closed}}
        = {m[d].fd : d \in {e \in There(m) : m[e].fd # Closed}}
  OBVIOUS
<1> QED
  BY <1>1 DEF OwnedIn

LEMMA OwnedShrinks ==
    ASSUME NEW m, NEW s, OwnedIn(m, s), NEW n, NEW r, NEW ended \in SUBSET There(m),
           There(n) \subseteq There(m), There(m) \ ended \subseteq There(n),
           \A d \in There(n) : n[d].fd = IF d \in ended THEN Closed ELSE m[d].fd,
           r = s \ {m[d].fd : d \in ended}
    PROVE  OwnedIn(n, r)
PROOF
<1>1. \A d, e \in There(n) : n[d].fd # Closed /\ n[d].fd = n[e].fd => d = e
  BY DEF OwnedIn
<1>2. \A d \in There(n) : n[d].fd # Closed => n[d].fd \in r
  BY DEF OwnedIn
<1>3. ASSUME NEW f \in r
      PROVE  \E d \in There(n) : n[d].fd # Closed /\ f = n[d].fd
  <2>1. PICK d \in There(m) : m[d].fd # Closed /\ f = m[d].fd
    BY DEF OwnedIn
  <2> QED
    BY <2>1
<1>4. r = {n[d].fd : d \in {e \in There(n) : n[e].fd # Closed}}
  BY <1>2, <1>3
<1> QED
  BY <1>1, <1>4 DEF OwnedIn
-----------------------------------------------------------------------------
(* The inductive invariant.                                                *)
ConnInv == socks \subseteq Fds /\ Counted(conns, held) /\ OwnedIn(conns, socks)

LEMMA HeldIsThere ==
    ASSUME ConnInv, NEW c \in Conns, held[c] > 0
    PROVE  /\ c \in There(conns) /\ conns[c] \in ConnectionRecord
           /\ held[c] \in Nat /\ conns[c].refs \in Nat /\ conns[c].refs > 0
PROOF
<1>1. c \in There(conns)
  BY BoundFacts DEF ConnInv
<1> QED
  BY <1>1 DEF ConnInv, Counted, There, ConnMap, HoldMap, ConnectionRecord, RefsIn

LEMMA InitConn == ConnInit => ConnInv
PROOF
<1> SUFFICES ASSUME ConnInit PROVE ConnInv
  OBVIOUS
<1>1. There(conns) = {}
  BY DEF ConnInit, There
<1>2. \A c \in Conns : BoundIn(conns, c) = {}
  BY <1>1 DEF BoundIn
<1>3. \A c \in Conns : Cardinality(BoundIn(conns, c)) = 0
  BY <1>2, FS_EmptySet
<1>4. RefsIn(conns, held)
  BY <1>1, <1>3 DEF RefsIn, ConnInit
<1>5. IsFiniteSet(There(conns))
  BY <1>1, FS_EmptySet
<1>6. ConnMap(conns) /\ HoldMap(held) /\ Chains(conns)
  BY <1>1 DEF ConnInit, ConnMap, HoldMap, Chains
<1>7. OwnedIn(conns, socks)
  BY <1>1 DEF OwnedIn, ConnInit
<1> QED
  BY <1>4, <1>5, <1>6, <1>7 DEF ConnInv, Counted, ConnInit

LEMMA CreateKeeps ==
    ASSUME ConnInv, NEW c \in Conns, Create(c)
    PROVE  ConnInv'
PROOF
<1>1. PICK kind \in ConnKinds, udp \in Conns \cup {NoConn} :
        /\ IF kind \in UxKinds
             THEN udp # NoConn /\ held[udp] > 0 /\ conns[udp].kind = "inet_dgram"
             ELSE udp = NoConn
        /\ \/ conns' = Created(c, kind, Closed, udp) /\ UNCHANGED socks
           \/ \E f \in Fds \ socks :
                /\ conns' = Created(c, kind, f, udp)
                /\ socks' = socks \cup {f}
  BY DEF Create
<1>2. PICK fd \in Fds \cup {Closed} :
        /\ conns' = Created(c, kind, fd, udp)
        /\ \/ fd = Closed /\ socks' = socks
           \/ fd \in Fds \ socks /\ socks' = socks \cup {fd}
  BY <1>1
<1>3. c \notin There(conns)
  BY DEF Create, Allocated, There
<1>4. /\ kind = "inet_dgram" => udp = NoConn
      /\ udp # NoConn => udp \in There(conns) /\ conns[udp].kind = "inet_dgram"
  BY <1>1, HeldIsThere DEF UxKinds
<1>5. HoldMap(held') /\ held'[c] = 1 /\ \A d \in Conns \ {c} : held'[d] = held[d]
  BY DEF Create, ConnInv, Counted, HoldMap
<1>6. /\ Counted(conns', held')
      /\ There(conns') = There(conns) \cup {c}
      /\ conns'[c].fd = fd
      /\ \A d \in There(conns) : conns'[d].fd = conns[d].fd
  BY <1>2, <1>3, <1>4, <1>5, CreatedCounted DEF ConnInv
<1>7. OwnedIn(conns', socks')
  BY <1>2, <1>3, <1>6, OwnedGrows, ClosedIsNoDescriptor DEF ConnInv
<1> QED
  BY <1>2, <1>6, <1>7 DEF ConnInv

LEMMA AddRefKeeps ==
    ASSUME ConnInv, NEW c \in Conns, ConnAddRef(c)
    PROVE  ConnInv'
PROOF
<1>1. /\ c \in There(conns) /\ conns[c] \in ConnectionRecord
      /\ held[c] \in Nat /\ conns[c].refs \in Nat /\ conns[c].refs > 0
  BY HeldIsThere DEF ConnAddRef
<1>2. conns \in [Conns -> ConnectionRecord \cup {Unallocated}] /\ held \in [Conns -> Nat]
  BY DEF ConnInv, Counted, ConnMap, HoldMap
<1>3. /\ conns' = [conns EXCEPT ![c].refs = @ + 1] /\ held' = [held EXCEPT ![c] = @ + 1]
      /\ socks' = socks
  BY DEF ConnAddRef
<1>4. /\ conns'[c] \in ConnectionRecord /\ conns'[c].refs = conns[c].refs + 1
      /\ conns'[c].kind = conns[c].kind /\ conns'[c].udp = conns[c].udp
      /\ conns'[c].fd = conns[c].fd
  BY <1>1, <1>2, <1>3 DEF ConnectionRecord
<1>5. \A d \in Conns \ {c} : conns'[d] = conns[d] /\ held'[d] = held[d]
  BY <1>2, <1>3
<1>6. ConnMap(conns')
  <2>1. conns' = [d \in Conns |-> conns'[d]]
    BY <1>2, <1>3
  <2>2. \A d \in Conns : conns'[d] \in ConnectionRecord \cup {Unallocated}
    BY <1>2, <1>4, <1>5
  <2> QED
    BY <2>1, <2>2 DEF ConnMap
<1>7. There(conns') = There(conns)
  BY <1>1, <1>4, <1>5, UnallocatedIsNoConnection DEF There
<1>8. HoldMap(held') /\ held'[c] = held[c] + 1
  BY <1>1, <1>2, <1>3 DEF HoldMap
<1>9. Counted(conns', held')
  <2>1. \A d \in There(conns) : d \in Conns /\ conns[d].refs > 0
    BY DEF ConnInv, Counted, RefsIn, There
  <2>2. \A d \in There(conns) :
           /\ conns'[d].udp = conns[d].udp /\ conns'[d].kind = conns[d].kind
           /\ conns'[d].refs - held'[d] = conns[d].refs - held[d] /\ conns'[d].refs > 0
    BY <1>1, <1>4, <1>5, <1>8, <2>1
  <2> QED
    BY <1>1, <1>5, <1>6, <1>7, <1>8, <2>2, SameBindings DEF ConnInv
<1>10. OwnedIn(conns', socks')
  <2>1. \A d \in There(conns) : conns'[d].fd = conns[d].fd
    BY <1>4, <1>5 DEF There
  <2> QED
    BY <1>3, <1>7, <2>1, OwnedStays DEF ConnInv
<1> QED
  BY <1>3, <1>9, <1>10 DEF ConnInv

LEMMA AutoreleaseKeeps ==
    ASSUME ConnInv, NEW c \in Conns, ConnAutorelease(c)
    PROVE  ConnInv'
PROOF
<1>1. c \in There(conns) /\ held[c] \in Nat /\ held[c] > 0
  BY HeldIsThere DEF ConnAutorelease
<1>2. /\ conns' = WithoutRef(c) /\ socks' = socks \ {conns[d].fd : d \in Ending(c)}
      /\ held' = [held EXCEPT ![c] = @ - 1]
  BY DEF ConnAutorelease, LetGo
<1>3. HoldMap(held') /\ held'[c] = held[c] - 1 /\ \A d \in Conns \ {c} : held'[d] = held[d]
  BY <1>1, <1>2 DEF ConnInv, Counted, HoldMap
<1>4. /\ Counted(conns', held')
      /\ Ending(c) \subseteq There(conns)
      /\ There(conns') = There(conns) \ Ending(c)
      /\ \A d \in There(conns) \ Ending(c) : conns'[d].fd = conns[d].fd
  <2>1. Counted(conns, held)
    BY DEF ConnInv
  <2> DEFINE g == held'
  <2>2. /\ HoldMap(g) /\ g[c] = held[c] - 1 /\ \A d \in Conns \ {c} : g[d] = held[d]
    BY <1>3
  <2> HIDE DEF g
  <2>3. /\ Counted(WithoutRef(c), g)
        /\ Ending(c) \subseteq There(conns)
        /\ There(WithoutRef(c)) = There(conns) \ Ending(c)
        /\ \A d \in There(conns) \ Ending(c) : WithoutRef(c)[d].fd = conns[d].fd
    BY <1>1, <2>1, <2>2, ReleasedCounted
  <2> QED
    BY <1>2, <2>3 DEF g
<1>5. OwnedIn(conns', socks')
  <2>1. \A d \in There(conns') : conns'[d].fd = IF d \in Ending(c) THEN Closed ELSE conns[d].fd
    BY <1>4
  <2> QED
    BY <1>2, <1>4, <2>1, OwnedShrinks DEF ConnInv
<1> QED
  BY <1>2, <1>4, <1>5 DEF ConnInv

(* What opening and closing have in common: only the descriptor of c       *)
(* changes.                                                                *)
LEMMA FdOnly ==
    ASSUME ConnInv, NEW c \in Conns, held[c] > 0,
           NEW fd \in Fds \cup {Closed}, conns' = [conns EXCEPT ![c].fd = fd], held' = held
    PROVE  /\ Counted(conns', held') /\ There(conns') = There(conns)
           /\ c \in There(conns) /\ conns'[c].fd = fd
           /\ \A d \in There(conns) \ {c} : conns'[d].fd = conns[d].fd
PROOF
<1>1. c \in There(conns) /\ conns[c] \in ConnectionRecord
  BY HeldIsThere
<1>2. conns \in [Conns -> ConnectionRecord \cup {Unallocated}] /\ HoldMap(held)
  BY DEF ConnInv, Counted, ConnMap
<1>3. /\ conns'[c] \in ConnectionRecord /\ conns'[c].refs = conns[c].refs
      /\ conns'[c].kind = conns[c].kind /\ conns'[c].udp = conns[c].udp
      /\ conns'[c].fd = fd
  BY <1>1, <1>2 DEF ConnectionRecord
<1>4. \A d \in Conns \ {c} : conns'[d] = conns[d]
  BY <1>2
<1>5. ConnMap(conns')
  <2>1. conns' = [d \in Conns |-> conns'[d]]
    BY <1>2
  <2>2. \A d \in Conns : conns'[d] \in ConnectionRecord \cup {Unallocated}
    BY <1>2, <1>3, <1>4
  <2> QED
    BY <2>1, <2>2 DEF ConnMap
<1>6. There(conns') = There(conns)
  BY <1>1, <1>3, <1>4, UnallocatedIsNoConnection DEF There
<1>7. \A d \in There(conns) :
         /\ conns'[d].udp = conns[d].udp /\ conns'[d].kind = conns[d].kind
         /\ conns'[d].refs - held[d] = conns[d].refs - held[d] /\ conns'[d].refs > 0
  BY <1>3, <1>4 DEF ConnInv, Counted, RefsIn, There
<1>8. Counted(conns', held')
  <2>1. Counted(conns, held)
    BY DEF ConnInv
  <2> DEFINE n == conns'
  <2>2. ConnMap(n) /\ There(n) = There(conns)
    BY <1>5, <1>6
  <2>3. \A d \in There(conns) :
           /\ n[d].udp = conns[d].udp /\ n[d].kind = conns[d].kind
           /\ n[d].refs - held[d] = conns[d].refs - held[d] /\ n[d].refs > 0
    BY <1>7
  <2> HIDE DEF n
  <2>4. Counted(n, held)
    BY <1>2, <2>1, <2>2, <2>3, SameBindings
  <2> QED
    BY <2>4 DEF n
<1> QED
  BY <1>1, <1>3, <1>4, <1>6, <1>8 DEF There

LEMMA OpenKeeps ==
    ASSUME ConnInv, NEW c \in Conns, ConnOpen(c)
    PROVE  ConnInv'
PROOF
<1>1. PICK o \in OpenOutcomes(conns[c].kind, conns[c].udp) :
        conns' = [conns EXCEPT ![c].fd = o.fd] /\ socks' = o.open
  BY DEF ConnOpen
<1>2. held[c] > 0 /\ held' = held /\ conns[c].fd = Closed
  BY DEF ConnOpen, IsOpen
<1>3. conns[c].kind \in ConnKinds
  BY <1>2, HeldIsThere DEF ConnectionRecord
<1>4. \/ o.fd = Closed /\ o.open = socks
      \/ o.fd \in Fds \ socks /\ o.open = socks \cup {o.fd}
  BY <1>3, OutcomesAre DEF ConnInv
<1>5. /\ Counted(conns', held') /\ There(conns') = There(conns)
      /\ c \in There(conns) /\ conns'[c].fd = o.fd
      /\ \A d \in There(conns) \ {c} : conns'[d].fd = conns[d].fd
  BY <1>1, <1>2, <1>4, FdOnly
<1>6. OwnedIn(conns', socks')
  <2>1. OwnedIn(conns, socks)
    BY DEF ConnInv
  <2>2. There(conns') = There(conns) \cup {c}
    BY <1>5
  <2>3. c \in There(conns) => conns[c].fd = Closed
    BY <1>2
  <2>4. \A d \in There(conns) \ {c} : conns'[d].fd = conns[d].fd
    BY <1>5
  <2>5. CASE o.fd = Closed
    <3>1. conns'[c].fd = Closed /\ socks' = socks
      BY <1>1, <1>4, <1>5, <2>5, ClosedIsNoDescriptor
    <3> QED
      BY <2>1, <2>2, <2>3, <2>4, <3>1, OwnedGrows
  <2>6. CASE o.fd # Closed
    <3>1. conns'[c].fd # Closed /\ conns'[c].fd \notin socks /\ socks' = socks \cup {conns'[c].fd}
      BY <1>1, <1>4, <1>5, <2>6
    <3> QED
      BY <2>1, <2>2, <2>3, <2>4, <3>1, OwnedGrows
  <2> QED
    BY <2>5, <2>6
<1> QED
  BY <1>1, <1>4, <1>5, <1>6 DEF ConnInv

LEMMA CloseKeeps ==
    ASSUME ConnInv, NEW c \in Conns, ConnClose(c)
    PROVE  ConnInv'
PROOF
<1>1. /\ held[c] > 0 /\ held' = held /\ conns' = [conns EXCEPT ![c].fd = Closed]
      /\ socks' = socks \ {conns[c].fd}
  BY DEF ConnClose
<1>2. /\ Counted(conns', held') /\ There(conns') = There(conns)
      /\ c \in There(conns) /\ conns'[c].fd = Closed
      /\ \A d \in There(conns) \ {c} : conns'[d].fd = conns[d].fd
  BY <1>1, FdOnly
<1>3. socks' = socks \ {conns[d].fd : d \in {c}}
  BY <1>1
<1>4. OwnedIn(conns', socks')
  <2>1. \A d \in There(conns') : conns'[d].fd = IF d \in {c} THEN Closed ELSE conns[d].fd
    BY <1>2
  <2>2. /\ {c} \in SUBSET There(conns) /\ There(conns') \subseteq There(conns)
        /\ There(conns) \ {c} \subseteq There(conns') /\ OwnedIn(conns, socks)
    BY <1>2 DEF ConnInv
  <2> HIDE DEF ConnInv
  <2> QED
    BY <1>3, <2>1, <2>2, OwnedShrinks
<1> QED
  BY <1>1, <1>2, <1>4 DEF ConnInv

LEMMA NextConn == ConnInv /\ [ConnNext]_connVars => ConnInv'
PROOF
<1> SUFFICES ASSUME ConnInv, [ConnNext]_connVars PROVE ConnInv'
  OBVIOUS
<1>1. CASE UNCHANGED connVars
  BY <1>1 DEF connVars, ConnInv
<1>2. CASE ConnNext
  BY <1>2, CreateKeeps, AddRefKeeps, AutoreleaseKeeps, OpenKeeps, CloseKeeps DEF ConnNext
<1> QED
  BY <1>1, <1>2

(* What the invariant says, in the words of Connection.                    *)
LEMMA InvOwns == ConnInv => ConnectionsOwned
PROOF
<1> SUFFICES ASSUME ConnInv PROVE ConnectionsOwned
  OBVIOUS
<1>1. Allocated = There(conns)
  BY DEF Allocated, There
<1>2. DescriptorsOwned
  BY <1>1 DEF ConnInv, OwnedIn, DescriptorsOwned, IsOpen
<1>3. RefsAre([c \in Conns |-> 0])
  <2> SUFFICES ASSUME NEW c \in Conns
               PROVE  LET bound == {d \in Allocated : conns[d].udp = c}
                          count == held[c] + Cardinality(bound) + [e \in Conns |-> 0][c]
                      IN  IF c \in Allocated THEN conns[c].refs = count /\ count > 0
                          ELSE count = 0
    BY DEF RefsAre
  <2>1. BoundIn(conns, c) = {d \in Allocated : conns[d].udp = c}
    BY <1>1 DEF BoundIn
  <2>2. Cardinality(BoundIn(conns, c)) \in Nat /\ held[c] \in Nat
    BY BoundFacts DEF ConnInv, Counted, HoldMap
  <2>3. held[c] + Cardinality(BoundIn(conns, c)) + [e \in Conns |-> 0][c]
          = held[c] + Cardinality(BoundIn(conns, c))
    BY <2>2
  <2>4. LET count == held[c] + Cardinality(BoundIn(conns, c))
        IN  IF c \in There(conns) THEN conns[c].refs = count /\ count > 0 ELSE count = 0
    BY DEF ConnInv, Counted, RefsIn
  <2> QED
    BY <1>1, <2>1, <2>3, <2>4
<1> QED
  BY <1>2, <1>3 DEF ConnectionsOwned

(* Connections that are opened, shared, closed and released in any order,  *)
(* with any call of the system failing, leak no descriptor and no memory,  *)
(* close and free nothing twice, and a ux connection keeps its datagram    *)
(* connection alive.                                                       *)
THEOREM ConnectionsKeepTheirOwn == ConnSpec => []ConnectionsOwned
PROOF
<1> QED
  BY InitConn, NextConn, InvOwns, PTL DEF ConnSpec
=============================================================================
