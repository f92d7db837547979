--------------------------- MODULE ClusterProofs ----------------------------
(***************************************************************************)
(* Proofs about the cluster: the hash rings of all nodes agree, and what   *)
(* the router's commands keep of the keys and of their answers.  For any   *)
(* nodes, keys, members, clients and hash function without collisions      *)
(* between nodes, and any number of lost and late relays.                  *)
(***************************************************************************)
EXTENDS Cluster, NaturalsInduction, WellFoundedInduction, TLAPS

LEMMA LeastMember ==
    ASSUME NEW S \in SUBSET Nat, S # {}
    PROVE  \E x \in S : \A y \in S : x <= y
<1>1. PICK x \in S : \A y \in S : <<y, x>> \notin OpToRel(<, Nat)
  BY NatLessThanWellFounded, WFMin
<1>2. \A y \in S : y \in Nat /\ x \in Nat /\ ~ (y < x)
  BY <1>1 DEF OpToRel
<1> QED BY <1>2

-----------------------------------------------------------------------------
(* AddNodes: the loop over the nodes                                       *)

\* The map after each of the first n nodes.
IsAdding(m, nodes, n, r) ==
    r = [i \in 0 .. n |->
            IF i = 0 THEN m ELSE IF nodes[i] = "" THEN r[i - 1] ELSE AddNode(r[i - 1], nodes[i])]

LEMMA AddingStep ==
    ASSUME NEW m, NEW nodes, NEW n \in Nat, NEW r, IsAdding(m, nodes, n, r)
    PROVE  \E q : IsAdding(m, nodes, n + 1, q)
<1> DEFINE last == IF nodes[n + 1] = "" THEN r[n] ELSE AddNode(r[n], nodes[n + 1])
<1> HIDE DEF last
<1> DEFINE q == [i \in 0 .. n + 1 |-> IF i = n + 1 THEN last ELSE r[i]]
<1>1. /\ q[n + 1] = last
      /\ \A i \in 0 .. n : q[i] = r[i]
      /\ q = [i \in 0 .. n + 1 |-> q[i]]
  OBVIOUS
<1>2. \A i \in 0 .. n :
          r[i] = IF i = 0 THEN m ELSE IF nodes[i] = "" THEN r[i - 1] ELSE AddNode(r[i - 1], nodes[i])
  BY DEF IsAdding
<1> HIDE DEF q
<1>3. ASSUME NEW i \in 0 .. n + 1
      PROVE  q[i] = IF i = 0 THEN m ELSE IF nodes[i] = "" THEN q[i - 1] ELSE AddNode(q[i - 1], nodes[i])
  <2>1. CASE i = n + 1
    <3>1. i # 0 /\ i - 1 = n /\ n \in 0 .. n
      BY <2>1
    <3> QED BY <1>1, <2>1, <3>1 DEF last
  <2>2. CASE i # n + 1
    <3>1. i \in 0 .. n /\ (i # 0 => i - 1 \in 0 .. n)
      BY <2>2
    <3> QED BY <1>1, <1>2, <3>1
  <2> QED BY <2>1, <2>2
<1>4. IsAdding(m, nodes, n + 1, q)
  BY <1>1, <1>3 DEF IsAdding
<1> QED BY <1>4

LEMMA AddingExists ==
    ASSUME NEW m, NEW nodes, NEW n \in Nat
    PROVE  \E r : IsAdding(m, nodes, n, r)
<1> DEFINE Bad == {k \in Nat : ~ \E r : IsAdding(m, nodes, k, r)}
<1> SUFFICES ASSUME Bad # {} PROVE FALSE
  OBVIOUS
<1>1. PICK k \in Bad : \A j \in Bad : k <= j
  <2>1. Bad \in SUBSET Nat
    OBVIOUS
  <2> HIDE DEF Bad
  <2> QED BY <2>1, LeastMember
<1>2. k # 0
  <2> DEFINE r == [i \in 0 .. 0 |-> m]
  <2> DEFINE Next1(i) == IF nodes[i] = "" THEN r[i - 1] ELSE AddNode(r[i - 1], nodes[i])
  <2>1. r = [i \in 0 .. 0 |-> IF i = 0 THEN m ELSE Next1(i)]
    <3> HIDE DEF Next1
    <3> QED OBVIOUS
  <2>2. IsAdding(m, nodes, 0, r)
    BY <2>1 DEF IsAdding
  <2> QED BY <1>1, <2>2
<1>3. k - 1 \in Nat /\ ~ (k <= k - 1) /\ k - 1 + 1 = k
  BY <1>2
<1>4. PICK r : IsAdding(m, nodes, k - 1, r)
  BY <1>1, <1>3
<1>5. \E q : IsAdding(m, nodes, k - 1 + 1, q)
  BY <1>3, <1>4, AddingStep
<1> QED BY <1>1, <1>3, <1>5

LEMMA AddedIs ==
    ASSUME NEW m, NEW nodes, Len(nodes) \in Nat
    PROVE  \E r : IsAdding(m, nodes, Len(nodes), r) /\ Added(m, nodes) = r[Len(nodes)]
<1> DEFINE r == CHOOSE f : IsAdding(m, nodes, Len(nodes), f)
<1>1. IsAdding(m, nodes, Len(nodes), r)
  BY AddingExists
<1>2. Added(m, nodes) = r[Len(nodes)]
  BY DEF Added, IsAdding
<1> QED BY <1>1, <1>2

\* The map holds the nodes S, each at its hash.
Holds(m, S) ==
    /\ m = [nodeHashs |-> m.nodeHashs, nodehashMap |-> m.nodehashMap]
    /\ m.nodeHashs \in Seq(Nat)
    /\ \A i \in 1 .. Len(m.nodeHashs) : \E n \in S : m.nodeHashs[i] = hashFunc[n]
    /\ \A n \in S : \E i \in 1 .. Len(m.nodeHashs) : m.nodeHashs[i] = hashFunc[n]
    /\ \A n \in S : hashFunc[n] \in DOMAIN m.nodehashMap /\ m.nodehashMap[hashFunc[n]] = n

LEMMA AddNodeHolds ==
    ASSUME NEW m, NEW S \in SUBSET Nodes, NEW node \in Nodes, Holds(m, S)
    PROVE  Holds(AddNode(m, node), S \cup {node})
<1> DEFINE h == hashFunc[node]
           hs == Append(m.nodeHashs, h)
           f == [g \in DOMAIN m.nodehashMap \cup {h} |-> IF g = h THEN node ELSE m.nodehashMap[g]]
           a == AddNode(m, node)
<1>1. a = [nodeHashs |-> hs, nodehashMap |-> f]
  BY DEF AddNode
<1>2. h \in Nat /\ m.nodeHashs \in Seq(Nat)
  BY HashAssumption DEF Holds
<1>3. /\ hs \in Seq(Nat)
      /\ Len(hs) = Len(m.nodeHashs) + 1 /\ Len(m.nodeHashs) \in Nat
      /\ hs[Len(m.nodeHashs) + 1] = h
      /\ \A i \in 1 .. Len(m.nodeHashs) : hs[i] = m.nodeHashs[i]
  BY <1>2
<1> DEFINE b == Len(m.nodeHashs)
<1> HIDE DEF h, hs
<1>4. \A i \in 1 .. Len(hs) : \E n \in S \cup {node} : hs[i] = hashFunc[n]
  <2> SUFFICES ASSUME NEW i \in 1 .. Len(hs) PROVE \E n \in S \cup {node} : hs[i] = hashFunc[n]
    OBVIOUS
  <2>1. CASE i = b + 1
    BY <1>3, <2>1 DEF h
  <2>2. CASE i # b + 1
    <3>1. i \in 1 .. b
      BY <1>3, <2>2
    <3>2. hs[i] = m.nodeHashs[i]
      BY <1>3, <3>1
    <3>3. \E n \in S : m.nodeHashs[i] = hashFunc[n]
      BY <3>1 DEF Holds
    <3> QED BY <3>2, <3>3
  <2> QED BY <2>1, <2>2
<1>5. ASSUME NEW n \in S \cup {node} PROVE \E i \in 1 .. Len(hs) : hs[i] = hashFunc[n]
  <2>1. CASE n = node
    <3>1. b + 1 \in 1 .. Len(hs) /\ hs[b + 1] = hashFunc[n]
      BY <1>3, <2>1 DEF h
    <3> QED BY <3>1
  <2>2. CASE n \in S
    <3>1. PICK i \in 1 .. b : m.nodeHashs[i] = hashFunc[n]
      BY <2>2 DEF Holds
    <3>2. i \in 1 .. Len(hs) /\ hs[i] = hashFunc[n]
      BY <1>3, <3>1
    <3> QED BY <3>2
  <2> QED BY <2>1, <2>2
<1>6. ASSUME NEW n \in S \cup {node} PROVE hashFunc[n] \in DOMAIN f /\ f[hashFunc[n]] = n
  <2>1. CASE n = node
    BY <2>1 DEF h
  <2>2. CASE n # node
    <3>1. n \in S /\ n \in Nodes /\ hashFunc[n] # h
      BY <2>2, HashAssumption DEF h
    <3>2. hashFunc[n] \in DOMAIN m.nodehashMap /\ m.nodehashMap[hashFunc[n]] = n
      BY <3>1 DEF Holds
    <3> QED BY <3>1, <3>2
  <2> QED BY <2>1, <2>2
<1> HIDE DEF f
<1>7. a.nodeHashs = hs /\ a.nodehashMap = f /\ a = [nodeHashs |-> a.nodeHashs, nodehashMap |-> a.nodehashMap]
  BY <1>1
<1> HIDE DEF a
<1>8. Holds(a, S \cup {node})
  BY <1>3, <1>4, <1>5, <1>6, <1>7 DEF Holds
<1> QED BY <1>8 DEF a
\* The names of the first n nodes of the list, without the empty ones.
Named(nodes, n) == {nodes[i] : i \in 1 .. n} \ {""}

Names == Nodes \cup {""}

LEMMA AddedHolds ==
    ASSUME NEW nodes \in Seq(Names)
    PROVE  Holds(Added(NewNodeMap, nodes), Named(nodes, Len(nodes)))
<1> DEFINE L == Len(nodes)
<1>1. L \in Nat
  OBVIOUS
<1>2. PICK r : IsAdding(NewNodeMap, nodes, L, r) /\ Added(NewNodeMap, nodes) = r[L]
  BY <1>1, AddedIs
<1> DEFINE Bad == {n \in 0 .. L : ~ Holds(r[n], Named(nodes, n))}
<1> SUFFICES ASSUME Bad # {} PROVE FALSE
  BY <1>1, <1>2
<1>3. PICK k \in Bad : \A j \in Bad : k <= j
  <2>1. Bad \in SUBSET Nat
    BY <1>1
  <2> HIDE DEF Bad
  <2> QED BY <2>1, LeastMember
<1>4. k \in 0 .. L /\ k \in Nat /\ ~ Holds(r[k], Named(nodes, k))
  BY <1>1, <1>3
<1>5. r[k] = IF k = 0 THEN NewNodeMap
             ELSE IF nodes[k] = "" THEN r[k - 1] ELSE AddNode(r[k - 1], nodes[k])
  BY <1>2, <1>4 DEF IsAdding
<1>6. CASE k = 0
  <2>1. Named(nodes, 0) = {}
    <3>1. 1 .. 0 = {}
      OBVIOUS
    <3> QED BY <3>1, Zenon DEF Named
  <2>2. Holds(NewNodeMap, {})
    <3> DEFINE m == NewNodeMap
    <3>1. /\ m.nodeHashs = <<>> /\ m.nodeHashs \in Seq(Nat) /\ Len(m.nodeHashs) = 0
          /\ m = [nodeHashs |-> m.nodeHashs, nodehashMap |-> m.nodehashMap]
      BY DEF NewNodeMap
    <3> HIDE DEF m
    <3>2. Holds(m, {})
      BY <3>1 DEF Holds
    <3> QED BY <3>2 DEF m
  <2> QED BY <1>4, <1>5, <1>6, <2>1, <2>2
<1>7. CASE k # 0
  <2>1. k - 1 \in 0 .. L /\ ~ (k <= k - 1) /\ k \in 1 .. L
    BY <1>1, <1>4, <1>7
  <2>2. Holds(r[k - 1], Named(nodes, k - 1))
    BY <1>3, <2>1
  <2>3. nodes[k] \in Names
    BY <1>1, <2>1
  <2>4. Named(nodes, k - 1) \in SUBSET Nodes
    <3>1. \A i \in 1 .. k - 1 : nodes[i] \in Names
      BY <1>1, <2>1
    <3> QED BY <3>1, Zenon DEF Named, Names
  <2>5. {nodes[i] : i \in 1 .. k} = {nodes[i] : i \in 1 .. k - 1} \cup {nodes[k]}
    <3>1. 1 .. k = (1 .. k - 1) \cup {k}
      BY <1>4, <1>7
    <3> QED BY <3>1
  <2>6. CASE nodes[k] = ""
    <3>1. Named(nodes, k) = Named(nodes, k - 1)
      BY <2>5, <2>6, Zenon DEF Named
    <3> QED BY <1>4, <1>5, <1>7, <2>2, <2>6, <3>1
  <2>7. CASE nodes[k] # ""
    <3>1. Named(nodes, k) = Named(nodes, k - 1) \cup {nodes[k]}
      BY <2>5, <2>7, Zenon DEF Named
    <3>2. nodes[k] \in Nodes
      BY <2>3, <2>7, Zenon DEF Names
    <3>3. Holds(AddNode(r[k - 1], nodes[k]), Named(nodes, k - 1) \cup {nodes[k]})
      BY <2>2, <2>4, <3>2, AddNodeHolds
    <3> QED BY <1>4, <1>5, <1>7, <2>7, <3>1, <3>3
  <2> QED BY <2>6, <2>7
<1> QED BY <1>6, <1>7

-----------------------------------------------------------------------------
(* sort.Ints                                                               *)

LEMMA GreatestAt ==
    ASSUME NEW n \in Nat, n # 0, NEW s \in [1 .. n -> Nat]
    PROVE  \E j \in 1 .. n : \A i \in 1 .. n : s[i] <= s[j]
<1> DEFINE Top(k) == \E j \in 1 .. k : \A i \in 1 .. k : s[i] <= s[j]
           Bad == {k \in Nat : k \in 1 .. n /\ ~ Top(k)}
<1> SUFFICES ASSUME Bad # {} PROVE FALSE
  <2> HIDE DEF Top
  <2> SUFFICES Top(n)
    BY DEF Top
  <2> QED OBVIOUS
<1>1. PICK k \in Bad : \A j \in Bad : k <= j
  <2>1. Bad \in SUBSET Nat
    OBVIOUS
  <2> HIDE DEF Bad
  <2> QED BY <2>1, LeastMember
<1>2. k \in 1 .. n /\ k \in Nat /\ ~ \E j \in 1 .. k : \A i \in 1 .. k : s[i] <= s[j]
  BY <1>1
<1>3. k # 1
  <2>1. 1 \in 1 .. 1 /\ \A i \in 1 .. 1 : s[i] <= s[1]
    <3>1. s[1] \in Nat /\ \A i \in 1 .. 1 : i = 1
      OBVIOUS
    <3> QED BY <3>1
  <2> QED BY <1>2, <2>1
<1>4. k - 1 \in 1 .. n /\ k - 1 \in Nat /\ ~ (k <= k - 1)
  BY <1>2, <1>3
<1>5. PICK j \in 1 .. k - 1 : \A i \in 1 .. k - 1 : s[i] <= s[j]
  BY <1>1, <1>4
<1>6. s[j] \in Nat /\ s[k] \in Nat /\ \A i \in 1 .. k : s[i] \in Nat /\ (i \in 1 .. k - 1 \/ i = k)
  BY <1>2, <1>4, <1>5
<1>7. CASE s[k] <= s[j]
  <2>1. \A i \in 1 .. k : s[i] <= s[j]
    BY <1>5, <1>6, <1>7, ZenonT(30)
  <2>2. j \in 1 .. k
    BY <1>4, <1>5
  <2> QED BY <1>2, <2>1, <2>2
<1>8. CASE ~ (s[k] <= s[j])
  <2>1. ASSUME NEW i \in 1 .. k PROVE s[i] <= s[k]
    <3>1. CASE i = k
      BY <1>6, <3>1
    <3>2. CASE i \in 1 .. k - 1
      <4>1. s[i] \in Nat /\ s[i] <= s[j]
        BY <1>5, <1>6, <3>2
      <4>2. PICK x \in Nat, y \in Nat, z \in Nat : x = s[i] /\ y = s[j] /\ z = s[k]
        BY <1>6, <4>1
      <4>3. x <= y
        BY <4>1, <4>2, ZenonT(30)
      <4>4. ~ (z <= y)
        BY <1>8, <4>2, ZenonT(30)
      <4>5. x \in Nat /\ y \in Nat /\ z \in Nat
        BY <4>2, Zenon
      <4>6. x <= z
        BY <4>3, <4>4, <4>5
      <4> QED BY <4>2, <4>6, Zenon
    <3> QED BY <1>6, <3>1, <3>2
  <2>2. k \in 1 .. k
    BY <1>2
  <2> QED BY <1>2, <2>1, <2>2
<1> QED BY <1>7, <1>8

\* p puts s in ascending order.
Orders(p, s, n) ==
    /\ p \in [1 .. n -> 1 .. n]
    /\ \A i, j \in 1 .. n : p[i] = p[j] => i = j
    /\ \A t \in 1 .. n : \E i \in 1 .. n : p[i] = t
    /\ \A i, j \in 1 .. n : i < j => s[p[i]] <= s[p[j]]

\* The greatest is put last, and the last in its place.
LEMMA OrderStep ==
    ASSUME NEW n \in Nat, NEW s \in [1 .. n + 1 -> Nat],
           \A t \in [1 .. n -> Nat] : \E p : Orders(p, t, n)
    PROVE  \E p : Orders(p, s, n + 1)
<1>1. PICK g \in 1 .. n + 1 : \A i \in 1 .. n + 1 : s[i] <= s[g]
  <2>1. n + 1 \in Nat /\ n + 1 # 0
    OBVIOUS
  <2> QED BY <2>1, GreatestAt
<1> DEFINE t == [i \in 1 .. n |-> IF i = g THEN s[n + 1] ELSE s[i]]
<1>2. t \in [1 .. n -> Nat]
  OBVIOUS
<1>3. \A i \in 1 .. n : t[i] = IF i = g THEN s[n + 1] ELSE s[i]
  OBVIOUS
<1> HIDE DEF t
<1>4. PICK p : Orders(p, t, n)
  BY <1>2
<1>5. /\ \A i \in 1 .. n : p[i] \in 1 .. n /\ p[i] \in 1 .. n + 1 /\ p[i] # n + 1
      /\ \A i, j \in 1 .. n : p[i] = p[j] => i = j
      /\ \A u \in 1 .. n : \E i \in 1 .. n : p[i] = u
      /\ \A i, j \in 1 .. n : i < j => t[p[i]] <= t[p[j]]
  <2>1. \A i \in 1 .. n : p[i] \in 1 .. n
    BY <1>4 DEF Orders
  <2>2. \A i \in 1 .. n : p[i] \in 1 .. n + 1 /\ p[i] # n + 1
    BY <2>1
  <2> QED BY <1>4, <2>1, <2>2 DEF Orders
<1> DEFINE q == [i \in 1 .. n + 1 |-> IF i = n + 1 THEN g ELSE IF p[i] = g THEN n + 1 ELSE p[i]]
<1>6. /\ q[n + 1] = g
      /\ \A i \in 1 .. n : q[i] = IF p[i] = g THEN n + 1 ELSE p[i]
  OBVIOUS
<1>7. q \in [1 .. n + 1 -> 1 .. n + 1]
  <2>1. \A i \in 1 .. n + 1 : i = n + 1 \/ i \in 1 .. n
    OBVIOUS
  <2>2. \A i \in 1 .. n : p[i] \in 1 .. n + 1
    BY <1>5
  <2>3. n + 1 \in 1 .. n + 1
    OBVIOUS
  <2> QED BY <2>1, <2>2, <2>3
<1> HIDE DEF q
<1>8. \A i \in 1 .. n + 1 : i = n + 1 \/ i \in 1 .. n
  OBVIOUS
<1>9. \A i \in 1 .. n : s[q[i]] = t[p[i]]
  BY <1>3, <1>5, <1>6
<1>10. ASSUME NEW i \in 1 .. n + 1, NEW j \in 1 .. n + 1, q[i] = q[j] PROVE i = j
  <2>1. \A a \in 1 .. n : q[a] # g
    BY <1>5, <1>6
  <2>2. CASE i \in 1 .. n /\ j \in 1 .. n
    <3>1. /\ q[i] = IF p[i] = g THEN n + 1 ELSE p[i]
          /\ q[j] = IF p[j] = g THEN n + 1 ELSE p[j]
          /\ p[i] # n + 1 /\ p[j] # n + 1
      BY <1>5, <1>6, <2>2, ZenonT(30)
    <3>2. p[i] = p[j]
      BY <1>10, <3>1, ZenonT(30)
    <3> QED BY <1>5, <2>2, <3>2, ZenonT(30)
  <2> QED BY <1>6, <1>8, <1>10, <2>1, <2>2
<1>11. ASSUME NEW u \in 1 .. n + 1 PROVE \E i \in 1 .. n + 1 : q[i] = u
  <2>1. CASE u = g
    BY <1>6, <2>1
  <2>2. CASE u # g /\ u = n + 1
    <3>1. g \in 1 .. n
      BY <1>8, <2>2
    <3>2. PICK i \in 1 .. n : p[i] = g
      BY <1>5, <3>1
    <3> QED BY <1>6, <2>2, <3>2
  <2>3. CASE u # g /\ u # n + 1
    <3>1. u \in 1 .. n
      BY <1>8, <2>3
    <3>2. PICK i \in 1 .. n : p[i] = u
      BY <1>5, <3>1, ZenonT(30)
    <3>3. q[i] = u
      BY <1>6, <2>3, <3>2, ZenonT(30)
    <3>4. i \in 1 .. n + 1
      BY <3>2
    <3> QED BY <3>3, <3>4
  <2> QED BY <2>1, <2>2, <2>3
<1>12. ASSUME NEW i \in 1 .. n + 1, NEW j \in 1 .. n + 1, i < j PROVE s[q[i]] <= s[q[j]]
  <2>1. CASE j = n + 1
    BY <1>1, <1>6, <1>7, <2>1
  <2>2. CASE j # n + 1
    <3>1. j \in 1 .. n /\ i \in 1 .. n
      BY <1>12, <2>2
    <3> QED BY <1>5, <1>9, <1>12, <3>1
  <2> QED BY <2>1, <2>2
<1>13. Orders(q, s, n + 1)
  BY <1>7, <1>10, <1>11, <1>12 DEF Orders
<1> QED BY <1>13

LEMMA OrderExists ==
    ASSUME NEW n \in Nat, NEW s \in [1 .. n -> Nat]
    PROVE  \E p : Orders(p, s, n)
<1> DEFINE Bad == {k \in Nat : \E t \in [1 .. k -> Nat] : ~ \E p : Orders(p, t, k)}
<1> SUFFICES ASSUME Bad # {} PROVE FALSE
  OBVIOUS
<1>1. PICK k \in Bad : \A j \in Bad : k <= j
  <2>1. Bad \in SUBSET Nat
    OBVIOUS
  <2> HIDE DEF Bad
  <2> QED BY <2>1, LeastMember
<1>2. PICK t \in [1 .. k -> Nat] : ~ \E p : Orders(p, t, k)
  BY <1>1
<1>3. k # 0
  <2>1. Orders(<<>>, t, 0)
    BY DEF Orders
  <2> QED BY <1>2, <2>1
<1>4. k \in Nat /\ k - 1 \in Nat /\ ~ (k <= k - 1) /\ k - 1 + 1 = k
  BY <1>1, <1>3
<1>5. \A u \in [1 .. k - 1 -> Nat] : \E p : Orders(p, u, k - 1)
  BY <1>1, <1>4
<1>6. \E p : Orders(p, t, k - 1 + 1)
  <2>1. t \in [1 .. k - 1 + 1 -> Nat]
    BY <1>4
  <2> QED BY <1>4, <1>5, <2>1, OrderStep
<1> QED BY <1>2, <1>4, <1>6

LEMMA SortedFacts ==
    ASSUME NEW s \in Seq(Nat)
    PROVE  /\ Sorted(s) \in Seq(Nat)
           /\ Len(Sorted(s)) = Len(s)
           /\ \A i, j \in 1 .. Len(s) : i < j => Sorted(s)[i] <= Sorted(s)[j]
           /\ \A i \in 1 .. Len(s) : \E j \in 1 .. Len(s) : Sorted(s)[i] = s[j]
           /\ \A j \in 1 .. Len(s) : \E i \in 1 .. Len(s) : Sorted(s)[i] = s[j]
<1> DEFINE n == Len(s)
<1>1. n \in Nat /\ DOMAIN s = 1 .. n /\ s \in [1 .. n -> Nat]
  OBVIOUS
<1> HIDE DEF n
<1>2. PICK p : Orders(p, s, n)
  BY <1>1, OrderExists
<1> DEFINE B == Bijection(DOMAIN s, DOMAIN s)
           Up(f) == \A i, j \in DOMAIN s : i < j => s[f[i]] <= s[f[j]]
           o == CHOOSE f \in B : Up(f)
<1>3. p \in B /\ Up(p)
  BY <1>1, <1>2 DEF Orders, Bijection, Injection, Surjection, IsInjective
<1>4. Sorted(s) = [i \in DOMAIN s |-> s[o[i]]]
  BY DEF Sorted
<1>5. o \in B /\ Up(o)
  <2> HIDE DEF B, Up
  <2> QED BY <1>3
<1> HIDE DEF o
<1>6. Orders(o, s, n)
  BY <1>1, <1>5 DEF Orders, Bijection, Injection, Surjection, IsInjective
<1> HIDE DEF B, Up
<1> DEFINE t == Sorted(s)
<1>7. t = [i \in 1 .. n |-> s[o[i]]]
  BY <1>1, <1>4
<1>8. \A i \in 1 .. n : o[i] \in 1 .. n /\ t[i] = s[o[i]] /\ s[o[i]] \in Nat
  BY <1>1, <1>6, <1>7 DEF Orders
<1>9. t \in Seq(Nat) /\ Len(t) = n
  BY <1>1, <1>7, <1>8
<1> HIDE DEF t
<1>10. \A i, j \in 1 .. n : i < j => t[i] <= t[j]
  BY <1>6, <1>8 DEF Orders
<1>11. \A i \in 1 .. n : \E j \in 1 .. n : t[i] = s[j]
  BY <1>8
<1>12. \A j \in 1 .. n : \E i \in 1 .. n : t[i] = s[j]
  <2>1. \A j \in 1 .. n : \E i \in 1 .. n : o[i] = j
    BY <1>6, Zenon DEF Orders
  <2>2. ASSUME NEW j \in 1 .. n PROVE \E i \in 1 .. n : t[i] = s[j]
    <3>1. PICK i \in 1 .. n : o[i] = j
      BY <2>1, Zenon
    <3>2. t[i] = s[j]
      BY <1>8, <3>1, Zenon
    <3> QED BY <3>2, Zenon
  <2> QED BY <2>2, Zenon
<1>13. n = Len(s) /\ t = Sorted(s)
  BY DEF t, n
<1>14. Sorted(s) \in Seq(Nat) /\ Len(Sorted(s)) = Len(s)
  BY <1>9, <1>13, Zenon
<1>15. \A i, j \in 1 .. Len(s) : i < j => Sorted(s)[i] <= Sorted(s)[j]
  BY <1>10, <1>13, Zenon
<1>16. \A i \in 1 .. Len(s) : \E j \in 1 .. Len(s) : Sorted(s)[i] = s[j]
  BY <1>11, <1>13, Zenon
<1>17. \A j \in 1 .. Len(s) : \E i \in 1 .. Len(s) : Sorted(s)[i] = s[j]
  BY <1>12, <1>13, Zenon
<1> QED BY <1>14, <1>15, <1>16, <1>17, Zenon
-----------------------------------------------------------------------------
(* PickNode: every node finds the same owner of a key                      *)

\* n is nearest to k, going up from its hash, and from 0 when it is beyond
\* all nodes.
Nearest(n, k) ==
    /\ n \in Nodes
    /\ \/ hashFunc[n] >= hashFunc[k] /\ \A m \in Nodes : hashFunc[m] >= hashFunc[k] => hashFunc[n] <= hashFunc[m]
       \/ \A m \in Nodes : hashFunc[m] < hashFunc[k] /\ hashFunc[n] <= hashFunc[m]

LEMMA NearestIsOwner ==
    ASSUME NEW k \in Keys, NEW n, Nearest(n, k)
    PROVE  Owner(k) = n
<1>1. /\ hashFunc[k] \in Nat
      /\ \A m \in Nodes : hashFunc[m] \in Nat
      /\ \A m \in Nodes : hashFunc[m] = hashFunc[n] => m = n
  BY HashAssumption DEF Nearest
<1> DEFINE ahead == {m \in Nodes : hashFunc[m] >= hashFunc[k]}
           S == IF ahead = {} THEN Nodes ELSE ahead
<1>2. n \in S /\ \A m \in S : m \in Nodes /\ hashFunc[n] <= hashFunc[m]
  <2>1. CASE hashFunc[n] >= hashFunc[k] /\ \A m \in Nodes : hashFunc[m] >= hashFunc[k] => hashFunc[n] <= hashFunc[m]
    <3>1. n \in ahead
      BY <2>1 DEF Nearest
    <3> QED BY <2>1, <3>1
  <2>2. CASE \A m \in Nodes : hashFunc[m] < hashFunc[k] /\ hashFunc[n] <= hashFunc[m]
    <3>1. ahead = {}
      BY <1>1, <2>2
    <3> QED BY <2>2, <3>1 DEF Nearest
  <2> QED BY <2>1, <2>2 DEF Nearest
<1>3. Owner(k) = CHOOSE a \in S : \A m \in S : hashFunc[a] <= hashFunc[m]
  BY DEF Owner
<1> HIDE DEF S
<1> DEFINE o == CHOOSE a \in S : \A m \in S : hashFunc[a] <= hashFunc[m]
<1>4. o \in S /\ \A m \in S : hashFunc[o] <= hashFunc[m]
  BY <1>2
<1> HIDE DEF o
<1>5. o \in Nodes /\ hashFunc[o] <= hashFunc[n] /\ hashFunc[n] <= hashFunc[o]
  BY <1>2, <1>4
<1>6. hashFunc[o] = hashFunc[n]
  BY <1>1, <1>2, <1>5
<1>7. o = n
  BY <1>1, <1>5, <1>6
<1> QED BY <1>3, <1>7 DEF o

LEMMA PickNodeNearest ==
    ASSUME NEW m, NEW k \in Keys, Nodes # {}, Holds(m, Nodes),
           \A i, j \in 1 .. Len(m.nodeHashs) : i < j => m.nodeHashs[i] <= m.nodeHashs[j]
    PROVE  Nearest(PickNode(m, k), k)
<1> DEFINE hs == m.nodeHashs
           L == Len(hs)
           x == hashFunc[k]
           I == {i \in 1 .. L : hs[i] >= x}
           index == SelectInSeq(hs, LAMBDA h : h >= hashFunc[k])
           at == IF index = 0 THEN 1 ELSE index
<1>1. /\ x \in Nat /\ L \in Nat
      /\ \A i \in 1 .. L : hs[i] \in Nat
      /\ \A n \in Nodes : hashFunc[n] \in Nat
  <2>1. x \in Nat /\ \A n \in Nodes : hashFunc[n] \in Nat
    BY HashAssumption
  <2>2. hs \in Seq(Nat)
    BY DEF Holds
  <2>3. L \in Nat /\ \A i \in 1 .. L : hs[i] \in Nat
    <3> HIDE DEF hs
    <3> QED BY <2>2
  <2> QED BY <2>1, <2>3
<1>2. L # 0 /\ 1 \in 1 .. L /\ hs # <<>>
  <2>1. PICK n \in Nodes : TRUE
    OBVIOUS
  <2>2. PICK i \in 1 .. L : hs[i] = hashFunc[n]
    BY <2>1 DEF Holds
  <2> QED BY <1>1, <2>2
<1>3. PickNode(m, k) = m.nodehashMap[hs[at]]
  BY <1>2 DEF PickNode, IsEmpty
<1>4. index = IF I # {} THEN Min(I) ELSE 0
  BY DEF SelectInSeq
<1> HIDE DEF index
<1>5. CASE I = {}
  <2>1. at = 1
    BY <1>4, <1>5
  <2>2. PICK n \in Nodes : hs[1] = hashFunc[n]
    BY <1>2 DEF Holds
  <2>3. PickNode(m, k) = n
    BY <1>3, <2>1, <2>2 DEF Holds
  <2>4. \A i \in 1 .. L : hs[i] < x /\ hs[1] <= hs[i]
    <3> SUFFICES ASSUME NEW i \in 1 .. L PROVE hs[i] < x /\ hs[1] <= hs[i]
      OBVIOUS
    <3>1. hs[i] < x
      BY <1>1, <1>5
    <3>2. hs[1] <= hs[i]
      <4>1. CASE i = 1
        BY <1>1, <4>1
      <4>2. CASE i # 1
        <5>1. 1 < i
          BY <4>2
        <5> QED BY <1>2, <5>1
      <4> QED BY <4>1, <4>2
    <3> QED BY <3>1, <3>2
  <2>5. ASSUME NEW o \in Nodes PROVE hashFunc[o] < x /\ hashFunc[n] <= hashFunc[o]
    <3>1. PICK i \in 1 .. L : hs[i] = hashFunc[o]
      BY DEF Holds
    <3> QED BY <2>2, <2>4, <3>1
  <2> QED BY <2>3, <2>5 DEF Nearest
<1>6. CASE I # {}
  <2>1. index \in I /\ \A i \in I : index <= i
    <3>1. \E a \in I : \A i \in I : a <= i
      <4>1. I \in SUBSET Nat
        BY <1>1
      <4> HIDE DEF I
      <4> QED BY <1>6, <4>1, LeastMember
    <3>2. index = CHOOSE a \in I : \A i \in I : a <= i
      BY <1>4, <1>6 DEF Min
    <3> HIDE DEF I
    <3> QED BY <3>1, <3>2
  <2>2. at = index /\ index \in 1 .. L /\ hs[index] >= x
    BY <1>1, <2>1
  <2>3. PICK n \in Nodes : hs[index] = hashFunc[n]
    BY <2>2 DEF Holds
  <2>4. PickNode(m, k) = n
    BY <1>3, <2>2, <2>3 DEF Holds
  <2>5. ASSUME NEW o \in Nodes, hashFunc[o] >= x PROVE hashFunc[n] <= hashFunc[o]
    <3>1. PICK i \in 1 .. L : hs[i] = hashFunc[o]
      BY DEF Holds
    <3>2. i \in I
      BY <2>5, <3>1
    <3>3. index <= i
      BY <2>1, <3>2
    <3>4. CASE i = index
      BY <1>1, <2>3, <3>1, <3>4
    <3>5. CASE i # index
      <4>1. index < i
        BY <1>1, <2>2, <3>3, <3>5
      <4> QED BY <2>2, <2>3, <3>1, <4>1
    <3> QED BY <3>4, <3>5
  <2> QED BY <2>2, <2>3, <2>4, <2>5 DEF Nearest
<1> QED BY <1>5, <1>6

\* Whichever node is asked, and however its configuration lists the others,
\* PickNode finds the one owner of the key.
LEMMA PickedOwner ==
    ASSUME NEW n \in Nodes, NEW k \in Keys
    PROVE  picked[n][k] = Owner(k) /\ Owner(k) \in Nodes
<1> DEFINE list == Append(Peers[n], n)
           a == Added(NewNodeMap, list)
           m == AddNodes(NewNodeMap, list)
<1>1. /\ Peers[n] \in Seq(Names)
      /\ Nodes \subseteq Range(Peers[n]) \cup {n}
      /\ n \in Names
  BY PeersAssumption, Zenon DEF Names
<1>2. /\ list \in Seq(Names) /\ Len(list) = Len(Peers[n]) + 1 /\ Len(Peers[n]) \in Nat
      /\ list[Len(Peers[n]) + 1] = n
      /\ \A i \in 1 .. Len(Peers[n]) : list[i] = Peers[n][i]
      /\ DOMAIN Peers[n] = 1 .. Len(Peers[n])
  BY <1>1
<1> HIDE DEF list
<1>3. Named(list, Len(list)) = Nodes
  <2>1. ASSUME NEW o \in Named(list, Len(list)) PROVE o \in Nodes
    <3>1. \A i \in 1 .. Len(list) : list[i] \in Names
      BY <1>2
    <3> QED BY <2>1, <3>1, Zenon DEF Named, Names
  <2>2. ASSUME NEW o \in Nodes PROVE o \in Named(list, Len(list))
    <3>1. o # ""
      BY PeersAssumption, Zenon
    <3>2. \E i \in 1 .. Len(list) : list[i] = o
      <4>1. CASE o = n
        <5>1. Len(Peers[n]) + 1 \in 1 .. Len(list)
          BY <1>2
        <5> QED BY <1>2, <4>1, <5>1
      <4>2. CASE o # n
        <5>1. PICK i \in 1 .. Len(Peers[n]) : Peers[n][i] = o
          BY <1>1, <1>2, <4>2 DEF Range
        <5>2. i \in 1 .. Len(list)
          BY <1>2, <5>1
        <5> QED BY <1>2, <5>1, <5>2
      <4> QED BY <4>1, <4>2
    <3> QED BY <3>1, <3>2, Zenon DEF Named
  <2> QED BY <2>1, <2>2, Zenon
<1>4. Holds(a, Nodes)
  BY <1>2, <1>3, AddedHolds
<1> HIDE DEF a
<1>5. m = [nodeHashs |-> Sorted(a.nodeHashs), nodehashMap |-> a.nodehashMap]
  <2>1. m = [a EXCEPT !.nodeHashs = Sorted(a.nodeHashs)]
    BY DEF AddNodes, a
  <2>2. a = [nodeHashs |-> a.nodeHashs, nodehashMap |-> a.nodehashMap]
    BY <1>4 DEF Holds
  <2> HIDE DEF m
  <2> QED BY <2>1, <2>2
<1> HIDE DEF m
<1>6. m.nodeHashs = Sorted(a.nodeHashs) /\ m.nodehashMap = a.nodehashMap
  BY <1>5
<1> DEFINE s == a.nodeHashs
           t == m.nodeHashs
<1>7. /\ t \in Seq(Nat)
      /\ Len(t) = Len(s)
      /\ \A i, j \in 1 .. Len(s) : i < j => t[i] <= t[j]
      /\ \A i \in 1 .. Len(s) : \E j \in 1 .. Len(s) : t[i] = s[j]
      /\ \A j \in 1 .. Len(s) : \E i \in 1 .. Len(s) : t[i] = s[j]
  <2>1. s \in Seq(Nat) /\ t = Sorted(s)
    BY <1>4, <1>6 DEF Holds
  <2> HIDE DEF s, t
  <2> QED BY <2>1, SortedFacts
<1>8. /\ \A i \in 1 .. Len(s) : \E o \in Nodes : s[i] = hashFunc[o]
      /\ \A o \in Nodes : \E i \in 1 .. Len(s) : s[i] = hashFunc[o]
      /\ \A o \in Nodes : hashFunc[o] \in DOMAIN m.nodehashMap /\ m.nodehashMap[hashFunc[o]] = o
  BY <1>4, <1>6 DEF Holds
<1>9. m = [nodeHashs |-> m.nodeHashs, nodehashMap |-> m.nodehashMap]
  BY <1>5
<1>10. \A i \in 1 .. Len(t) : \E o \in Nodes : t[i] = hashFunc[o]
  <2> HIDE DEF s, t
  <2> QED BY <1>7, <1>8
<1>11. \A o \in Nodes : \E i \in 1 .. Len(t) : t[i] = hashFunc[o]
  <2> HIDE DEF s, t
  <2> QED BY <1>7, <1>8
<1>12. Holds(m, Nodes)
  BY <1>7, <1>8, <1>9, <1>10, <1>11 DEF Holds
<1>13. Nearest(PickNode(m, k), k)
  BY <1>7, <1>12, PickNodeNearest
<1>14. picked[n][k] = PickNode(m, k)
  BY DEF picked, peerPicker, m, list
<1>15. Owner(k) = PickNode(m, k)
  BY <1>13, NearestIsOwner
<1> QED BY <1>13, <1>14, <1>15 DEF Nearest
-----------------------------------------------------------------------------
(* The inductive invariant                                                 *)

\* What the key's owner holds of it.
Held(k) == data[Owner(k)][k]

\* The command is on its way to the owner of the key that it may fill.
AtHome(peer, cmd) ==
    /\ cmd.name = "sadd" => peer = Owner(cmd.key)
    /\ cmd.name = "rename" => peer = Owner(cmd.dest)

LateHome == \A l \in late : AtHome(l.peer, l.cmd)

\* No key is on a node that does not own it.
HomeData(d) ==
    /\ d \in [Nodes -> [Keys -> SUBSET Members]]
    /\ \A n \in Nodes, k \in Keys : d[n][k] # {} => n = Owner(k)

\* The nodes and the relays between them.
Wire == /\ HomeData(data) /\ LateHome
        /\ late \subseteq [n: 0 .. faults - 1, peer: Nodes, cmd: Relayed]
        /\ faults \in 0 .. MaxFaults

Setops == {"sunion", "sinter", "sdiff"}

\* The phases of the call f.
Shape(f) ==
    /\ f \in Calls
    /\ f.at = "idle" => f.asked = <<>>
    /\ f.at # "idle" => Len(f.asked) >= 1
    /\ f.at = "fetch" => f.i \in 1 .. Len(f.asked)
    /\ f.at \in {"dest", "add"} => f.dest \in Keys
    /\ f.at = "del" => f.groups # {}
    /\ f.at \in {"fetch", "dest", "add"} => f.op \in Setops
    /\ f.at = "del" => f.op = "del"
    /\ f.at = "done" => f.op \in Setops \cup {"del"}

\* The ghosts l and h of a call on the keys a: what each key holds is between
\* what it has held throughout the call and what it has held at some time.
Bounded(l, h, a) == \A k \in Range(a) : l[k] \subseteq Held(k) /\ Held(k) \subseteq h[k]

\* s is in the window of the union, the intersection and the difference of
\* the first n of the keys a.
UnionIn(l, h, a, s, n) ==
    /\ \A j \in 1 .. n : l[a[j]] \subseteq s
    /\ \A m \in s : \E j \in 1 .. n : m \in h[a[j]]

LeftOut(c, l, k) == Remote(c, k) /\ l[k] = {}

InterIn(c, l, h, a, s, n) ==
    /\ \A m \in Members : (\A j \in 1 .. n : m \in l[a[j]]) => m \in s
    /\ \A m \in s, j \in 1 .. n : LeftOut(c, l, a[j]) \/ m \in h[a[j]]

DiffIn(l, h, a, s, n) ==
    /\ \A m \in l[a[1]] : m \in s \/ \E j \in 2 .. n : m \in h[a[j]]
    /\ \A m \in s : m \in h[a[1]] /\ \A j \in 2 .. n : m \notin l[a[j]]

\* The result so far is in the window of the keys fetched so far.
Gathered(c, l, h, f) ==
    LET n == f.i - 1 IN
    f.at = "fetch" =>
        /\ f.op = "sunion" => UnionIn(l, h, f.asked, f.acc, n)
        /\ f.op = "sinter" /\ f.some => InterIn(c, l, h, f.asked, f.acc, n)
        /\ f.op = "sinter" /\ ~f.some => f.acc = {} /\ \A j \in 1 .. n : LeftOut(c, l, f.asked[j])
        /\ f.op = "sdiff" => n = 0 \/ DiffIn(l, h, f.asked, f.acc, n)

IsRead(f) == f.at = "done" /\ f.op # "del" /\ f.dest = NoKey

InWindow(c, l, h, f, s) ==
    LET n == Len(f.asked) IN
    /\ f.op = "sunion" => UnionIn(l, h, f.asked, s, n)
    /\ f.op = "sinter" => InterIn(c, l, h, f.asked, s, n)
    /\ f.op = "sdiff" => DiffIn(l, h, f.asked, s, n)

Answered(c, l, h, f) == IsRead(f) /\ f.reply # Error => InWindow(c, l, h, f, f.reply.members)

Refused(c, l, f, n) ==
    IsRead(f) /\ f.reply = Error => n > 0 \/ (f.op = "sdiff" /\ LeftOut(c, l, f.asked[1]))

\* A key that the DEL was to remove is still to be, or was, or could not be.
Deleting(l, f) ==
    f.op = "del" =>
        /\ \A k \in Range(f.asked) : Owner(k) \in f.groups \/ l[k] = {} \/ Owner(k) \in f.failed
        /\ f.at = "done" => f.groups = {} /\ (f.reply = IntReply <=> f.failed = {})

Cleared(c) == call[c].at = "add" /\ ~meddled[c] /\ call[c].failed = {} => Held(call[c].dest) = {}

\* What does not depend on the data: it stays when l shrinks and h grows.
Sound(c, l, h, f, n) == Gathered(c, l, h, f) /\ Answered(c, l, h, f) /\ Refused(c, l, f, n) /\ Deleting(l, f)

CallOK(c) == /\ Shape(call[c])
             /\ Bounded(lo[c], hi[c], call[c].asked)
             /\ Sound(c, lo[c], hi[c], call[c], faults)
             /\ Cleared(c)

IndInv == /\ Wire
          /\ call \in [Clients -> Calls]
          /\ writes \in 0 .. MaxWrites
          /\ \A c \in Clients : CallOK(c)
-----------------------------------------------------------------------------
(* The nodes execute the commands                                          *)

LEMMA PeerOwner ==
    ASSUME NEW c \in Clients, NEW k \in Keys
    PROVE  /\ Peer(c, k) = Owner(k) /\ Owner(k) \in Nodes
           /\ Remote(c, k) <=> Owner(k) # Coordinator[c]
  BY CoordinatorAssumption, PickedOwner DEF Peer, Remote

LEMMA ValueIs ==
    ASSUME NEW d, HomeData(d), NEW k \in Keys, Owner(k) \in Nodes
    PROVE  Value(d, k) = d[Owner(k)][k]
<1>1. \A n \in Nodes : d[n][k] # {} => n = Owner(k)
  BY DEF HomeData
<1>2. ASSUME NEW m \in Value(d, k) PROVE m \in d[Owner(k)][k]
  <2>1. PICK n \in Nodes : m \in d[n][k]
    BY <1>2 DEF Value
  <2> QED BY <1>1, <2>1
<1>3. ASSUME NEW m \in d[Owner(k)][k] PROVE m \in Value(d, k)
  BY <1>3 DEF Value
<1> QED BY <1>2, <1>3

LEMMA ApplyHome ==
    ASSUME NEW n \in Nodes, NEW d \in [Keys -> SUBSET Members], NEW cmd \in Relayed, AtHome(n, cmd),
           \A k \in Keys : d[k] # {} => n = Owner(k)
    PROVE  /\ Apply(d, cmd) \in [Keys -> SUBSET Members]
           /\ \A k \in Keys : Apply(d, cmd)[k] # {} => n = Owner(k)
<1>1. CASE cmd \in [name: {"sadd", "srem"}, key: Keys, members: SUBSET Members]
  <2>1. CASE cmd.name = "sadd"
    <3>1. Apply(d, cmd) = [d EXCEPT ![cmd.key] = @ \cup cmd.members]
      BY <2>1 DEF Apply, execSAdd
    <3>2. cmd.key \in Keys /\ cmd.members \in SUBSET Members /\ n = Owner(cmd.key)
      BY <1>1, <2>1 DEF AtHome
    <3> QED BY <3>1, <3>2
  <2>2. CASE cmd.name = "srem"
    <3>1. Apply(d, cmd) = [d EXCEPT ![cmd.key] = @ \ cmd.members]
      BY <2>2 DEF Apply, execSRem
    <3>2. cmd.key \in Keys
      BY <1>1
    <3> QED BY <3>1, <3>2
  <2> QED BY <1>1, <2>1, <2>2
<1>2. CASE cmd \in [name: {"del"}, keys: SUBSET Keys]
  <2>1. Apply(d, cmd) = [k \in Keys |-> IF k \in cmd.keys THEN {} ELSE d[k]]
    BY <1>2 DEF Apply, execDel
  <2> QED BY <2>1
<1>3. CASE cmd \in [name: {"rename"}, src: Keys, dest: Keys]
  <2>1. /\ cmd.src \in Keys /\ cmd.dest \in Keys /\ n = Owner(cmd.dest)
        /\ Apply(d, cmd) = execRename(d, cmd.src, cmd.dest)
    BY <1>3 DEF Apply, AtHome
  <2> QED BY <2>1 DEF execRename
<1> QED BY <1>1, <1>2, <1>3 DEF Relayed

LEMMA ExecutedHome ==
    ASSUME NEW d, HomeData(d), NEW n \in Nodes, NEW cmd \in Relayed, AtHome(n, cmd)
    PROVE  HomeData([d EXCEPT ![n] = Apply(@, cmd)])
<1> DEFINE a == Apply(d[n], cmd)
           e == [d EXCEPT ![n] = a]
<1>1. d[n] \in [Keys -> SUBSET Members] /\ \A k \in Keys : d[n][k] # {} => n = Owner(k)
  BY DEF HomeData
<1>2. a \in [Keys -> SUBSET Members] /\ \A k \in Keys : a[k] # {} => n = Owner(k)
  BY <1>1, ApplyHome
<1> HIDE DEF a
<1>3. /\ e \in [Nodes -> [Keys -> SUBSET Members]]
      /\ \A o \in Nodes : e[o] = IF o = n THEN a ELSE d[o]
  BY <1>2 DEF HomeData
<1> HIDE DEF e
<1>4. HomeData(e)
  BY <1>2, <1>3 DEF HomeData
<1> QED BY <1>4 DEF e, a

\* A relay, whatever becomes of it, and the late arrival of one.
LEMMA RelayWire ==
    ASSUME Wire, NEW c, NEW peer \in Nodes, NEW cmd \in Relayed, AtHome(peer, cmd),
           Executed(peer, cmd) \/ Lost(c, peer) \/ Late(c, peer, cmd)
    PROVE  /\ Wire' /\ faults' \in Nat
           /\ \/ Executed(peer, cmd) /\ faults' = faults
              \/ data' = data /\ peer # Coordinator[c] /\ faults' = faults + 1
<1>1. faults \in Nat /\ faults \in 0 .. MaxFaults /\ MaxFaults \in Nat
  BY BoundsAssumption DEF Wire
<1>2. CASE Executed(peer, cmd)
  <2>1. data' = [data EXCEPT ![peer] = Apply(@, cmd)] /\ late' = late /\ faults' = faults
    BY <1>2 DEF Executed
  <2>2. HomeData(data')
    BY <2>1, ExecutedHome DEF Wire
  <2> QED BY <1>1, <1>2, <2>1, <2>2 DEF Wire, LateHome
<1>3. ASSUME Lost(c, peer) \/ Late(c, peer, cmd)
      PROVE  /\ faults' = faults + 1 /\ faults' \in 0 .. MaxFaults /\ data' = data /\ peer # Coordinator[c]
             /\ late' \subseteq late \cup {[n |-> faults, peer |-> peer, cmd |-> cmd]}
  BY <1>1, <1>3 DEF Lost, Late, Fault
<1>4. ASSUME Lost(c, peer) \/ Late(c, peer, cmd) PROVE Wire'
  <2> DEFINE new == [n |-> faults, peer |-> peer, cmd |-> cmd]
  <2>1. late \subseteq [n: 0 .. faults - 1, peer: Nodes, cmd: Relayed] /\ LateHome
    BY DEF Wire
  <2>2. new \in [n: 0 .. faults, peer: Nodes, cmd: Relayed] /\ AtHome(new.peer, new.cmd)
    BY <1>1
  <2> HIDE DEF new
  <2>3. ASSUME NEW l \in late' PROVE l \in [n: 0 .. faults' - 1, peer: Nodes, cmd: Relayed] /\ AtHome(l.peer, l.cmd)
    <3>1. l \in late \/ l = new
      BY <1>3, <1>4, <2>3 DEF new
    <3>2. faults' - 1 = faults /\ 0 .. faults - 1 \subseteq 0 .. faults
      BY <1>1, <1>3, <1>4
    <3>3. l \in late => l \in [n: 0 .. faults, peer: Nodes, cmd: Relayed]
      BY <2>1, <3>2
    <3> QED BY <2>1, <2>2, <3>1, <3>2, <3>3 DEF LateHome
  <2>4. HomeData(data')
    BY <1>3, <1>4 DEF Wire
  <2> QED BY <1>3, <1>4, <2>3, <2>4 DEF Wire, LateHome
<1> QED BY <1>1, <1>2, <1>3, <1>4 DEF Executed

LEMMA ArriveWire ==
    ASSUME Wire, Arrive
    PROVE  Wire' /\ faults' = faults /\ call' = call /\ writes' = writes
<1>1. PICK l \in late : /\ data' = [data EXCEPT ![l.peer] = Apply(@, l.cmd)]
                        /\ late' = late \ {l}
                        /\ UNCHANGED <<call, faults, writes>>
  BY DEF Arrive
<1>2. l.peer \in Nodes /\ l.cmd \in Relayed /\ AtHome(l.peer, l.cmd)
  BY DEF Wire, LateHome
<1>3. HomeData(data')
  BY <1>1, <1>2, ExecutedHome DEF Wire
<1> QED BY <1>1, <1>3 DEF Wire, LateHome

-----------------------------------------------------------------------------
(* The ghosts of a call                                                    *)

LEMMA Ghosts ==
    ASSUME Observe, Wire', NEW c \in Clients, NEW k \in Keys, k \in Range(call'[c].asked)
    PROVE  /\ call[c].at = "idle" => lo'[c][k] = Held(k)' /\ hi'[c][k] = Held(k)'
           /\ call[c].at # "idle" => lo'[c][k] = lo[c][k] \cap Held(k)' /\ hi'[c][k] = hi[c][k] \cup Held(k)'
<1>1. Value(data', k) = Held(k)'
  <2>1. Owner(k) \in Nodes
    BY PeerOwner
  <2>2. HomeData(data')
    BY DEF Wire
  <2> QED BY <2>1, <2>2, ValueIs DEF Held
<1>2. lo'[c][k] = IF call[c].at = "idle" THEN Value(data', k) ELSE lo[c][k] \cap Value(data', k)
  BY DEF Observe
<1>3. hi'[c][k] = IF call[c].at = "idle" THEN Value(data', k) ELSE hi[c][k] \cup Value(data', k)
  BY DEF Observe
<1> QED BY <1>1, <1>2, <1>3

\* l2 and h2 are a wider window than l and h for the keys a.
Wider(l, h, l2, h2, a) == \A j \in 1 .. Len(a) : l2[a[j]] \subseteq l[a[j]] /\ h[a[j]] \subseteq h2[a[j]]

LEMMA GhostsStay ==
    ASSUME Observe, Wire', NEW c \in Clients, call[c].at # "idle", call[c].asked \in Seq(Keys),
           call'[c].asked = call[c].asked
    PROVE  /\ Bounded(lo[c], hi[c], call[c].asked)'
           /\ Wider(lo[c], hi[c], lo'[c], hi'[c], call[c].asked)
<1> DEFINE a == call[c].asked
<1>1. DOMAIN a = 1 .. Len(a) /\ \A j \in 1 .. Len(a) : a[j] \in Keys /\ a[j] \in Range(a)
  BY DEF Range
<1>2. \A k \in Range(a) : k \in Keys
  BY <1>1 DEF Range
<1>3. ASSUME NEW k \in Range(a)
      PROVE  lo'[c][k] = lo[c][k] \cap Held(k)' /\ hi'[c][k] = hi[c][k] \cup Held(k)'
  BY <1>2, Ghosts
<1> HIDE DEF a
<1>4. \A k \in Range(a) : lo'[c][k] \subseteq Held(k)' /\ Held(k)' \subseteq hi'[c][k]
  BY <1>3
<1>5. \A j \in 1 .. Len(a) : lo'[c][a[j]] \subseteq lo[c][a[j]] /\ hi[c][a[j]] \subseteq hi'[c][a[j]]
  BY <1>1, <1>3
<1>6. Bounded(lo[c], hi[c], call[c].asked)'
  BY <1>4 DEF Bounded, a
<1> QED BY <1>5, <1>6 DEF Wider, a
LEMMA UnionWider ==
    ASSUME NEW l, NEW h, NEW l2, NEW h2, NEW a, Wider(l, h, l2, h2, a), NEW s,
           NEW n \in Nat, n <= Len(a), Len(a) \in Nat, UnionIn(l, h, a, s, n)
    PROVE  UnionIn(l2, h2, a, s, n)
<1>1. \A j \in 1 .. n : l2[a[j]] \subseteq l[a[j]] /\ h[a[j]] \subseteq h2[a[j]]
  BY DEF Wider
<1> QED BY <1>1 DEF UnionIn

LEMMA InterWider ==
    ASSUME NEW c, NEW l, NEW h, NEW l2, NEW h2, NEW a, Wider(l, h, l2, h2, a), NEW s,
           NEW n \in Nat, n <= Len(a), Len(a) \in Nat, InterIn(c, l, h, a, s, n)
    PROVE  InterIn(c, l2, h2, a, s, n)
<1>1. \A j \in 1 .. n : l2[a[j]] \subseteq l[a[j]] /\ h[a[j]] \subseteq h2[a[j]]
  BY DEF Wider
<1>2. \A j \in 1 .. n : LeftOut(c, l, a[j]) => LeftOut(c, l2, a[j])
  BY <1>1 DEF LeftOut
<1>3. ASSUME NEW m \in Members, \A j \in 1 .. n : m \in l2[a[j]] PROVE m \in s
  BY <1>1, <1>3 DEF InterIn
<1>4. ASSUME NEW m \in s, NEW j \in 1 .. n PROVE LeftOut(c, l2, a[j]) \/ m \in h2[a[j]]
  BY <1>1, <1>2 DEF InterIn
<1> QED BY <1>3, <1>4 DEF InterIn

LEMMA DiffWider ==
    ASSUME NEW l, NEW h, NEW l2, NEW h2, NEW a, Wider(l, h, l2, h2, a), NEW s,
           NEW n \in Nat, n # 0, n <= Len(a), Len(a) \in Nat, DiffIn(l, h, a, s, n)
    PROVE  DiffIn(l2, h2, a, s, n)
<1>1. \A j \in 1 .. n : l2[a[j]] \subseteq l[a[j]] /\ h[a[j]] \subseteq h2[a[j]]
  BY DEF Wider
<1>2. 1 \in 1 .. n /\ 2 .. n \subseteq 1 .. n
  OBVIOUS
<1> QED BY <1>1, <1>2 DEF DiffIn

LEMMA SoundWider ==
    ASSUME NEW c, NEW l, NEW h, NEW l2, NEW h2, NEW f, Shape(f), Wider(l, h, l2, h2, f.asked),
           NEW n \in Nat, NEW n2 \in Nat, n <= n2, Sound(c, l, h, f, n)
    PROVE  Sound(c, l2, h2, f, n2)
<1> DEFINE a == f.asked
           L == Len(a)
           b == f.i - 1
<1>1. a \in Seq(Keys) /\ L \in Nat
  BY DEF Shape, Calls
<1>2. f.at = "fetch" => b \in Nat /\ b <= L
  BY <1>1 DEF Shape
<1>3. \A j \in 1 .. L : l2[a[j]] \subseteq l[a[j]] /\ h[a[j]] \subseteq h2[a[j]]
  BY DEF Wider
<1>4. \A j \in 1 .. L : LeftOut(c, l, a[j]) => LeftOut(c, l2, a[j])
  BY <1>3 DEF LeftOut
<1>5. Gathered(c, l2, h2, f)
  <2> SUFFICES ASSUME f.at = "fetch" PROVE Gathered(c, l2, h2, f)
    BY DEF Gathered
  <2>1. /\ f.op = "sunion" => UnionIn(l, h, a, f.acc, b)
        /\ f.op = "sinter" /\ f.some => InterIn(c, l, h, a, f.acc, b)
        /\ f.op = "sinter" /\ ~f.some => f.acc = {} /\ \A j \in 1 .. b : LeftOut(c, l, a[j])
        /\ f.op = "sdiff" => b = 0 \/ DiffIn(l, h, a, f.acc, b)
    BY DEF Sound, Gathered
  <2>2. f.op = "sunion" => UnionIn(l2, h2, a, f.acc, b)
    BY <1>1, <1>2, <2>1, UnionWider
  <2>3. f.op = "sinter" /\ f.some => InterIn(c, l2, h2, a, f.acc, b)
    BY <1>1, <1>2, <2>1, InterWider
  <2>4. (\A j \in 1 .. b : LeftOut(c, l, a[j])) => \A j \in 1 .. b : LeftOut(c, l2, a[j])
    BY <1>1, <1>2, <1>4
  <2>5. f.op = "sdiff" => b = 0 \/ DiffIn(l2, h2, a, f.acc, b)
    <3> SUFFICES ASSUME f.op = "sdiff", b # 0 PROVE DiffIn(l2, h2, a, f.acc, b)
      OBVIOUS
    <3>1. DiffIn(l, h, a, f.acc, b) /\ b \in Nat /\ b <= L
      BY <1>2, <2>1
    <3> HIDE DEF b
    <3> QED BY <1>1, <3>1, DiffWider
  <2> QED BY <2>1, <2>2, <2>3, <2>4, <2>5 DEF Gathered
<1>6. Answered(c, l2, h2, f)
  <2> SUFFICES ASSUME IsRead(f), f.reply # Error PROVE InWindow(c, l2, h2, f, f.reply.members)
    BY DEF Answered
  <2> DEFINE s == f.reply.members
  <2>1. InWindow(c, l, h, f, s) /\ L # 0
    BY <1>1 DEF Sound, Answered, Shape, IsRead
  <2>2. /\ f.op = "sunion" => UnionIn(l, h, a, s, L)
        /\ f.op = "sinter" => InterIn(c, l, h, a, s, L)
        /\ f.op = "sdiff" => DiffIn(l, h, a, s, L)
    BY <2>1 DEF InWindow
  <2>3. L <= L
    BY <1>1
  <2>4. f.op = "sunion" => UnionIn(l2, h2, a, s, L)
    BY <1>1, <2>2, <2>3, UnionWider
  <2>5. f.op = "sinter" => InterIn(c, l2, h2, a, s, L)
    BY <1>1, <2>2, <2>3, InterWider
  <2>6. f.op = "sdiff" => DiffIn(l2, h2, a, s, L)
    BY <1>1, <2>1, <2>2, <2>3, DiffWider
  <2> QED BY <2>4, <2>5, <2>6 DEF InWindow
<1>7. Refused(c, l2, f, n2)
  <2> SUFFICES ASSUME IsRead(f), f.reply = Error PROVE n2 > 0 \/ (f.op = "sdiff" /\ LeftOut(c, l2, a[1]))
    BY DEF Refused
  <2>1. n > 0 \/ (f.op = "sdiff" /\ LeftOut(c, l, a[1]))
    BY DEF Sound, Refused
  <2>2. 1 \in 1 .. L
    BY <1>1 DEF Shape, IsRead
  <2> QED BY <1>4, <2>1, <2>2
<1>8. Deleting(l2, f)
  <2> SUFFICES ASSUME f.op = "del" PROVE Deleting(l2, f)
    BY DEF Deleting
  <2>1. /\ \A k \in Range(a) : Owner(k) \in f.groups \/ l[k] = {} \/ Owner(k) \in f.failed
        /\ f.at = "done" => f.groups = {} /\ (f.reply = IntReply <=> f.failed = {})
    BY DEF Sound, Deleting
  <2>2. \A k \in Range(a) : l2[k] \subseteq l[k]
    <3>1. \A k \in Range(a) : \E j \in 1 .. L : k = a[j]
      BY <1>1 DEF Range
    <3> QED BY <1>3, <3>1
  <2>3. \A k \in Range(a) : Owner(k) \in f.groups \/ l2[k] = {} \/ Owner(k) \in f.failed
    BY <2>1, <2>2
  <2> QED BY <2>1, <2>3 DEF Deleting
<1> QED BY <1>5, <1>6, <1>7, <1>8 DEF Sound
-----------------------------------------------------------------------------
(* A call that the step is not about                                       *)

\* Another command that leaves the destination alone, between DEL and SADD.
LEMMA ClearedStays ==
    ASSUME IndInv, Observe, Wire', NEW c \in Clients, call'[c] = call[c]
    PROVE  Cleared(c)'
<1> SUFFICES ASSUME call[c].at = "add", ~ meddled'[c], call[c].failed = {}
             PROVE  Held(call[c].dest)' = {}
  BY DEF Cleared
<1> DEFINE k == call[c].dest
<1>1. Shape(call[c]) /\ Cleared(c)
  BY DEF IndInv, CallOK
<1>2. k \in Keys
  BY <1>1 DEF Shape
<1>3. Owner(k) \in Nodes /\ HomeData(data) /\ HomeData(data')
  BY <1>2, PeerOwner DEF IndInv, Wire
<1>4. Value(data, k) = Held(k) /\ Value(data', k) = data'[Owner(k)][k]
  BY <1>2, <1>3, ValueIs DEF Held
<1>5. meddled'[c] = (/\ call[c].at = "add" /\ call'[c].at = "add"
                     /\ meddled[c] \/ Value(data', k) # Value(data, k))
  BY DEF Observe
<1>6. ~ meddled[c] /\ Value(data', k) = Value(data, k)
  BY <1>5, Zenon
<1>7. Held(k) = {}
  BY <1>1, <1>6 DEF Cleared
<1> QED BY <1>4, <1>6, <1>7 DEF Held

LEMMA OtherStays ==
    ASSUME IndInv, Observe, Wire', faults' \in Nat, faults <= faults',
           NEW c \in Clients, call'[c] = call[c]
    PROVE  CallOK(c)'
<1>1. Shape(call[c]) /\ Sound(c, lo[c], hi[c], call[c], faults) /\ faults \in Nat
  BY BoundsAssumption DEF IndInv, CallOK, Wire
<1>2. Shape(call'[c]) /\ Cleared(c)'
  BY <1>1, ClearedStays
<1>3. call[c].asked \in Seq(Keys)
  BY <1>1 DEF Shape, Calls
<1>4. CASE call[c].at = "idle"
  <2>1. call[c].asked = <<>>
    BY <1>1, <1>4 DEF Shape
  <2>2. Bounded(lo[c], hi[c], call[c].asked)' /\ Wider(lo[c], hi[c], lo'[c], hi'[c], call[c].asked)
    BY <2>1 DEF Bounded, Wider, Range
  <2>3. Sound(c, lo'[c], hi'[c], call'[c], faults')
    BY <1>1, <2>2, SoundWider
  <2> QED BY <1>2, <2>2, <2>3 DEF CallOK
<1>5. CASE call[c].at # "idle"
  <2>1. Bounded(lo[c], hi[c], call[c].asked)' /\ Wider(lo[c], hi[c], lo'[c], hi'[c], call[c].asked)
    BY <1>3, <1>5, GhostsStay
  <2>2. Sound(c, lo'[c], hi'[c], call'[c], faults')
    BY <1>1, <2>1, SoundWider
  <2> QED BY <1>2, <2>1, <2>2 DEF CallOK
<1> QED BY <1>4, <1>5
-----------------------------------------------------------------------------
(* One more key in the window                                              *)

\* v is what the key at n was seen to hold.
Seen(l, h, a, n, v) == l[a[n]] \subseteq v /\ v \subseteq h[a[n]]

LEMMA UnionNext ==
    ASSUME NEW l, NEW h, NEW a, NEW s, NEW n \in Nat, UnionIn(l, h, a, s, n), NEW v, Seen(l, h, a, n + 1, v)
    PROVE  UnionIn(l, h, a, s \cup v, n + 1)
<1>1. \A j \in 1 .. n + 1 : j \in 1 .. n \/ j = n + 1
  OBVIOUS
<1>2. 1 .. n \subseteq 1 .. n + 1 /\ n + 1 \in 1 .. n + 1
  OBVIOUS
<1> QED BY <1>1, <1>2 DEF UnionIn, Seen

LEMMA InterNext ==
    ASSUME NEW c, NEW l, NEW h, NEW a, NEW s, NEW n \in Nat, InterIn(c, l, h, a, s, n),
           NEW v, Seen(l, h, a, n + 1, v)
    PROVE  InterIn(c, l, h, a, s \cap v, n + 1)
<1>1. \A j \in 1 .. n + 1 : j \in 1 .. n \/ j = n + 1
  OBVIOUS
<1>2. 1 .. n \subseteq 1 .. n + 1 /\ n + 1 \in 1 .. n + 1
  OBVIOUS
<1>3. ASSUME NEW m \in Members, \A j \in 1 .. n + 1 : m \in l[a[j]] PROVE m \in s \cap v
  BY <1>2, <1>3 DEF InterIn, Seen
<1>4. ASSUME NEW m \in s \cap v, NEW j \in 1 .. n + 1 PROVE LeftOut(c, l, a[j]) \/ m \in h[a[j]]
  BY <1>1 DEF InterIn, Seen
<1> QED BY <1>3, <1>4 DEF InterIn

\* The first set, after sets that were left out.
LEMMA InterFirst ==
    ASSUME NEW c, NEW l, NEW h, NEW a, NEW n \in Nat, \A j \in 1 .. n : LeftOut(c, l, a[j]),
           NEW v, Seen(l, h, a, n + 1, v)
    PROVE  InterIn(c, l, h, a, v, n + 1)
<1>1. \A j \in 1 .. n + 1 : j \in 1 .. n \/ j = n + 1
  OBVIOUS
<1>2. n + 1 \in 1 .. n + 1
  OBVIOUS
<1>3. ASSUME NEW m \in Members, \A j \in 1 .. n + 1 : m \in l[a[j]] PROVE m \in v
  BY <1>2, <1>3 DEF Seen
<1>4. ASSUME NEW m \in v, NEW j \in 1 .. n + 1 PROVE LeftOut(c, l, a[j]) \/ m \in h[a[j]]
  BY <1>1 DEF Seen
<1> QED BY <1>3, <1>4 DEF InterIn

\* A set that is left out.
LEMMA InterSkip ==
    ASSUME NEW c, NEW l, NEW h, NEW a, NEW s, NEW n \in Nat, InterIn(c, l, h, a, s, n), LeftOut(c, l, a[n + 1])
    PROVE  InterIn(c, l, h, a, s, n + 1)
<1>1. \A j \in 1 .. n + 1 : j \in 1 .. n \/ j = n + 1
  OBVIOUS
<1>2. 1 .. n \subseteq 1 .. n + 1
  OBVIOUS
<1>3. ASSUME NEW m \in Members, \A j \in 1 .. n + 1 : m \in l[a[j]] PROVE m \in s
  BY <1>2, <1>3 DEF InterIn
<1>4. ASSUME NEW m \in s, NEW j \in 1 .. n + 1 PROVE LeftOut(c, l, a[j]) \/ m \in h[a[j]]
  BY <1>1 DEF InterIn
<1> QED BY <1>3, <1>4 DEF InterIn

\* Some key was seen empty.
LEMMA InterEmpty ==
    ASSUME NEW c, NEW l, NEW h, NEW a, NEW n \in Nat, NEW j \in 1 .. n, l[a[j]] = {}
    PROVE  InterIn(c, l, h, a, {}, n)
  BY DEF InterIn

LEMMA DiffFirst ==
    ASSUME NEW l, NEW h, NEW a, NEW v, Seen(l, h, a, 1, v)
    PROVE  DiffIn(l, h, a, v, 1)
  BY DEF DiffIn, Seen

LEMMA DiffNext ==
    ASSUME NEW l, NEW h, NEW a, NEW s, NEW n \in Nat, n # 0, DiffIn(l, h, a, s, n),
           NEW v, Seen(l, h, a, n + 1, v)
    PROVE  DiffIn(l, h, a, s \ v, n + 1)
<1>1. \A j \in 2 .. n + 1 : j \in 2 .. n \/ j = n + 1
  OBVIOUS
<1>2. 2 .. n \subseteq 2 .. n + 1 /\ n + 1 \in 2 .. n + 1
  OBVIOUS
<1>3. ASSUME NEW m \in l[a[1]] PROVE m \in s \ v \/ \E j \in 2 .. n + 1 : m \in h[a[j]]
  BY <1>2 DEF DiffIn, Seen
<1>4. ASSUME NEW m \in s \ v PROVE m \in h[a[1]] /\ \A j \in 2 .. n + 1 : m \notin l[a[j]]
  BY <1>1 DEF DiffIn, Seen
<1> QED BY <1>3, <1>4 DEF DiffIn

\* What is empty stays so.
LEMMA DiffEmpty ==
    ASSUME NEW l, NEW h, NEW a, NEW n \in Nat, DiffIn(l, h, a, {}, n), NEW b \in Nat, n <= b
    PROVE  DiffIn(l, h, a, {}, b)
<1>1. 2 .. n \subseteq 2 .. b
  OBVIOUS
<1> QED BY <1>1 DEF DiffIn

-----------------------------------------------------------------------------
(* The reply computed from the keys fetched                                *)

\* A call on its way through the keys.
Fetching(f) == Shape(f) /\ f.at = "fetch"

LEMMA FetchingFacts ==
    ASSUME NEW f, Fetching(f)
    PROVE  /\ f \in Calls /\ f.at = "fetch" /\ f.op \in Setops /\ f.op # "del"
           /\ f.asked \in Seq(Keys) /\ Len(f.asked) \in Nat /\ Len(f.asked) >= 1
           /\ f.i \in 1 .. Len(f.asked) /\ f.i \in Nat /\ f.i - 1 \in Nat /\ f.i - 1 + 1 = f.i
           /\ f.acc \in SUBSET Members /\ f.some \in BOOLEAN /\ f.dest \in Keys \cup {NoKey}
<1>1. f \in Calls /\ f.at = "fetch" /\ f.op \in Setops /\ Len(f.asked) >= 1 /\ f.i \in 1 .. Len(f.asked)
  BY DEF Fetching, Shape
<1>2. /\ f.asked \in Seq(Keys) /\ f.i \in Nat /\ f.acc \in SUBSET Members
      /\ f.some \in BOOLEAN /\ f.dest \in Keys \cup {NoKey}
  BY <1>1 DEF Calls
<1>3. f.op # "del"
  BY <1>1 DEF Setops
<1> QED BY <1>1, <1>2, <1>3

LEMMA ComputedSound ==
    ASSUME NEW c, NEW l, NEW h, NEW n, NEW f, Fetching(f), NEW r \in Replies,
           r # Error => InWindow(c, l, h, f, r.members),
           r = Error => n > 0 \/ (f.op = "sdiff" /\ LeftOut(c, l, f.asked[1]))
    PROVE  /\ Shape(Computed(f, r))
           /\ Sound(c, l, h, Computed(f, r), n)
           /\ Computed(f, r).asked = f.asked /\ Computed(f, r).at \in {"dest", "done"}
<1>1. /\ f \in Calls /\ f.at = "fetch" /\ f.op \in Setops /\ f.op # "del"
      /\ Len(f.asked) >= 1 /\ f.dest \in Keys \cup {NoKey}
  BY FetchingFacts
<1>2. CASE f.dest # NoKey /\ r.type = "MultiBulk"
  <2> DEFINE g == [f EXCEPT !.at = "dest", !.acc = r.members]
  <2>1. Computed(f, r) = g
    BY <1>2 DEF Computed
  <2>2. r.members \in SUBSET Members
    BY DEF Replies, MultiBulk, EmptyMultiBulk, IntReply, Error
  <2>3. g \in Calls /\ g.at = "dest" /\ g.asked = f.asked /\ g.op = f.op /\ g.dest = f.dest
    BY <1>1, <2>2 DEF Calls
  <2> HIDE DEF g
  <2>4. Shape(g)
    BY <1>1, <1>2, <2>3 DEF Shape
  <2>5. Sound(c, l, h, g, n)
    BY <1>1, <2>3 DEF Sound, Gathered, Answered, Refused, Deleting, IsRead
  <2> QED BY <2>1, <2>3, <2>4, <2>5
<1>3. CASE ~ (f.dest # NoKey /\ r.type = "MultiBulk")
  <2> DEFINE g == [f EXCEPT !.at = "done", !.reply = r]
  <2>1. Computed(f, r) = g
    BY <1>3 DEF Computed, Answer
  <2>2. /\ g \in Calls /\ g.at = "done" /\ g.asked = f.asked /\ g.op = f.op /\ g.dest = f.dest
        /\ g.reply = r
    BY <1>1 DEF Calls
  <2> HIDE DEF g
  <2>3. Shape(g)
    BY <1>1, <2>2 DEF Shape
  <2>4. r # Error => InWindow(c, l, h, g, r.members)
    BY <2>2 DEF InWindow
  <2>5. Sound(c, l, h, g, n)
    BY <1>1, <2>2, <2>4 DEF Sound, Gathered, Answered, Refused, Deleting
  <2> QED BY <2>1, <2>2, <2>3, <2>5
<1> QED BY <1>2, <1>3

LEMMA ContinueSound ==
    ASSUME NEW c, NEW l, NEW h, NEW n, NEW f, Fetching(f), NEW s \in SUBSET Members,
           f.op = "sunion" => UnionIn(l, h, f.asked, s, f.i),
           f.op = "sinter" /\ f.some => InterIn(c, l, h, f.asked, s, f.i),
           f.op = "sinter" /\ ~ f.some => s = {} /\ \A j \in 1 .. f.i : LeftOut(c, l, f.asked[j]),
           f.op = "sdiff" => DiffIn(l, h, f.asked, s, f.i)
    PROVE  /\ Shape(Continue(f, s))
           /\ Sound(c, l, h, Continue(f, s), n)
           /\ Continue(f, s).asked = f.asked /\ Continue(f, s).at \in {"fetch", "dest", "done"}
<1>1. /\ f \in Calls /\ f.at = "fetch" /\ f.op \in Setops /\ f.op # "del"
      /\ Len(f.asked) \in Nat /\ Len(f.asked) >= 1
      /\ f.i \in 1 .. Len(f.asked) /\ f.i \in Nat
  BY FetchingFacts
<1>2. CASE f.i = Len(f.asked)
  <2> DEFINE g == [f EXCEPT !.acc = s]
  <2>1. /\ g \in Calls /\ g.at = f.at /\ g.asked = f.asked /\ g.op = f.op /\ g.dest = f.dest
        /\ g.i = f.i
    BY <1>1 DEF Calls
  <2>2. Continue(f, s) = Computed(g, MultiBulk(s))
    BY <1>2 DEF Continue
  <2> HIDE DEF g
  <2>3. Fetching(g)
    BY <1>1, <2>1 DEF Fetching, Shape
  <2>4. f.op = "sinter" => InterIn(c, l, h, f.asked, s, f.i)
    <3>1. CASE ~ f.some
      <4> SUFFICES ASSUME f.op = "sinter" PROVE InterIn(c, l, h, f.asked, s, f.i)
        OBVIOUS
      <4>1. s = {} /\ 1 \in 1 .. f.i /\ \A j \in 1 .. f.i : LeftOut(c, l, f.asked[j])
        BY <1>1, <3>1
      <4>2. l[f.asked[1]] = {}
        BY <4>1 DEF LeftOut
      <4> QED BY <1>1, <4>1, <4>2, InterEmpty
    <3>2. CASE f.some
      BY <3>2
    <3> QED BY <3>1, <3>2
  <2>5. InWindow(c, l, h, g, s)
    BY <1>2, <2>1, <2>4 DEF InWindow
  <2>6. MultiBulk(s) \in Replies /\ MultiBulk(s) # Error /\ MultiBulk(s).members = s
    BY DEF Replies, MultiBulk, Error
  <2> HIDE DEF MultiBulk
  <2> QED BY <2>1, <2>2, <2>3, <2>5, <2>6, ComputedSound
<1>3. CASE f.i # Len(f.asked)
  <2> DEFINE g == [f EXCEPT !.acc = s, !.i = @ + 1]
  <2>1. /\ g \in Calls /\ g.at = f.at /\ g.asked = f.asked /\ g.op = f.op /\ g.dest = f.dest
        /\ g.i = f.i + 1 /\ g.acc = s /\ g.some = f.some
    <3>1. PICK b : b = f.i + 1
      OBVIOUS
    <3>2. b \in Nat /\ g = [f EXCEPT !.acc = s, !.i = b]
      BY <1>1, <3>1
    <3> HIDE DEF g
    <3>3. /\ g \in Calls /\ g.at = f.at /\ g.asked = f.asked /\ g.op = f.op /\ g.dest = f.dest
          /\ g.i = b /\ g.acc = s /\ g.some = f.some
      BY <1>1, <3>2 DEF Calls
    <3> QED BY <3>1, <3>3
  <2>2. Continue(f, s) = g
    BY <1>3 DEF Continue
  <2> HIDE DEF g
  <2>3. g.i \in 1 .. Len(f.asked) /\ g.i - 1 = f.i
    BY <1>1, <1>3, <2>1
  <2>4. Shape(g)
    BY <1>1, <2>1, <2>3 DEF Shape
  <2>5. Gathered(c, l, h, g)
    BY <2>1, <2>3 DEF Gathered
  <2>6. Sound(c, l, h, g, n)
    BY <1>1, <2>1, <2>5 DEF Sound, Answered, Refused, Deleting, IsRead
  <2> QED BY <1>1, <2>1, <2>2, <2>4, <2>6
<1> QED BY <1>2, <1>3
-----------------------------------------------------------------------------
(* One SMEMBERS                                                            *)

\* r is the reply of SMEMBERS to c for the key k that holds v.
Answers(c, k, v, r) == r = IF Remote(c, k) /\ v = {} THEN EmptyMultiBulk ELSE MultiBulk(v)

LEMMA AnswersFacts ==
    ASSUME NEW c, NEW k, NEW v \in SUBSET Members, NEW r, Answers(c, k, v, r)
    PROVE  /\ r \in Replies /\ r.members = v /\ r.type # "Error" /\ r # Error
           /\ r.type = "MultiBulk" \/ (Remote(c, k) /\ v = {})
           /\ r = MultiBulk({}) => v = {}
<1>1. CASE Remote(c, k) /\ v = {}
  <2>1. r = EmptyMultiBulk
    BY <1>1 DEF Answers
  <2> QED BY <1>1, <2>1 DEF Replies, EmptyMultiBulk, MultiBulk, Error
<1>2. CASE ~ (Remote(c, k) /\ v = {})
  <2>1. r = MultiBulk(v)
    BY <1>2 DEF Answers
  <2> QED BY <2>1 DEF Replies, MultiBulk, Error
<1> QED BY <1>1, <1>2

LEMMA SomeSet ==
    ASSUME NEW f, Fetching(f)
    PROVE  LET g == [f EXCEPT !.some = TRUE] IN
           /\ Fetching(g) /\ g.op = f.op /\ g.asked = f.asked /\ g.i = f.i /\ g.acc = f.acc /\ g.some
<1> DEFINE g == [f EXCEPT !.some = TRUE]
<1>1. f \in Calls /\ Shape(f) /\ f.at = "fetch"
  BY DEF Fetching, Shape
<1>2. /\ g \in Calls /\ g.at = f.at /\ g.op = f.op /\ g.asked = f.asked /\ g.i = f.i
      /\ g.acc = f.acc /\ g.dest = f.dest /\ g.groups = f.groups /\ g.some
  BY <1>1 DEF Calls
<1> HIDE DEF g
<1>3. Shape(g)
  BY <1>1, <1>2 DEF Shape
<1>4. /\ Fetching(g) /\ g.op = f.op /\ g.asked = f.asked /\ g.i = f.i /\ g.acc = f.acc /\ g.some
  BY <1>1, <1>2, <1>3 DEF Fetching
<1> QED BY <1>4 DEF g

\* What each of the three loops makes of it.
Stepped(c, l, h, n, f, g) ==
    Shape(g) /\ Sound(c, l, h, g, n) /\ g.asked = f.asked /\ g.at \in {"fetch", "dest", "done"}

LEMMA UnionStepSound ==
    ASSUME NEW c, NEW l, NEW h, NEW n, NEW f, Fetching(f), f.op = "sunion", Sound(c, l, h, f, n),
           NEW v \in SUBSET Members, Seen(l, h, f.asked, f.i, v), NEW r, Answers(c, f.asked[f.i], v, r)
    PROVE  Stepped(c, l, h, n, f, UnionStep(f, r))
<1>1. /\ f.at = "fetch" /\ f.i - 1 \in Nat /\ f.i - 1 + 1 = f.i /\ f.acc \in SUBSET Members
  BY FetchingFacts
<1>2. r.members = v /\ r.type # "Error"
  BY AnswersFacts
<1>3. UnionStep(f, r) = Continue(f, f.acc \cup v)
  BY <1>2 DEF UnionStep
<1>4. UnionIn(l, h, f.asked, f.acc, f.i - 1)
  BY <1>1 DEF Sound, Gathered
<1>5. UnionIn(l, h, f.asked, f.acc \cup v, f.i)
  BY <1>1, <1>4, UnionNext
<1> DEFINE s == f.acc \cup v
<1>6. s \in SUBSET Members
  BY <1>1
<1> HIDE DEF s
<1>7. Stepped(c, l, h, n, f, Continue(f, s))
  <2>1. UnionIn(l, h, f.asked, s, f.i)
    BY <1>5 DEF s
  <2> QED BY <1>6, <2>1, ContinueSound DEF Stepped
<1> QED BY <1>3, <1>7 DEF s

LEMMA DiffStepSound ==
    ASSUME NEW c, NEW l, NEW h, NEW n, NEW f, Fetching(f), f.op = "sdiff", Sound(c, l, h, f, n),
           NEW v \in SUBSET Members, Seen(l, h, f.asked, f.i, v), NEW r, Answers(c, f.asked[f.i], v, r)
    PROVE  Stepped(c, l, h, n, f, DiffStep(f, r))
<1>1. /\ f.at = "fetch" /\ f.i \in Nat /\ f.i - 1 \in Nat /\ f.i - 1 + 1 = f.i /\ f.acc \in SUBSET Members
      /\ Len(f.asked) \in Nat /\ f.i \in 1 .. Len(f.asked)
  BY FetchingFacts
<1>2. /\ r.members = v /\ r.type # "Error" /\ r \in Replies /\ r # Error
      /\ r.type = "MultiBulk" \/ (Remote(c, f.asked[f.i]) /\ v = {})
  BY AnswersFacts
<1>3. CASE f.i = 1
  <2>1. DiffIn(l, h, f.asked, v, 1)
    BY <1>3, DiffFirst
  <2>2. CASE r.type = "MultiBulk" /\ Len(f.asked) = 1
    <3>1. DiffStep(f, r) = Computed(f, r)
      BY <1>3, <2>2 DEF DiffStep, First
    <3>2. InWindow(c, l, h, f, r.members)
      BY <1>2, <2>1, <2>2 DEF InWindow
    <3> QED BY <1>2, <3>1, <3>2, ComputedSound DEF Stepped
  <2>3. CASE r.type = "MultiBulk" /\ Len(f.asked) # 1
    <3>1. DiffStep(f, r) = Continue(f, v)
      BY <1>2, <1>3, <2>3 DEF DiffStep, First
    <3>2. DiffIn(l, h, f.asked, v, f.i)
      BY <1>3, <2>1
    <3> QED BY <3>1, <3>2, ContinueSound DEF Stepped
  <2>4. CASE r.type # "MultiBulk"
    <3>1. DiffStep(f, r) = Computed(f, Error)
      BY <1>2, <1>3, <2>4 DEF DiffStep, First
    <3>2. LeftOut(c, l, f.asked[1])
      BY <1>2, <1>3, <2>4 DEF LeftOut, Seen
    <3>3. Error \in Replies
      BY DEF Replies
    <3> QED BY <3>1, <3>2, <3>3, ComputedSound DEF Stepped
  <2> QED BY <2>2, <2>3, <2>4
<1>4. CASE f.i # 1
  <2> DEFINE s == f.acc \ v
  <2>1. DiffIn(l, h, f.asked, f.acc, f.i - 1) /\ f.i - 1 # 0
    BY <1>1, <1>4 DEF Sound, Gathered
  <2>2. DiffIn(l, h, f.asked, s, f.i)
    BY <1>1, <2>1, DiffNext
  <2>3. s \in SUBSET Members
    BY <1>1
  <2>4. DiffStep(f, r) = IF s = {} THEN Computed(f, MultiBulk({})) ELSE Continue(f, s)
    BY <1>2, <1>4 DEF DiffStep, First
  <2> HIDE DEF s
  <2>5. CASE s = {}
    <3> DEFINE e == MultiBulk({})
    <3>1. e \in Replies /\ e # Error /\ e.members = {}
      BY DEF Replies, MultiBulk, Error
    <3> HIDE DEF e
    <3>2. DiffIn(l, h, f.asked, {}, Len(f.asked))
      BY <1>1, <2>2, <2>5, DiffEmpty
    <3>3. InWindow(c, l, h, f, e.members)
      BY <3>1, <3>2 DEF InWindow
    <3>4. Stepped(c, l, h, n, f, Computed(f, e))
      BY <3>1, <3>3, ComputedSound, SMTT(30) DEF Stepped
    <3> QED BY <2>4, <2>5, <3>4 DEF e
  <2>6. CASE s # {}
    <3>1. Stepped(c, l, h, n, f, Continue(f, s))
      BY <2>2, <2>3, ContinueSound DEF Stepped
    <3> QED BY <2>4, <2>6, <3>1
  <2> QED BY <2>5, <2>6
<1> QED BY <1>3, <1>4

LEMMA IntersectStepSound ==
    ASSUME NEW c, NEW l, NEW h, NEW n, NEW f, Fetching(f), f.op = "sinter", Sound(c, l, h, f, n),
           NEW v \in SUBSET Members, Seen(l, h, f.asked, f.i, v), NEW r, Answers(c, f.asked[f.i], v, r)
    PROVE  Stepped(c, l, h, n, f, IntersectStep(f, r))
<1> DEFINE a == f.asked
           b == f.i - 1
<1>1. /\ f.at = "fetch" /\ f.i \in Nat /\ b \in Nat /\ b + 1 = f.i /\ f.acc \in SUBSET Members
      /\ Len(a) \in Nat /\ f.i \in 1 .. Len(a) /\ f.some \in BOOLEAN /\ f \in Calls
  BY FetchingFacts
<1>2. /\ r.members = v /\ r.type # "Error" /\ r \in Replies /\ r # Error
      /\ r.type = "MultiBulk" \/ (Remote(c, a[f.i]) /\ v = {})
      /\ r = MultiBulk({}) => v = {}
  BY AnswersFacts
<1>3. /\ f.some => InterIn(c, l, h, a, f.acc, b)
      /\ ~f.some => f.acc = {} /\ \A j \in 1 .. b : LeftOut(c, l, a[j])
  BY <1>1 DEF Sound, Gathered
<1>4. v = {} => l[a[f.i]] = {}
  BY DEF Seen
<1>5. CASE Len(a) = 1 \/ r = MultiBulk({})
  <2>1. IntersectStep(f, r) = Computed(f, r)
    BY <1>5 DEF IntersectStep
  <2>2. InterIn(c, l, h, a, v, Len(a))
    <3>1. CASE v = {}
      BY <1>1, <1>4, <3>1, InterEmpty
    <3>2. CASE v # {}
      <4>1. Len(a) = 1 /\ f.i = 1 /\ 0 + 1 = 1 /\ \A j \in 1 .. 0 : LeftOut(c, l, a[j])
        BY <1>1, <1>2, <1>5, <3>2
      <4>2. InterIn(c, l, h, a, v, 0 + 1)
        BY <4>1, InterFirst
      <4> QED BY <4>1, <4>2
    <3> QED BY <3>1, <3>2
  <2>3. InWindow(c, l, h, f, r.members)
    BY <1>2, <2>2 DEF InWindow
  <2> QED BY <1>2, <2>1, <2>3, ComputedSound DEF Stepped
<1>6. CASE ~ (Len(a) = 1 \/ r = MultiBulk({})) /\ r.type = "MultiBulk"
  <2> DEFINE g == [f EXCEPT !.some = TRUE]
             s == IF f.some THEN f.acc \cap v ELSE v
  <2>1. [f EXCEPT !.some = @ \/ r.type = "MultiBulk"] = g
    BY <1>1, <1>6
  <2>2. IntersectStep(f, r) = Continue(g, s)
    BY <1>2, <1>6, <2>1 DEF IntersectStep
  <2>3. Fetching(g) /\ g.op = f.op /\ g.asked = f.asked /\ g.i = f.i /\ g.some
    BY SomeSet
  <2>4. s \in SUBSET Members
    BY <1>1
  <2>5. InterIn(c, l, h, a, s, f.i)
    <3> HIDE DEF b
    <3>1. CASE f.some
      <4>1. InterIn(c, l, h, a, f.acc \cap v, b + 1)
        BY <1>1, <1>3, <3>1, InterNext
      <4> QED BY <1>1, <3>1, <4>1
    <3>2. CASE ~ f.some
      <4>1. InterIn(c, l, h, a, v, b + 1)
        BY <1>1, <1>3, <3>2, InterFirst
      <4> QED BY <1>1, <3>2, <4>1
    <3> QED BY <3>1, <3>2
  <2> HIDE DEF g, s
  <2>6. g.op = "sinter" /\ g.some /\ InterIn(c, l, h, g.asked, s, g.i)
    BY <2>3, <2>5
  <2>7. Stepped(c, l, h, n, g, Continue(g, s))
    BY <2>3, <2>4, <2>6, ContinueSound DEF Stepped
  <2> QED BY <2>2, <2>3, <2>7 DEF Stepped
<1>7. CASE ~ (Len(a) = 1 \/ r = MultiBulk({})) /\ r.type # "MultiBulk"
  <2>1. [f EXCEPT !.some = @ \/ r.type = "MultiBulk"] = f
    <3>1. (f.some \/ r.type = "MultiBulk") = f.some
      BY <1>1, <1>7
    <3> QED BY <1>1, <3>1 DEF Calls
  <2>2. IntersectStep(f, r) = Continue(f, f.acc)
    BY <1>2, <1>7, <2>1 DEF IntersectStep
  <2>3. LeftOut(c, l, a[f.i])
    BY <1>2, <1>4, <1>7 DEF LeftOut
  <2>4. f.some => InterIn(c, l, h, a, f.acc, f.i)
    <3> HIDE DEF b
    <3> SUFFICES ASSUME f.some PROVE InterIn(c, l, h, a, f.acc, b + 1)
      BY <1>1
    <3> QED BY <1>1, <1>3, <2>3, InterSkip
  <2>5. ~ f.some => f.acc = {} /\ \A j \in 1 .. f.i : LeftOut(c, l, a[j])
    <3>1. \A j \in 1 .. f.i : j \in 1 .. b \/ j = f.i
      BY <1>1
    <3> QED BY <1>3, <2>3, <3>1
  <2>6. Stepped(c, l, h, n, f, Continue(f, f.acc))
    <3> DEFINE s == f.acc
    <3>1. s \in SUBSET Members
      BY <1>1
    <3>2. f.op = "sinter" /\ f.some => InterIn(c, l, h, f.asked, s, f.i)
      BY <2>4
    <3>3. f.op = "sinter" /\ ~ f.some => s = {} /\ \A j \in 1 .. f.i : LeftOut(c, l, f.asked[j])
      BY <2>5
    <3> HIDE DEF s
    <3>4. Stepped(c, l, h, n, f, Continue(f, s))
      BY <3>1, <3>2, <3>3, ContinueSound DEF Stepped
    <3> QED BY <3>4 DEF s
  <2> QED BY <2>2, <2>6
<1> QED BY <1>5, <1>6, <1>7
-----------------------------------------------------------------------------
(* The steps                                                               *)

LEMMA StepInv ==
    ASSUME IndInv, Observe, Wire', faults' \in Nat, faults <= faults', writes' \in 0 .. MaxWrites,
           NEW c \in Clients, NEW g, call' = [call EXCEPT ![c] = g], CallOK(c)'
    PROVE  IndInv'
<1>1. call \in [Clients -> Calls]
  BY DEF IndInv
<1>2. call'[c] = g /\ \A d \in Clients : d # c => call'[d] = call[d]
  BY <1>1
<1>3. g \in Calls
  BY <1>2 DEF CallOK, Shape
<1>4. call' \in [Clients -> Calls]
  BY <1>1, <1>3
<1>5. ASSUME NEW d \in Clients PROVE CallOK(d)'
  <2>1. CASE d = c
    BY <2>1
  <2>2. CASE d # c
    BY <1>2, <2>2, OtherStays
  <2> QED BY <2>1, <2>2
<1> QED BY <1>4, <1>5 DEF IndInv

\* A step that no call takes part in.
LEMMA QuietInv ==
    ASSUME IndInv, Observe, Wire', faults' \in Nat, faults <= faults', writes' \in 0 .. MaxWrites, call' = call
    PROVE  IndInv'
<1>1. ASSUME NEW d \in Clients PROVE CallOK(d)'
  BY OtherStays
<1> QED BY <1>1 DEF IndInv

LEMMA SelfStays ==
    ASSUME IndInv, Observe, Wire', faults' \in Nat, faults <= faults', NEW c \in Clients,
           call[c].at # "idle", call'[c].asked = call[c].asked
    PROVE  /\ Shape(call[c])
           /\ Bounded(lo[c], hi[c], call[c].asked)'
           /\ Sound(c, lo'[c], hi'[c], call[c], faults')
<1>1. Shape(call[c]) /\ Sound(c, lo[c], hi[c], call[c], faults) /\ faults \in Nat
  BY BoundsAssumption DEF IndInv, CallOK, Wire
<1>2. call[c].asked \in Seq(Keys)
  BY <1>1 DEF Shape, Calls
<1>3. Bounded(lo[c], hi[c], call[c].asked)' /\ Wider(lo[c], hi[c], lo'[c], hi'[c], call[c].asked)
  BY <1>2, GhostsStay
<1>4. Sound(c, lo'[c], hi'[c], call[c], faults')
  BY <1>1, <1>3, SoundWider
<1> QED BY <1>1, <1>3, <1>4

LEMMA WireFacts ==
    ASSUME IndInv
    PROVE  /\ Wire /\ faults \in Nat /\ writes \in 0 .. MaxWrites /\ MaxWrites \in Nat /\ writes \in Nat
           /\ call \in [Clients -> Calls]
  BY BoundsAssumption DEF IndInv, Wire

LEMMA ArriveInv ==
    ASSUME IndInv, Arrive, Observe
    PROVE  IndInv'
<1>1. Wire /\ faults \in Nat /\ writes \in 0 .. MaxWrites
  BY WireFacts
<1>2. Wire' /\ faults' = faults /\ call' = call /\ writes' = writes
  BY <1>1, ArriveWire
<1>3. faults' \in Nat /\ faults <= faults' /\ writes' \in 0 .. MaxWrites
  BY <1>1, <1>2
<1> QED BY <1>2, <1>3, QuietInv

LEMMA DefaultInv ==
    ASSUME IndInv, NEW c \in Clients, defaultFunc(c), Observe
    PROVE  IndInv'
<1>1. Wire /\ faults \in Nat /\ writes \in Nat /\ MaxWrites \in Nat
  BY WireFacts
<1>2. PICK k \in Keys, name \in {"sadd", "srem"}, s \in SUBSET Members :
          LET cmd == [name |-> name, key |-> k, members |-> s]
              peer == Peer(c, k) IN
          /\ writes < MaxWrites /\ writes' = writes + 1
          /\ Executed(peer, cmd) \/ Lost(c, peer) \/ Late(c, peer, cmd)
          /\ call' = call
  BY DEF defaultFunc
<1> DEFINE cmd == [name |-> name, key |-> k, members |-> s]
           peer == Peer(c, k)
<1>3. peer = Owner(k) /\ peer \in Nodes
  BY PeerOwner
<1>4. cmd \in Relayed
  BY DEF Relayed
<1>5. AtHome(peer, cmd)
  BY <1>3 DEF AtHome
<1>6. Executed(peer, cmd) \/ Lost(c, peer) \/ Late(c, peer, cmd)
  BY <1>2
<1>7. writes' \in 0 .. MaxWrites /\ call' = call
  BY <1>1, <1>2
<1> HIDE DEF cmd, peer
<1>8. Wire' /\ faults' \in Nat /\ (faults' = faults \/ faults' = faults + 1)
  BY <1>1, <1>3, <1>4, <1>5, <1>6, RelayWire
<1>9. faults <= faults'
  BY <1>1, <1>8
<1> QED BY <1>7, <1>8, <1>9, QuietInv

LEMMA RenameInv ==
    ASSUME IndInv, NEW c \in Clients, renameFunc(c), Observe
    PROVE  IndInv'
<1>1. Wire /\ faults \in Nat /\ writes \in Nat /\ MaxWrites \in Nat
  BY WireFacts
<1>2. PICK src \in Keys, dest \in Keys :
          LET cmd == [name |-> "rename", src |-> src, dest |-> dest]
              peer == Peer(c, src) IN
          /\ peer = Peer(c, dest)
          /\ writes < MaxWrites /\ writes' = writes + 1
          /\ Executed(peer, cmd) \/ Lost(c, peer) \/ Late(c, peer, cmd)
          /\ call' = call
  BY DEF renameFunc
<1> DEFINE cmd == [name |-> "rename", src |-> src, dest |-> dest]
           peer == Peer(c, src)
<1>3. peer = Owner(dest) /\ peer \in Nodes
  BY <1>2, PeerOwner
<1>4. cmd \in Relayed
  BY DEF Relayed
<1>5. AtHome(peer, cmd)
  BY <1>3 DEF AtHome
<1>6. Executed(peer, cmd) \/ Lost(c, peer) \/ Late(c, peer, cmd)
  BY <1>2
<1>7. writes' \in 0 .. MaxWrites /\ call' = call
  BY <1>1, <1>2
<1> HIDE DEF cmd, peer
<1>8. Wire' /\ faults' \in Nat /\ (faults' = faults \/ faults' = faults + 1)
  BY <1>1, <1>3, <1>4, <1>5, <1>6, RelayWire
<1>9. faults <= faults'
  BY <1>1, <1>8
<1> QED BY <1>7, <1>8, <1>9, QuietInv

LEMMA UnchangedWire ==
    ASSUME Wire, UNCHANGED <<data, late, faults>>
    PROVE  Wire'
  BY DEF Wire, LateHome

LEMMA FinishInv ==
    ASSUME IndInv, NEW c \in Clients, Finish(c), Observe
    PROVE  IndInv'
<1>1. Wire /\ faults \in Nat /\ writes \in 0 .. MaxWrites /\ call \in [Clients -> Calls]
  BY WireFacts
<1>2. call' = [call EXCEPT ![c] = Idle] /\ UNCHANGED <<data, late, faults, writes>>
  BY DEF Finish
<1>3. Wire' /\ faults' \in Nat /\ faults <= faults' /\ writes' \in 0 .. MaxWrites
  BY <1>1, <1>2, UnchangedWire
<1>4. call'[c] = Idle
  BY <1>1, <1>2
<1>5. Idle \in Calls
  <2>1. Error \in Replies /\ <<>> \in Seq(Keys) /\ 0 \in Nat /\ NoKey \in Keys \cup {NoKey}
    BY DEF Replies
  <2> QED BY <2>1 DEF Idle, Calls
<1>6. /\ Idle.at = "idle" /\ Idle.asked = <<>> /\ Idle.op = "none"
  BY DEF Idle
<1>7. Shape(Idle)
  BY <1>5, <1>6 DEF Shape
<1>8. Bounded(lo[c], hi[c], call[c].asked)'
  BY <1>4, <1>6 DEF Bounded, Range
<1>9. Sound(c, lo'[c], hi'[c], Idle, faults')
  BY <1>6 DEF Sound, Gathered, Answered, Refused, Deleting, IsRead
<1>10. CallOK(c)'
  BY <1>4, <1>6, <1>7, <1>8, <1>9 DEF CallOK, Cleared
<1> QED BY <1>2, <1>3, <1>10, StepInv

LEMMA StartInv ==
    ASSUME IndInv, NEW c \in Clients, Start(c), Observe
    PROVE  IndInv'
<1>1. Wire /\ faults \in Nat /\ writes \in 0 .. MaxWrites /\ call \in [Clients -> Calls]
  BY WireFacts
<1>2. PICK op \in Ops, keys \in Sources, dest \in Dests :
        call' = [call EXCEPT ![c] =
            IF op = "del"
            THEN [Idle EXCEPT !.at = "del", !.op = op, !.asked = keys,
                              !.groups = {Peer(c, k) : k \in Range(keys)}]
            ELSE [Idle EXCEPT !.at = "fetch", !.op = op, !.dest = dest, !.asked = keys, !.i = 1]]
  BY DEF Start
<1>3. call[c].at = "idle" /\ UNCHANGED <<data, late, faults, writes>>
  BY DEF Start
<1>4. Wire' /\ faults' \in Nat /\ faults <= faults' /\ writes' \in 0 .. MaxWrites
  BY <1>1, <1>3, UnchangedWire
<1>5. keys \in Seq(Keys) /\ Len(keys) \in Nat /\ Len(keys) >= 1 /\ DOMAIN keys = 1 .. Len(keys)
  <2>1. PICK n \in 1 .. MaxSources : keys \in [1 .. n -> Keys]
    BY DEF Sources
  <2>2. n \in Nat /\ n >= 1
    BY <2>1, BoundsAssumption
  <2> QED BY <2>1, <2>2
<1>6. \A k \in Range(keys) : k \in Keys
  BY <1>5 DEF Range
<1>7. PICK g : g = call'[c]
  OBVIOUS
<1>8. Error \in Replies /\ <<>> \in Seq(Keys) /\ NoKey \in Keys \cup {NoKey} /\ dest \in Keys \cup {NoKey}
  BY DestsAssumption DEF Replies
<1>9. \A k \in Range(keys) : k \in Range(call'[c].asked) => lo'[c][k] = Held(k)' /\ hi'[c][k] = Held(k)'
  BY <1>3, <1>4, <1>6, Ghosts
<1>10. CASE op = "del"
  <2> DEFINE gs == {Peer(c, k) : k \in Range(keys)}
  <2>1. gs \subseteq Nodes /\ gs # {} /\ \A k \in Range(keys) : Owner(k) \in gs
    <3>1. \A k \in Range(keys) : Peer(c, k) = Owner(k) /\ Owner(k) \in Nodes
      BY <1>6, PeerOwner
    <3>2. keys[1] \in Range(keys)
      BY <1>5 DEF Range
    <3> QED BY <3>1, <3>2
  <2> HIDE DEF gs
  <2>2. g = [Idle EXCEPT !.at = "del", !.op = op, !.asked = keys, !.groups = gs]
    BY <1>1, <1>2, <1>7, <1>10 DEF gs
  <2>3. g \in Calls /\ g.at = "del" /\ g.op = "del" /\ g.asked = keys /\ g.groups = gs
    <3> QED BY <1>5, <1>8, <1>10, <2>1, <2>2 DEF Idle, Calls
  <2>4. Shape(g)
    BY <1>5, <2>1, <2>3 DEF Shape
  <2>5. Bounded(lo[c], hi[c], call[c].asked)'
    BY <1>7, <1>9, <2>3 DEF Bounded
  <2>6. Sound(c, lo'[c], hi'[c], g, faults')
    BY <2>1, <2>3 DEF Sound, Gathered, Answered, Refused, Deleting, IsRead
  <2> QED BY <1>2, <1>4, <1>7, <2>3, <2>4, <2>5, <2>6, StepInv DEF CallOK, Cleared
<1>11. CASE op # "del"
  <2>1. g = [Idle EXCEPT !.at = "fetch", !.op = op, !.dest = dest, !.asked = keys, !.i = 1]
    BY <1>1, <1>2, <1>7, <1>11
  <2>2. /\ g \in Calls /\ g.at = "fetch" /\ g.op = op /\ g.asked = keys /\ g.i = 1 /\ g.acc = {}
        /\ g.some = FALSE
    <3> QED BY <1>5, <1>8, <1>11, <2>1 DEF Idle, Calls
  <2>3. op \in Setops
    BY <1>11, OpsAssumption DEF Setops
  <2>4. Shape(g)
    BY <1>5, <2>2, <2>3 DEF Shape
  <2>5. Bounded(lo[c], hi[c], call[c].asked)'
    BY <1>7, <1>9, <2>2 DEF Bounded
  <2>6. Gathered(c, lo'[c], hi'[c], g)
    <3>1. g.i - 1 = 0 /\ 1 .. 0 = {} /\ ~ g.some
      BY <2>2
    <3>2. UnionIn(lo'[c], hi'[c], g.asked, g.acc, 0)
      BY <2>2 DEF UnionIn
    <3> QED BY <2>2, <3>1, <3>2 DEF Gathered
  <2>7. Sound(c, lo'[c], hi'[c], g, faults')
    BY <1>11, <2>2, <2>6 DEF Sound, Answered, Refused, Deleting, IsRead
  <2> QED BY <1>2, <1>4, <1>7, <2>2, <2>4, <2>5, <2>7, StepInv DEF CallOK, Cleared
<1> QED BY <1>10, <1>11
\* What DEL leaves of the keys it names.
LEMMA DelEmpties ==
    ASSUME NEW d, HomeData(d), NEW n \in Nodes, NEW ks \in SUBSET Keys, NEW k \in ks
    PROVE  [d EXCEPT ![n] = Apply(@, [name |-> "del", keys |-> ks])][n][k] = {}
<1> DEFINE cmd == [name |-> "del", keys |-> ks]
<1>1. Apply(d[n], cmd) = [j \in Keys |-> IF j \in ks THEN {} ELSE d[n][j]]
  BY DEF Apply, execDel
<1>2. d \in [Nodes -> [Keys -> SUBSET Members]]
  BY DEF HomeData
<1> QED BY <1>1, <1>2

LEMMA DelFuncInv ==
    ASSUME IndInv, NEW c \in Clients, delFunc(c), Observe
    PROVE  IndInv'
<1>1. Wire /\ faults \in Nat /\ writes \in 0 .. MaxWrites /\ call \in [Clients -> Calls]
  BY WireFacts
<1>2. PICK f : f = call[c]
  OBVIOUS
<1>3. f.at = "del" /\ writes' = writes
  BY <1>2 DEF delFunc
<1>4. PICK peer \in f.groups :
        LET cmd == [name |-> "del", keys |-> {k \in Range(f.asked) : Peer(c, k) = peer}] IN
        \/ Executed(peer, cmd) /\ DelNode(c, peer, IntReply)
        \/ Lost(c, peer) /\ DelNode(c, peer, Error)
        \/ Late(c, peer, cmd) /\ DelNode(c, peer, Error)
  BY <1>2 DEF delFunc
<1> DEFINE ks == {k \in Range(f.asked) : Peer(c, k) = peer}
           cmd == [name |-> "del", keys |-> ks]
<1>5. Shape(f) /\ f \in Calls /\ f.op = "del" /\ f.asked \in Seq(Keys) /\ f.groups \in SUBSET Nodes
      /\ f.failed \in SUBSET Nodes /\ Len(f.asked) >= 1
  BY <1>2, <1>3 DEF IndInv, CallOK, Shape, Calls
<1>6. \A k \in Range(f.asked) : k \in Keys
  BY <1>5 DEF Range
<1>7. peer \in Nodes /\ ks \in SUBSET Keys /\ ks \subseteq Range(f.asked)
  BY <1>4, <1>5, <1>6
<1>8. cmd \in Relayed /\ AtHome(peer, cmd)
  BY <1>7 DEF Relayed, AtHome
<1>9. PICK r \in {IntReply, Error} :
        /\ DelNode(c, peer, r)
        /\ r = IntReply => Executed(peer, cmd)
        /\ Executed(peer, cmd) \/ Lost(c, peer) \/ Late(c, peer, cmd)
  <2>1. IntReply # Error
    BY DEF IntReply, Error
  <2> QED BY <1>4, <2>1, Zenon
<1>10. Wire' /\ faults' \in Nat /\ (faults' = faults \/ faults' = faults + 1)
  <2>1. Executed(peer, cmd) \/ Lost(c, peer) \/ Late(c, peer, cmd)
    BY <1>9, Zenon
  <2>2. peer \in Nodes
    BY <1>7
  <2> HIDE DEF cmd
  <2> QED BY <1>1, <1>8, <2>1, <2>2, RelayWire
<1>11. faults <= faults'
  BY <1>1, <1>10
<1> DEFINE gs == f.groups \ {peer}
           fl == f.failed \cup IF r = Error THEN {peer} ELSE {}
           g == [f EXCEPT !.groups = gs, !.failed = fl]
           e == IF gs # {} THEN g ELSE [g EXCEPT !.at = "done", !.reply = IF fl # {} THEN Error ELSE IntReply]
<1>12. g.groups = gs /\ g.failed = fl /\ g \in Calls /\ g.at = "del" /\ g.op = "del" /\ g.asked = f.asked
  <2>1. gs \in SUBSET Nodes /\ fl \in SUBSET Nodes
    BY <1>5, <1>7
  <2> HIDE DEF gs, fl
  <2> QED BY <1>3, <1>5, <2>1 DEF Calls
<1>13. call' = [call EXCEPT ![c] = e]
  <2>1. call' = [call EXCEPT ![c] = IF g.groups # {} THEN g ELSE Answer(g, IF g.failed # {} THEN Error ELSE IntReply)]
    BY <1>2, <1>9, Zenon DEF DelNode
  <2> HIDE DEF g
  <2> QED BY <1>12, <2>1 DEF Answer
<1> HIDE DEF g
<1>14. /\ e \in Calls /\ e.op = "del" /\ e.asked = f.asked /\ e.groups = gs /\ e.failed = fl
       /\ gs # {} => e.at = "del"
       /\ gs = {} => e.at = "done" /\ e.reply = IF fl # {} THEN Error ELSE IntReply
  <2> HIDE DEF gs, fl
  <2>1. PICK rep : rep = IF fl # {} THEN Error ELSE IntReply
    OBVIOUS
  <2>2. rep \in Replies
    BY <2>1 DEF Replies
  <2>3. CASE gs # {}
    BY <1>12, <2>3
  <2>4. CASE gs = {}
    <3>1. e = [g EXCEPT !.at = "done", !.reply = rep]
      BY <2>1, <2>4
    <3>2. e \in Calls /\ e.op = "del" /\ e.asked = f.asked /\ e.groups = gs /\ e.failed = fl /\ e.at = "done" /\ e.reply = rep
      <4> HIDE DEF e
      <4> QED BY <1>12, <2>2, <3>1 DEF Calls
    <3> QED BY <2>1, <2>4, <3>2
  <2> QED BY <2>3, <2>4
<1> HIDE DEF e
<1>15. call'[c] = e
  BY <1>1, <1>13
<1>16. Shape(e)
  <2> HIDE DEF gs, fl
  <2> QED BY <1>5, <1>14 DEF Shape
<1>17. Bounded(lo[c], hi[c], call[c].asked)' /\ Sound(c, lo'[c], hi'[c], f, faults')
  <2>1. call[c].at # "idle" /\ call'[c].asked = call[c].asked
    BY <1>2, <1>3, <1>14, <1>15
  <2> QED BY <1>2, <1>10, <1>11, <2>1, SelfStays
<1>18. ASSUME NEW k \in Range(f.asked) PROVE Owner(k) \in gs \/ lo'[c][k] = {} \/ Owner(k) \in fl
  <2>1. Owner(k) \in f.groups \/ lo'[c][k] = {} \/ Owner(k) \in f.failed
    BY <1>5, <1>17 DEF Sound, Deleting
  <2>2. CASE Owner(k) = peer /\ r = IntReply
    <3>1. k \in ks
      BY <1>6, <2>2, PeerOwner
    <3>2. data' = [data EXCEPT ![peer] = Apply(@, [name |-> "del", keys |-> ks])]
      <4>1. Executed(peer, cmd)
        BY <1>9, <2>2, Zenon
      <4> HIDE DEF ks
      <4> QED BY <4>1, Zenon DEF Executed
    <3>3. data'[peer][k] = {}
      <4> HIDE DEF ks
      <4> QED BY <1>1, <1>7, <3>1, <3>2, DelEmpties DEF Wire
    <3>4. Held(k)' = {}
      BY <2>2, <3>3 DEF Held
    <3>5. lo'[c][k] \subseteq Held(k)'
      BY <1>14, <1>15, <1>17 DEF Bounded
    <3> QED BY <3>4, <3>5
  <2>3. CASE Owner(k) = peer /\ r # IntReply
    <3>1. r = Error
      BY <1>9, <2>3
    <3> QED BY <2>3, <3>1
  <2>4. CASE Owner(k) # peer
    BY <2>1, <2>4
  <2> QED BY <2>2, <2>3, <2>4
<1>19. Sound(c, lo'[c], hi'[c], e, faults')
  <2>1. e.at = "done" => e.groups = {} /\ (e.reply = IntReply <=> e.failed = {})
    <3> HIDE DEF gs, fl
    <3>1. IntReply # Error
      BY DEF IntReply, Error
    <3> HIDE DEF IntReply, Error
    <3> QED BY <1>14, <3>1
  <2>2. Deleting(lo'[c], e)
    <3> HIDE DEF gs, fl
    <3> QED BY <1>14, <1>18, <2>1 DEF Deleting
  <2>3. e.at # "fetch"
    <3> HIDE DEF gs, fl
    <3> QED BY <1>14
  <2> QED BY <1>14, <2>2, <2>3 DEF Sound, Gathered, Answered, Refused, IsRead
<1>20. CallOK(c)'
  <2>1. e.at # "add"
    <3> HIDE DEF gs, fl
    <3> QED BY <1>14
  <2> QED BY <1>15, <1>16, <1>17, <1>19, <2>1 DEF CallOK, Cleared
<1>21. writes' \in 0 .. MaxWrites
  BY <1>1, <1>3
<1> QED BY <1>10, <1>11, <1>13, <1>20, <1>21, StepInv

LEMMA FetchInv ==
    ASSUME IndInv, NEW c \in Clients, Fetch(c), Observe
    PROVE  IndInv'
<1>1. Wire /\ faults \in Nat /\ writes \in 0 .. MaxWrites /\ call \in [Clients -> Calls]
  BY WireFacts
<1>2. PICK f : f = call[c]
  OBVIOUS
<1>3. f.at = "fetch" /\ writes' = writes
  BY <1>2 DEF Fetch
<1>4. PICK k : k = f.asked[f.i]
  OBVIOUS
<1>5. PICK r \in {SMembers(c, k), Error} :
        /\ IF r = Error THEN Lost(c, Peer(c, k)) ELSE UNCHANGED <<data, late, faults>>
        /\ call' = [call EXCEPT ![c] = CASE f.op = "sunion" -> UnionStep(f, r)
                                         [] f.op = "sinter" -> IntersectStep(f, r)
                                         [] f.op = "sdiff" -> DiffStep(f, r)]
  BY <1>2, <1>4 DEF Fetch
<1>6. Shape(f) /\ Fetching(f)
  BY <1>2, <1>3 DEF IndInv, CallOK, Fetching
<1>7. /\ f.op \in Setops /\ f.asked \in Seq(Keys) /\ f.i \in 1 .. Len(f.asked) /\ f.i \in Nat /\ f.at = "fetch"
  BY <1>6, FetchingFacts
<1>8. k \in Keys /\ k \in Range(f.asked)
  BY <1>4, <1>7 DEF Range
<1>9. Peer(c, k) = Owner(k) /\ Owner(k) \in Nodes
  BY <1>8, PeerOwner
<1>10. PICK g : g = CASE f.op = "sunion" -> UnionStep(f, r)
                      [] f.op = "sinter" -> IntersectStep(f, r)
                      [] f.op = "sdiff" -> DiffStep(f, r)
  OBVIOUS
<1>11. call' = [call EXCEPT ![c] = g] /\ call'[c] = g
  BY <1>1, <1>5, <1>10
<1>12. /\ f.op = "sunion" => g = UnionStep(f, r)
       /\ f.op = "sinter" => g = IntersectStep(f, r)
       /\ f.op = "sdiff" => g = DiffStep(f, r)
  BY <1>10
<1>13. /\ Wire' /\ faults' \in Nat /\ faults <= faults' /\ data' = data
       /\ r = Error => faults' > 0
  <2>1. CASE r = Error
    <3>1. Lost(c, Peer(c, k))
      BY <1>5, <2>1
    <3>2. data' = data /\ late' = late /\ faults' = faults + 1 /\ faults < MaxFaults
      BY <3>1 DEF Lost, Fault
    <3>3. faults' \in 0 .. MaxFaults /\ MaxFaults \in Nat /\ 0 .. faults - 1 \subseteq 0 .. faults' - 1
      BY <1>1, <3>2, BoundsAssumption
    <3>4. late' \subseteq [n: 0 .. faults' - 1, peer: Nodes, cmd: Relayed]
      BY <1>1, <3>2, <3>3 DEF Wire
    <3>5. Wire'
      BY <1>1, <3>2, <3>3, <3>4 DEF Wire, LateHome
    <3> QED BY <1>1, <3>2, <3>3, <3>5
  <2>2. CASE r # Error
    BY <1>1, <1>5, <2>2, UnchangedWire
  <2> QED BY <2>1, <2>2
<1>14. CASE r = Error
  <2>1. r.type = "Error"
    BY <1>14 DEF Error
  <2>2. g = Computed(f, Error)
    <3>1. UnionStep(f, r) = Computed(f, r) /\ IntersectStep(f, r) = Computed(f, r) /\ DiffStep(f, r) = Computed(f, r)
      BY <2>1 DEF UnionStep, IntersectStep, DiffStep
    <3> QED BY <1>7, <1>12, <1>14, <3>1 DEF Setops
  <2>3. Error \in Replies
    BY DEF Replies
  <2>4. Shape(g) /\ Sound(c, lo'[c], hi'[c], g, faults') /\ g.asked = f.asked /\ g.at \in {"dest", "done"}
    BY <1>6, <1>13, <1>14, <2>2, <2>3, ComputedSound
  <2>5. Bounded(lo[c], hi[c], call[c].asked)'
    BY <1>2, <1>3, <1>11, <1>13, <2>4, SelfStays
  <2>6. CallOK(c)'
    BY <1>11, <2>4, <2>5 DEF CallOK, Cleared
  <2> QED BY <1>1, <1>3, <1>11, <1>13, <2>6, StepInv
<1>15. CASE r # Error
  <2>1. PICK v : v = Held(k)
    OBVIOUS
  <2>2. v \in SUBSET Members
    BY <1>1, <1>8, <1>9, <2>1 DEF Wire, HomeData, Held
  <2>3. Answers(c, f.asked[f.i], v, r)
    BY <1>4, <1>5, <1>9, <1>15, <2>1 DEF Answers, SMembers, Held
  <2>4. Bounded(lo[c], hi[c], call[c].asked)
    BY DEF IndInv, CallOK
  <2>5. ASSUME NEW j \in Range(f.asked), j \in Range(call'[c].asked)
        PROVE  lo'[c][j] = lo[c][j] /\ hi'[c][j] = hi[c][j]
    <3>1. j \in Keys
      BY <1>7 DEF Range
    <3>2. lo'[c][j] = lo[c][j] \cap Held(j)' /\ hi'[c][j] = hi[c][j] \cup Held(j)'
      BY <1>2, <1>3, <1>13, <2>5, <3>1, Ghosts
    <3>3. Held(j)' = Held(j)
      BY <1>13 DEF Held
    <3>4. lo[c][j] \subseteq Held(j) /\ Held(j) \subseteq hi[c][j]
      BY <1>2, <2>4 DEF Bounded
    <3> QED BY <3>2, <3>3, <3>4
  <2>6. Seen(lo[c], hi[c], f.asked, f.i, v)
    BY <1>2, <1>4, <1>8, <2>1, <2>4 DEF Seen, Bounded
  <2>7. Sound(c, lo[c], hi[c], f, faults)
    BY <1>2 DEF IndInv, CallOK
  <2>8. Stepped(c, lo[c], hi[c], faults, f, g)
    <3>1. CASE f.op = "sunion"
      BY <1>6, <1>12, <2>2, <2>3, <2>6, <2>7, <3>1, UnionStepSound
    <3>2. CASE f.op = "sinter"
      BY <1>6, <1>12, <2>2, <2>3, <2>6, <2>7, <3>2, IntersectStepSound
    <3>3. CASE f.op = "sdiff"
      BY <1>6, <1>12, <2>2, <2>3, <2>6, <2>7, <3>3, DiffStepSound
    <3> QED BY <1>7, <3>1, <3>2, <3>3 DEF Setops
  <2>9. Shape(g) /\ g.asked = f.asked /\ g.at # "add" /\ Sound(c, lo[c], hi[c], g, faults)
    BY <2>8 DEF Stepped
  <2>10. Wider(lo[c], hi[c], lo'[c], hi'[c], g.asked)
    <3>1. \A j \in 1 .. Len(f.asked) : f.asked[j] \in Range(f.asked)
      BY <1>7 DEF Range
    <3> QED BY <1>11, <2>5, <2>9, <3>1 DEF Wider
  <2>11. Sound(c, lo'[c], hi'[c], g, faults')
    BY <1>1, <1>13, <2>9, <2>10, SoundWider
  <2>12. Bounded(lo[c], hi[c], call[c].asked)'
    BY <1>2, <1>3, <1>11, <1>13, <2>9, SelfStays
  <2>13. CallOK(c)'
    BY <1>11, <2>9, <2>11, <2>12 DEF CallOK, Cleared
  <2> QED BY <1>1, <1>3, <1>11, <1>13, <2>13, StepInv
<1> QED BY <1>14, <1>15
\* The DEL of a store: what it leaves of the call.
LEMMA DelDestFacts ==
    ASSUME IndInv, NEW c \in Clients, DelDest(c)
    PROVE  /\ call[c].at = "dest" /\ call[c] \in Calls /\ call[c].dest \in Keys
           /\ Wire' /\ faults' \in Nat /\ faults <= faults' /\ writes' = writes
           /\ \E fl \in SUBSET Nodes :
                /\ call' = [call EXCEPT ![c] = Deleted([call[c] EXCEPT !.failed = fl])]
                /\ fl = {} => data'[Owner(call[c].dest)][call[c].dest] = {}
<1>1. Wire /\ faults \in Nat /\ call \in [Clients -> Calls]
  BY WireFacts
<1>2. PICK f : f = call[c]
  OBVIOUS
<1>3. PICK k : k = f.dest
  OBVIOUS
<1>4. f.at = "dest" /\ writes' = writes
  BY <1>2 DEF DelDest
<1>5. Shape(f) /\ f \in Calls /\ k \in Keys /\ f.failed \in SUBSET Nodes
  BY <1>2, <1>3, <1>4 DEF IndInv, CallOK, Shape, Calls
<1>6. Peer(c, k) = Owner(k) /\ Owner(k) \in Nodes
  BY <1>5, PeerOwner
<1> DEFINE peer == Owner(k)
           cmd == [name |-> "del", keys |-> {k}]
<1>7. \/ Executed(peer, cmd) /\ call' = [call EXCEPT ![c] = Deleted(f)]
      \/ /\ Lost(c, peer) \/ Late(c, peer, cmd)
         /\ call' = [call EXCEPT ![c] = Deleted([f EXCEPT !.failed = {peer}])]
  BY <1>2, <1>3, <1>6, Zenon DEF DelDest
<1>8. {k} \in SUBSET Keys
  BY <1>5
<1>9. cmd \in Relayed /\ AtHome(peer, cmd)
  BY <1>8 DEF Relayed, AtHome
<1>10. Executed(peer, cmd) \/ Lost(c, peer) \/ Late(c, peer, cmd)
  BY <1>7, Zenon
<1>11. Wire' /\ faults' \in Nat /\ (faults' = faults \/ faults' = faults + 1)
  <2>1. peer \in Nodes
    BY <1>6
  <2> HIDE DEF cmd, peer
  <2> QED BY <1>1, <1>9, <1>10, <2>1, RelayWire
<1>12. faults <= faults'
  BY <1>1, <1>11
<1>13. \E fl \in SUBSET Nodes :
         /\ call' = [call EXCEPT ![c] = Deleted([f EXCEPT !.failed = fl])]
         /\ fl = {} => data'[peer][k] = {}
  <2>1. CASE Executed(peer, cmd) /\ call' = [call EXCEPT ![c] = Deleted(f)]
    <3>1. f = [f EXCEPT !.failed = f.failed]
      BY <1>5 DEF Calls
    <3>2. data' = [data EXCEPT ![peer] = Apply(@, [name |-> "del", keys |-> {k}])]
      BY <2>1, Zenon DEF Executed
    <3>3. data'[peer][k] = {}
      <4>1. HomeData(data) /\ peer \in Nodes /\ k \in {k}
        BY <1>1, <1>6 DEF Wire
      <4> QED BY <1>8, <3>2, <4>1, DelEmpties
    <3>4. call' = [call EXCEPT ![c] = Deleted([f EXCEPT !.failed = f.failed])]
      BY <2>1, <3>1, Zenon
    <3> QED BY <1>5, <3>3, <3>4, Zenon
  <2>2. CASE call' = [call EXCEPT ![c] = Deleted([f EXCEPT !.failed = {peer}])]
    <3>1. {peer} \in SUBSET Nodes /\ {peer} # {}
      BY <1>6
    <3> QED BY <2>2, <3>1, Zenon
  <2> QED BY <1>7, <2>1, <2>2, Zenon
<1> QED BY <1>2, <1>3, <1>4, <1>5, <1>11, <1>12, <1>13, Zenon

\* The call after the DEL of its destination.
LEMMA DeletedFacts ==
    ASSUME NEW f \in Calls, f.at = "dest", NEW fl \in SUBSET Nodes
    PROVE  LET g == Deleted([f EXCEPT !.failed = fl]) IN
           /\ g \in Calls /\ g.op = f.op /\ g.dest = f.dest /\ g.asked = f.asked /\ g.failed = fl
           /\ f.acc = {} => g.at = "done"
           /\ f.acc # {} => g.at = "add" /\ g.acc = f.acc
<1> DEFINE e == [f EXCEPT !.failed = fl]
           g == Deleted(e)
<1>1. /\ e \in Calls /\ e.at = "dest" /\ e.op = f.op /\ e.dest = f.dest /\ e.asked = f.asked
      /\ e.failed = fl /\ e.acc = f.acc
  BY DEF Calls
<1> HIDE DEF e
<1>2. g = IF e.acc = {} THEN [e EXCEPT !.at = "done", !.reply = IntReply] ELSE [e EXCEPT !.at = "add"]
  BY DEF Deleted, Answer
<1>3. IntReply \in Replies
  BY DEF Replies
<1> HIDE DEF g, IntReply
<1>4. CASE e.acc = {}
  <2>1. g = [e EXCEPT !.at = "done", !.reply = IntReply]
    BY <1>2, <1>4
  <2>2. /\ g \in Calls /\ g.op = e.op /\ g.dest = e.dest /\ g.asked = e.asked /\ g.failed = e.failed
        /\ g.at = "done"
    BY <1>1, <1>3, <2>1 DEF Calls
  <2> QED BY <1>1, <1>4, <2>2 DEF g, e
<1>5. CASE e.acc # {}
  <2>1. g = [e EXCEPT !.at = "add"]
    BY <1>2, <1>5
  <2>2. /\ g \in Calls /\ g.op = e.op /\ g.dest = e.dest /\ g.asked = e.asked /\ g.failed = e.failed
        /\ g.at = "add" /\ g.acc = e.acc
    BY <1>1, <2>1 DEF Calls
  <2> QED BY <1>1, <1>5, <2>2 DEF g, e
<1> QED BY <1>4, <1>5

LEMMA DelDestInv ==
    ASSUME IndInv, NEW c \in Clients, DelDest(c), Observe
    PROVE  IndInv'
<1>1. writes \in 0 .. MaxWrites /\ call \in [Clients -> Calls]
  BY WireFacts
<1>2. PICK f : f = call[c]
  OBVIOUS
<1>3. /\ f.at = "dest" /\ f \in Calls /\ f.dest \in Keys
      /\ Wire' /\ faults' \in Nat /\ faults <= faults' /\ writes' = writes
      /\ \E fl \in SUBSET Nodes :
            /\ call' = [call EXCEPT ![c] = Deleted([f EXCEPT !.failed = fl])]
            /\ fl = {} => data'[Owner(f.dest)][f.dest] = {}
  BY <1>2, DelDestFacts
<1>4. PICK fl \in SUBSET Nodes : /\ call' = [call EXCEPT ![c] = Deleted([f EXCEPT !.failed = fl])]
                                 /\ fl = {} => data'[Owner(f.dest)][f.dest] = {}
  BY <1>3
<1>5. PICK g : g = Deleted([f EXCEPT !.failed = fl])
  OBVIOUS
<1>6. /\ g \in Calls /\ g.op = f.op /\ g.dest = f.dest /\ g.asked = f.asked /\ g.failed = fl
      /\ g.at \in {"add", "done"}
  BY <1>3, <1>5, DeletedFacts
<1>7. call' = [call EXCEPT ![c] = g] /\ call'[c] = g
  BY <1>1, <1>4, <1>5
<1>8. Shape(f) /\ Bounded(lo[c], hi[c], call[c].asked)'
  BY <1>2, <1>3, <1>6, <1>7, SelfStays
<1>9. f.op \in Setops /\ Len(f.asked) >= 1 /\ f.op # "del"
  BY <1>3, <1>8 DEF Shape, Setops
<1>10. Shape(g)
  BY <1>3, <1>6, <1>9 DEF Shape
<1>11. g.dest # NoKey
  BY <1>3, <1>6, DestsAssumption
<1>12. Sound(c, lo'[c], hi'[c], g, faults')
  BY <1>6, <1>9, <1>11 DEF Sound, Gathered, Answered, Refused, Deleting, IsRead
<1>13. Cleared(c)'
  BY <1>4, <1>6, <1>7 DEF Cleared, Held
<1>14. CallOK(c)'
  BY <1>7, <1>8, <1>10, <1>12, <1>13 DEF CallOK
<1> QED BY <1>1, <1>3, <1>7, <1>14, StepInv

\* The SADD of a store.
LEMMA AddDestFacts ==
    ASSUME IndInv, NEW c \in Clients, AddDest(c)
    PROVE  /\ call[c].at = "add" /\ call[c] \in Calls /\ call[c].dest \in Keys
           /\ Wire' /\ faults' \in Nat /\ faults <= faults' /\ writes' = writes
           /\ \E r \in {IntReply, Error} :
                /\ call' = [call EXCEPT ![c] = Answer(call[c], r)]
                /\ r = IntReply => LET k == call[c].dest IN data'[Owner(k)][k] = data[Owner(k)][k] \cup call[c].acc
<1>1. Wire /\ faults \in Nat /\ call \in [Clients -> Calls]
  BY WireFacts
<1>2. PICK f : f = call[c]
  OBVIOUS
<1>3. PICK k : k = f.dest
  OBVIOUS
<1>4. f.at = "add" /\ writes' = writes
  BY <1>2 DEF AddDest
<1>5. Shape(f) /\ f \in Calls /\ k \in Keys /\ f.acc \in SUBSET Members
  BY <1>2, <1>3, <1>4 DEF IndInv, CallOK, Shape, Calls
<1>6. Peer(c, k) = Owner(k) /\ Owner(k) \in Nodes
  BY <1>5, PeerOwner
<1> DEFINE peer == Owner(k)
           cmd == [name |-> "sadd", key |-> k, members |-> f.acc]
<1>7. \/ Executed(peer, cmd) /\ call' = [call EXCEPT ![c] = Answer(f, IntReply)]
      \/ /\ Lost(c, peer) \/ Late(c, peer, cmd)
         /\ call' = [call EXCEPT ![c] = Answer(f, Error)]
  BY <1>2, <1>3, <1>6, Zenon DEF AddDest
<1>8. cmd \in Relayed /\ AtHome(peer, cmd)
  BY <1>5 DEF Relayed, AtHome
<1>9. Executed(peer, cmd) \/ Lost(c, peer) \/ Late(c, peer, cmd)
  BY <1>7, Zenon
<1>10. Wire' /\ faults' \in Nat /\ (faults' = faults \/ faults' = faults + 1)
  <2>1. peer \in Nodes
    BY <1>6
  <2> HIDE DEF cmd, peer
  <2> QED BY <1>1, <1>8, <1>9, <2>1, RelayWire
<1>11. faults <= faults'
  BY <1>1, <1>10
<1>12. \E r \in {IntReply, Error} :
         /\ call' = [call EXCEPT ![c] = Answer(f, r)]
         /\ r = IntReply => data'[peer][k] = data[peer][k] \cup f.acc
  <2>1. CASE Executed(peer, cmd) /\ call' = [call EXCEPT ![c] = Answer(f, IntReply)]
    <3>1. data' = [data EXCEPT ![peer] = Apply(@, cmd)]
      BY <2>1, Zenon DEF Executed
    <3>2. Apply(data[peer], cmd) = [data[peer] EXCEPT ![k] = @ \cup f.acc]
      BY DEF Apply, execSAdd
    <3>3. data \in [Nodes -> [Keys -> SUBSET Members]] /\ peer \in Nodes
      BY <1>1, <1>6 DEF Wire, HomeData
    <3>4. data'[peer] = Apply(data[peer], cmd)
      <4> HIDE DEF cmd, peer
      <4> QED BY <3>1, <3>3
    <3>5. data'[peer][k] = data[peer][k] \cup f.acc
      <4> HIDE DEF cmd, peer
      <4> QED BY <1>5, <3>2, <3>3, <3>4
    <3> QED BY <2>1, <3>5, Zenon
  <2>2. CASE call' = [call EXCEPT ![c] = Answer(f, Error)]
    <3>1. Error # IntReply
      BY DEF Error, IntReply
    <3> QED BY <2>2, <3>1, Zenon
  <2> QED BY <1>7, <2>1, <2>2, Zenon
<1> QED BY <1>2, <1>3, <1>4, <1>5, <1>10, <1>11, <1>12, Zenon

LEMMA AnswerFacts ==
    ASSUME NEW f \in Calls, NEW r \in Replies
    PROVE  LET g == Answer(f, r) IN
           /\ g \in Calls /\ g.op = f.op /\ g.dest = f.dest /\ g.asked = f.asked /\ g.failed = f.failed
           /\ g.at = "done" /\ g.reply = r
  BY DEF Answer, Calls

LEMMA AddDestInv ==
    ASSUME IndInv, NEW c \in Clients, AddDest(c), Observe
    PROVE  IndInv'
<1>1. writes \in 0 .. MaxWrites /\ call \in [Clients -> Calls]
  BY WireFacts
<1>2. PICK f : f = call[c]
  OBVIOUS
<1>3. /\ f.at = "add" /\ f \in Calls /\ f.dest \in Keys
      /\ Wire' /\ faults' \in Nat /\ faults <= faults' /\ writes' = writes
      /\ \E r \in {IntReply, Error} : call' = [call EXCEPT ![c] = Answer(f, r)]
  BY <1>2, AddDestFacts
<1>4. PICK r \in {IntReply, Error} : call' = [call EXCEPT ![c] = Answer(f, r)]
  BY <1>3
<1>5. r \in Replies
  BY <1>4 DEF Replies
<1>6. PICK g : g = Answer(f, r)
  OBVIOUS
<1>7. g \in Calls /\ g.op = f.op /\ g.dest = f.dest /\ g.asked = f.asked /\ g.at = "done"
  BY <1>3, <1>5, <1>6, AnswerFacts
<1>8. call' = [call EXCEPT ![c] = g] /\ call'[c] = g
  BY <1>1, <1>4, <1>6
<1>9. Shape(f) /\ Bounded(lo[c], hi[c], call[c].asked)'
  BY <1>2, <1>3, <1>7, <1>8, SelfStays
<1>10. f.op \in Setops /\ Len(f.asked) >= 1 /\ f.op # "del"
  BY <1>3, <1>9 DEF Shape, Setops
<1>11. Shape(g)
  BY <1>3, <1>7, <1>10 DEF Shape
<1>12. g.dest # NoKey
  BY <1>3, <1>7, DestsAssumption
<1>13. Sound(c, lo'[c], hi'[c], g, faults')
  BY <1>7, <1>10, <1>12 DEF Sound, Gathered, Answered, Refused, Deleting, IsRead
<1>14. CallOK(c)'
  BY <1>7, <1>8, <1>9, <1>11, <1>13 DEF CallOK, Cleared
<1> QED BY <1>1, <1>3, <1>8, <1>14, StepInv
LEMMA StutterInv ==
    ASSUME IndInv, UNCHANGED vars
    PROVE  IndInv'
<1>1. /\ data' = data /\ call' = call /\ late' = late /\ faults' = faults /\ writes' = writes
      /\ lo' = lo /\ hi' = hi /\ meddled' = meddled
  BY DEF vars, ghosts
<1>2. Wire'
  BY <1>1, UnchangedWire DEF IndInv
<1>3. ASSUME NEW c \in Clients PROVE CallOK(c)'
  <2>1. CallOK(c)
    BY DEF IndInv
  <2> QED BY <1>1, <2>1 DEF CallOK, Bounded, Cleared, Held
<1> QED BY <1>1, <1>2, <1>3 DEF IndInv

LEMMA StepPreserves ==
    IndInv /\ [Next]_vars => IndInv'
<1> SUFFICES ASSUME IndInv, [Next]_vars PROVE IndInv'
  OBVIOUS
<1>1. CASE UNCHANGED vars
  BY <1>1, StutterInv
<1>2. CASE Next
  <2>1. Observe
    BY <1>2 DEF Next
  <2>2. CASE Arrive
    BY <2>1, <2>2, ArriveInv
  <2>3. ASSUME NEW c \in Clients, Step(c) PROVE IndInv'
    <3>1. CASE defaultFunc(c)
      BY <2>1, <3>1, DefaultInv
    <3>2. CASE renameFunc(c)
      BY <2>1, <3>2, RenameInv
    <3>3. CASE Start(c)
      BY <2>1, <3>3, StartInv
    <3>4. CASE Finish(c)
      BY <2>1, <3>4, FinishInv
    <3>5. CASE delFunc(c)
      BY <2>1, <3>5, DelFuncInv
    <3>6. CASE Fetch(c)
      BY <2>1, <3>6, FetchInv
    <3>7. CASE DelDest(c)
      BY <2>1, <3>7, DelDestInv
    <3>8. CASE AddDest(c)
      BY <2>1, <3>8, AddDestInv
    <3> QED BY <2>3, <3>1, <3>2, <3>3, <3>4, <3>5, <3>6, <3>7, <3>8 DEF Step
  <2> QED BY <1>2, <2>2, <2>3 DEF Next
<1> QED BY <1>1, <1>2

LEMMA InitInv ==
    ASSUME Init
    PROVE  IndInv
<1>1. PICK held \in [Keys -> SUBSET Members] :
          data = [n \in Nodes |-> [k \in Keys |-> IF picked[n][k] = n THEN held[k] ELSE {}]]
  BY DEF Init
<1>2. HomeData(data)
  <2>1. data \in [Nodes -> [Keys -> SUBSET Members]]
    BY <1>1
  <2>2. ASSUME NEW n \in Nodes, NEW k \in Keys, data[n][k] # {} PROVE n = Owner(k)
    <3>1. picked[n][k] = n
      BY <1>1, <2>2
    <3> QED BY <3>1, PickedOwner
  <2> QED BY <2>1, <2>2 DEF HomeData
<1>3. Wire
  BY <1>2, BoundsAssumption DEF Wire, LateHome, Init
<1>4. Idle \in Calls
  <2>1. Error \in Replies /\ <<>> \in Seq(Keys) /\ 0 \in Nat /\ NoKey \in Keys \cup {NoKey}
    BY DEF Replies
  <2> QED BY <2>1 DEF Idle, Calls
<1>5. call \in [Clients -> Calls] /\ writes \in 0 .. MaxWrites
  BY <1>4, BoundsAssumption DEF Init
<1>6. ASSUME NEW c \in Clients PROVE CallOK(c)
  <2>1. call[c] = Idle
    BY DEF Init
  <2>2. Idle.at = "idle" /\ Idle.asked = <<>> /\ Idle.op = "none"
    BY DEF Idle
  <2>3. Shape(Idle)
    BY <1>4, <2>2 DEF Shape
  <2>4. Bounded(lo[c], hi[c], call[c].asked)
    BY <2>1, <2>2 DEF Bounded, Range
  <2>5. Sound(c, lo[c], hi[c], Idle, faults)
    BY <2>2 DEF Sound, Gathered, Answered, Refused, Deleting, IsRead
  <2> QED BY <2>1, <2>2, <2>3, <2>4, <2>5 DEF CallOK, Cleared
<1> QED BY <1>3, <1>5, <1>6 DEF IndInv

-----------------------------------------------------------------------------
(* The theorems                                                            *)

LEMMA Invariance == Spec => []IndInv
<1>1. Init => IndInv
  BY InitInv
<1> QED BY <1>1, StepPreserves, PTL DEF Spec

LEMMA ImpliesClusterInv ==
    ASSUME IndInv
    PROVE  ClusterInv
<1>1. /\ Wire /\ HomeData(data) /\ call \in [Clients -> Calls] /\ writes \in 0 .. MaxWrites
      /\ \A c \in Clients : CallOK(c)
  BY DEF IndInv, Wire
<1>2. OneHome
  BY <1>1 DEF HomeData, OneHome
<1>3. ASSUME NEW c \in Clients
      PROVE  /\ call[c].at = "fetch" => call[c].i \in DOMAIN call[c].asked
             /\ call[c].at \in {"dest", "add"} => call[c].dest \in Keys
             /\ call[c].at = "del" => call[c].groups # {}
  <2>1. Shape(call[c])
    BY <1>1 DEF CallOK
  <2>2. call[c].asked \in Seq(Keys)
    BY <2>1 DEF Shape, Calls
  <2>3. DOMAIN call[c].asked = 1 .. Len(call[c].asked)
    BY <2>2
  <2> QED BY <2>1, <2>3 DEF Shape
<1>4. TypeOK
  BY <1>1, <1>3 DEF TypeOK, Wire, HomeData
<1>5. DelTriesEveryNode
  <2> SUFFICES ASSUME NEW c \in Clients, call[c].at = "done", call[c].op = "del"
               PROVE  /\ \A k \in Range(call[c].asked) : lo[c][k] = {} \/ Peer(c, k) \in call[c].failed
                      /\ call[c].reply = IntReply <=> call[c].failed = {}
    BY DEF DelTriesEveryNode
  <2>1. Shape(call[c]) /\ Deleting(lo[c], call[c])
    BY <1>1 DEF CallOK, Sound
  <2>2. /\ \A k \in Range(call[c].asked) : lo[c][k] = {} \/ Owner(k) \in call[c].failed
        /\ call[c].reply = IntReply <=> call[c].failed = {}
    BY <2>1 DEF Deleting
  <2>3. \A k \in Range(call[c].asked) : k \in Keys
    BY <2>1 DEF Shape, Calls, Range
  <2>4. \A k \in Range(call[c].asked) : Peer(c, k) = Owner(k)
    BY <2>3, PeerOwner
  <2> QED BY <2>2, <2>4
<1> QED BY <1>2, <1>4, <1>5 DEF ClusterInv

LEMMA ImpliesReadsInWindow ==
    ASSUME IndInv
    PROVE  ReadsInWindow
<1> SUFFICES ASSUME NEW c \in Clients, Read(c)
             PROVE  IF call[c].reply = Error THEN faults > 0 \/ FirstAbsent(c)
                    ELSE Least(c) \subseteq call[c].reply.members /\ call[c].reply.members \subseteq Greatest(c)
  BY DEF ReadsInWindow
<1>1. PICK f, l, h : f = call[c] /\ l = lo[c] /\ h = hi[c]
  OBVIOUS
<1>2. Shape(f) /\ Answered(c, l, h, f) /\ Refused(c, l, f, faults) /\ IsRead(f)
  BY <1>1 DEF IndInv, CallOK, Sound, Read, IsRead
<1>3. CASE f.reply = Error
  BY <1>1, <1>2, <1>3 DEF Refused, FirstAbsent, LeftOut
<1>4. CASE f.reply # Error
  <2> DEFINE a == f.asked
             L == Len(a)
             s == f.reply.members
  <2>1. InWindow(c, l, h, f, s)
    BY <1>2, <1>4 DEF Answered
  <2>2. f.op \in Setops /\ a \in Seq(Keys) /\ L \in Nat /\ L >= 1 /\ f.reply \in Replies
    BY <1>2 DEF Shape, Calls, IsRead
  <2>3. Range(a) = {a[j] : j \in 1 .. L}
    BY <2>2 DEF Range
  <2>4. s \subseteq Members
    BY <2>2 DEF Replies, MultiBulk, EmptyMultiBulk, IntReply, Error
  <2> HIDE DEF a, s
  <2>5. CASE f.op = "sunion"
    <3>1. UnionIn(l, h, a, s, L)
      BY <2>1, <2>5 DEF InWindow, a
    <3>2. Least(c) = UNION {l[k] : k \in Range(a)} /\ Greatest(c) = UNION {h[k] : k \in Range(a)}
      BY <1>1, <2>5 DEF Least, Greatest, a
    <3>3. UNION {l[k] : k \in Range(a)} \subseteq s
      BY <2>3, <3>1 DEF UnionIn
    <3>4. s \subseteq UNION {h[k] : k \in Range(a)}
      BY <2>3, <3>1 DEF UnionIn
    <3> QED BY <1>1, <1>4, <3>2, <3>3, <3>4 DEF s
  <2>6. CASE f.op = "sinter"
    <3>1. InterIn(c, l, h, a, s, L)
      BY <2>1, <2>6 DEF InWindow, a
    <3> DEFINE counted == {k \in Range(a) : ~ LeftOut(c, l, k)}
    <3>2. /\ Least(c) = {m \in Members : \A k \in Range(a) : m \in l[k]}
          /\ Greatest(c) = {m \in Members : \A k \in counted : m \in h[k]}
      BY <1>1, <2>6 DEF Least, Greatest, Counted, LeftOut, a
    <3>3. {m \in Members : \A k \in Range(a) : m \in l[k]} \subseteq s
      BY <2>3, <3>1 DEF InterIn
    <3>4. ASSUME NEW m \in s, NEW k \in counted PROVE m \in h[k]
      BY <2>3, <3>1 DEF InterIn
    <3>5. s \subseteq {m \in Members : \A k \in counted : m \in h[k]}
      BY <2>4, <3>4
    <3> QED BY <1>1, <1>4, <3>2, <3>3, <3>5 DEF s
  <2>7. CASE f.op = "sdiff"
    <3>1. DiffIn(l, h, a, s, L)
      BY <2>1, <2>7 DEF InWindow, a
    <3> DEFINE rest == {a[j] : j \in 2 .. L}
    <3>2. /\ Least(c) = l[a[1]] \ UNION {h[k] : k \in rest}
          /\ Greatest(c) = h[a[1]] \ UNION {l[k] : k \in rest}
      BY <1>1, <2>7 DEF Least, Greatest, Rest, a
    <3>3. l[a[1]] \ UNION {h[k] : k \in rest} \subseteq s
      BY <3>1 DEF DiffIn
    <3>4. s \subseteq h[a[1]] \ UNION {l[k] : k \in rest}
      BY <3>1 DEF DiffIn
    <3> QED BY <1>1, <1>4, <3>2, <3>3, <3>4 DEF s
  <2> QED BY <2>2, <2>5, <2>6, <2>7 DEF Setops
<1> QED BY <1>3, <1>4

\* Every key stays on its one owner, whichever node the commands came from
\* and whichever relays were lost or late, and a DEL over several nodes has
\* been to all of them when it answers (the rings of lib/consistent_hash and
\* relayExec, delFunc, renameFunc of cluster/router.go).
THEOREM ClusterSafe == Spec => []ClusterInv
<1>1. IndInv => ClusterInv
  BY ImpliesClusterInv
<1> QED BY <1>1, Invariance, PTL

\* What SUNION, SINTER and SDIFF answer, gathered from several nodes while
\* other clients write, is within what the keys held during the call
\* (setUnionFunc, setIntersectFunc and setDiffFunc of cluster/router.go).
THEOREM ReadsWithinWindow == Spec => []ReadsInWindow
<1>1. IndInv => ReadsInWindow
  BY ImpliesReadsInWindow
<1> QED BY <1>1, Invariance, PTL
\* Only its own DEL and SADD end a store.
LEMMA StoreEnds ==
    ASSUME IndInv, Next, NEW c \in Clients, call[c].at \in {"dest", "add"}, call'[c].at = "done"
    PROVE  DelDest(c) \/ AddDest(c)
<1>1. call \in [Clients -> Calls] /\ call' # call
  BY WireFacts
<1>2. PICK d \in Clients : Step(d)
  BY <1>1 DEF Next, Arrive
<1>3. ASSUME NEW g, call' = [call EXCEPT ![d] = g] PROVE d = c
  BY <1>1, <1>3
<1>4. CASE defaultFunc(d) \/ renameFunc(d)
  BY <1>1, <1>4 DEF defaultFunc, renameFunc
<1>5. CASE Start(d)
  <2>1. d = c
    BY <1>3, <1>5 DEF Start
  <2> QED BY <1>5, <2>1 DEF Start
<1>6. CASE Finish(d)
  <2>1. d = c
    BY <1>3, <1>6 DEF Finish
  <2> QED BY <1>6, <2>1 DEF Finish
<1>7. CASE delFunc(d)
  <2>1. PICK peer, r : DelNode(d, peer, r)
    BY <1>7 DEF delFunc
  <2>2. d = c
    BY <1>3, <2>1 DEF DelNode
  <2> QED BY <1>7, <2>2 DEF delFunc
<1>8. CASE Fetch(d)
  <2>1. d = c
    BY <1>3, <1>8 DEF Fetch
  <2> QED BY <1>8, <2>1 DEF Fetch
<1>9. CASE DelDest(d)
  <2>1. d = c
    BY <1>3, <1>9, DelDestFacts
  <2> QED BY <1>9, <2>1
<1>10. CASE AddDest(d)
  <2>1. d = c
    BY <1>3, <1>10, AddDestFacts
  <2> QED BY <1>10, <2>1
<1> QED BY <1>2, <1>4, <1>5, <1>6, <1>7, <1>8, <1>9, <1>10 DEF Step

LEMMA StoreStep ==
    ASSUME IndInv, Next, NEW c \in Clients,
           call[c].at \in {"dest", "add"}, call'[c].at = "done", call'[c].reply = IntReply,
           ~ meddled[c], call'[c].failed = {}
    PROVE  Value(data', call[c].dest) = call[c].acc
<1>1. call \in [Clients -> Calls] /\ Wire /\ Shape(call[c]) /\ Cleared(c)
  BY WireFacts DEF IndInv, CallOK
<1>2. PICK f, k : f = call[c] /\ k = f.dest
  OBVIOUS
<1>3. f \in Calls /\ k \in Keys
  BY <1>1, <1>2 DEF Shape
<1>4. Owner(k) \in Nodes
  BY <1>3, PeerOwner
<1>5. Wire' => Value(data', k) = data'[Owner(k)][k]
  BY <1>3, <1>4, ValueIs DEF Wire
<1>6. CASE DelDest(c)
  <2>1. /\ f.at = "dest" /\ Wire'
        /\ \E fl \in SUBSET Nodes :
              /\ call' = [call EXCEPT ![c] = Deleted([f EXCEPT !.failed = fl])]
              /\ fl = {} => data'[Owner(k)][k] = {}
    BY <1>2, <1>6, DelDestFacts
  <2>2. PICK fl \in SUBSET Nodes : /\ call' = [call EXCEPT ![c] = Deleted([f EXCEPT !.failed = fl])]
                                   /\ fl = {} => data'[Owner(k)][k] = {}
    BY <2>1
  <2>3. PICK g : g = Deleted([f EXCEPT !.failed = fl])
    OBVIOUS
  <2>4. g.failed = fl /\ (f.acc # {} => g.at = "add")
    BY <1>3, <2>1, <2>3, DeletedFacts
  <2>5. call'[c] = g
    BY <1>1, <2>2, <2>3
  <2>6. f.acc = {} /\ data'[Owner(k)][k] = {}
    BY <2>2, <2>4, <2>5
  <2> QED BY <1>2, <1>5, <2>1, <2>6
<1>7. CASE AddDest(c)
  <2>1. /\ f.at = "add" /\ Wire'
        /\ \E r \in {IntReply, Error} :
              /\ call' = [call EXCEPT ![c] = Answer(f, r)]
              /\ r = IntReply => data'[Owner(k)][k] = data[Owner(k)][k] \cup f.acc
    BY <1>2, <1>7, AddDestFacts
  <2>2. PICK r \in {IntReply, Error} :
            /\ call' = [call EXCEPT ![c] = Answer(f, r)]
            /\ r = IntReply => data'[Owner(k)][k] = data[Owner(k)][k] \cup f.acc
    BY <2>1
  <2>3. r \in Replies
    BY <2>2 DEF Replies
  <2>4. PICK g : g = Answer(f, r)
    OBVIOUS
  <2>5. g.failed = f.failed /\ g.reply = r
    BY <1>3, <2>3, <2>4, AnswerFacts
  <2>6. call'[c] = g
    BY <1>1, <2>2, <2>4
  <2>7. r = IntReply /\ f.failed = {}
    BY <2>5, <2>6
  <2>8. data[Owner(k)][k] = {}
    BY <1>1, <1>2, <2>1, <2>7 DEF Cleared, Held
  <2> QED BY <1>2, <1>5, <2>1, <2>2, <2>7, <2>8
<1> QED BY <1>6, <1>7, StoreEnds

\* A SUNIONSTORE, SINTERSTORE or SDIFFSTORE that reports success has put its
\* result in the place of what the destination held, unless its own DEL
\* failed or another command wrote in between (the ...StoreFunc of
\* cluster/router.go, which take no notice of the DEL's reply).
THEOREM StoresReplace == Spec => StoreReplaces
<1> DEFINE Replaces ==
        \A c \in Clients :
            call[c].at \in {"dest", "add"} /\ call'[c].at = "done" /\ call'[c].reply = IntReply
            /\ ~meddled[c] /\ call'[c].failed = {}
            => Value(data', call[c].dest) = call[c].acc
<1>1. IndInv /\ [Next]_vars => [Replaces]_vars
  BY StoreStep
<1>2. Spec => [][Replaces]_vars
  BY <1>1, Invariance, PTL DEF Spec
<1> QED BY <1>2 DEF StoreReplaces
=============================================================================
