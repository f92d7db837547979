------------------------------ MODULE HashRing ------------------------------
(***************************************************************************)
(* lib/consistent_hash/consistent_hash.go: the nodes of the cluster at     *)
(* their hash values, and the node that a key belongs to.                  *)
(***************************************************************************)
EXTENDS Integers, Sequences, SequencesExt

CONSTANT hashFunc   \* the hash of each node's and each key's name

NewNodeMap == [nodeHashs |-> <<>>, nodehashMap |-> <<>>]

IsEmpty(m) == m.nodeHashs = <<>>

\* Of two nodes with one hash the last is found.
AddNode(m, node) ==
    LET h == hashFunc[node] IN
    [nodeHashs |-> Append(m.nodeHashs, h),
     nodehashMap |-> [g \in DOMAIN m.nodehashMap \cup {h} |-> IF g = h THEN node ELSE m.nodehashMap[g]]]

\* The nodes one by one.  An empty name is skipped.
Added(m, nodes) ==
    LET added[i \in 0 .. Len(nodes)] ==
            IF i = 0 THEN m
            ELSE IF nodes[i] = "" THEN added[i - 1] ELSE AddNode(added[i - 1], nodes[i]) IN
    added[Len(nodes)]

\* sort.Ints
Sorted(s) ==
    LET order == CHOOSE p \in Bijection(DOMAIN s, DOMAIN s) :
                     \A i, j \in DOMAIN s : i < j => s[p[i]] <= s[p[j]] IN
    [i \in DOMAIN s |-> s[order[i]]]

AddNodesUnsorted(m, nodes) == Added(m, nodes)

AddNodes(m, nodes) == [Added(m, nodes) EXCEPT !.nodeHashs = Sorted(@)]

\* The first hash that is not before the key's, or the first of all.
PickNode(m, key) ==
    IF IsEmpty(m) THEN ""
    ELSE LET index == SelectInSeq(m.nodeHashs, LAMBDA h : h >= hashFunc[key]) IN
         m.nodehashMap[m.nodeHashs[IF index = 0 THEN 1 ELSE index]]
=============================================================================
