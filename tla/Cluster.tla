------------------------------ MODULE Cluster -------------------------------
(***************************************************************************)
(* cluster/router.go, the commands of a cluster: a client sends its        *)
(* command to some node, the coordinator, which relays it, or the          *)
(* single-key commands it is made of, to the nodes that hold the keys.     *)
(*                                                                         *)
(* A command on one key, or on keys of one node, is one step: the node     *)
(* that holds the keys executes it under its locks (DB.tla).  A command on *)
(* keys of several nodes is one step for each relay, and the steps of      *)
(* other clients come in between.  All keys hold sets; an absent key is    *)
(* the empty set, for SREM removes the key of a set it has emptied.        *)
(*                                                                         *)
(* A relay to another node may fail: lost before it is executed, or late:  *)
(* it is answered with a timeout and executed afterwards, in any order     *)
(* with the relays over the other connections of the pool.                 *)
(***************************************************************************)
EXTENDS Integers, Sequences, HashRing

CONSTANTS
    Nodes, Keys, Members,
    Peers,          \* the peers that each node's configuration lists
    Clients,        \* the clients
    MultiClients,   \* those of them that send commands on several keys
    Coordinator,    \* the node each client is connected to
    NoKey,          \* the destination of a command that stores nothing
    Dests,          \* the destinations they name, NoKey for none
    Ops,            \* the multi-key commands the clients send
    MaxSources,     \* bound on the source keys of a command
    MaxWrites,      \* bound on the single-key writes
    MaxFaults       \* bound on the relays that fail

ASSUME PeersAssumption ==
    /\ "" \notin Nodes
    /\ \A n \in Nodes : /\ Peers[n] \in Seq(Nodes \cup {""})
                        /\ Nodes \subseteq Range(Peers[n]) \cup {n}
ASSUME HashAssumption == /\ hashFunc \in [Nodes \cup Keys -> Nat]
                         /\ \A n, m \in Nodes : hashFunc[n] = hashFunc[m] => n = m
ASSUME CoordinatorAssumption == Coordinator \in [Clients -> Nodes]
ASSUME MultiAssumption == MultiClients \subseteq Clients
ASSUME OpsAssumption == Ops \subseteq {"sunion", "sinter", "sdiff", "del"}
ASSUME DestsAssumption == NoKey \notin Keys /\ Dests \subseteq Keys \cup {NoKey}
ASSUME BoundsAssumption == MaxSources \in Nat /\ MaxWrites \in Nat /\ MaxFaults \in Nat

VARIABLES
    data,      \* the set that each key holds, on each node
    call,      \* the multi-key command that each client's coordinator runs
    late,      \* relayed commands that timed out and are still to be executed
    faults,    \* how many relays have failed
    writes,    \* how many single-key writes have been made
    lo, hi,    \* the members each key has held throughout, and at some time of, the call
    meddled    \* another command has changed the destination since it was deleted

ghosts == <<lo, hi, meddled>>
vars == <<data, call, late, faults, writes, ghosts>>

Sources == UNION {[1 .. n -> Keys] : n \in 1 .. MaxSources}

\* What a handler goes by in a reply is its Go type: an empty array read from
\* the wire is an *EmptyMultiBulkReply, not a *MultiBulkReply.
MultiBulk(s) == [type |-> "MultiBulk", members |-> s]
EmptyMultiBulk == [type |-> "EmptyMultiBulk", members |-> {}]
IntReply == [type |-> "IntReply", members |-> {}]
Error == [type |-> "Error", members |-> {}]
Replies == {MultiBulk(s) : s \in SUBSET Members} \cup {EmptyMultiBulk, IntReply, Error}

\* i is the index in asked of the next key to fetch.  acc is the result so
\* far; some says that SINTER has a set in allSets.  groups are the nodes that
\* a DEL has not been relayed to, failed those whose relay of a DEL failed.
Calls == [at: {"idle", "fetch", "del", "dest", "add", "done"}, op: Ops \cup {"none"},
          dest: Keys \cup {NoKey}, asked: Seq(Keys), i: Nat,
          acc: SUBSET Members, some: BOOLEAN, reply: Replies,
          groups: SUBSET Nodes, failed: SUBSET Nodes]

Idle == [at |-> "idle", op |-> "none", dest |-> NoKey, asked |-> <<>>, i |-> 0,
         acc |-> {}, some |-> FALSE, reply |-> Error, groups |-> {}, failed |-> {}]

-----------------------------------------------------------------------------
(* MakeClusterDatabase and relayExec                                       *)

peerPicker == [n \in Nodes |-> AddNodes(NewNodeMap, Append(Peers[n], n))]
picked == [n \in Nodes |-> [k \in Keys |-> PickNode(peerPicker[n], k)]]

\* The node that the coordinator of c takes for the one that holds k.
Peer(c, k) == picked[Coordinator[c]][k]

Remote(c, k) == Peer(c, k) # Coordinator[c]

\* The commands that a node executes, as functions of its data.
execSAdd(d, k, s) == [d EXCEPT ![k] = @ \cup s]
execSRem(d, k, s) == [d EXCEPT ![k] = @ \ s]
execDel(d, ks) == [k \in Keys |-> IF k \in ks THEN {} ELSE d[k]]

\* execRename puts the value under the new key, then removes the old one.
execRename(d, src, dest) ==
    IF d[src] = {} THEN d ELSE [[d EXCEPT ![dest] = d[src]] EXCEPT ![src] = {}]

Relayed == [name: {"sadd", "srem"}, key: Keys, members: SUBSET Members]
           \cup [name: {"del"}, keys: SUBSET Keys]
           \cup [name: {"rename"}, src: Keys, dest: Keys]

Apply(d, cmd) == CASE cmd.name = "sadd" -> execSAdd(d, cmd.key, cmd.members)
                   [] cmd.name = "srem" -> execSRem(d, cmd.key, cmd.members)
                   [] cmd.name = "del" -> execDel(d, cmd.keys)
                   [] cmd.name = "rename" -> execRename(d, cmd.src, cmd.dest)

\* execSMembers, and what the parser of the coordinator makes of it.
SMembers(c, k) ==
    LET s == data[Peer(c, k)][k] IN
    IF Remote(c, k) /\ s = {} THEN EmptyMultiBulk ELSE MultiBulk(s)

\* The relay to a node that is executed or, if it is another node, lost or late.
Executed(peer, cmd) ==
    /\ data' = [data EXCEPT ![peer] = Apply(@, cmd)]
    /\ UNCHANGED <<late, faults>>

Fault(c, peer) ==
    /\ peer # Coordinator[c]
    /\ faults < MaxFaults
    /\ faults' = faults + 1

Lost(c, peer) == Fault(c, peer) /\ UNCHANGED <<data, late>>

Late(c, peer, cmd) ==
    /\ Fault(c, peer)
    /\ late' = late \cup {[n |-> faults, peer |-> peer, cmd |-> cmd]}
    /\ UNCHANGED data

\* A command whose relay timed out reaches the node after all.
Arrive ==
    \E l \in late :
        /\ data' = [data EXCEPT ![l.peer] = Apply(@, l.cmd)]
        /\ late' = late \ {l}
        /\ UNCHANGED <<call, faults, writes>>

-----------------------------------------------------------------------------
(* Commands on the keys of one node: defaultFunc and renameFunc            *)

defaultFunc(c) ==
    \E k \in Keys, name \in {"sadd", "srem"}, s \in SUBSET Members \ {{}} :
        LET cmd == [name |-> name, key |-> k, members |-> s]
            peer == Peer(c, k) IN
        /\ call[c].at = "idle"
        /\ writes < MaxWrites
        /\ writes' = writes + 1
        /\ Executed(peer, cmd) \/ Lost(c, peer) \/ Late(c, peer, cmd)
        /\ UNCHANGED call

\* Refused when the keys are on different nodes.
renameFunc(c) ==
    \E src, dest \in Keys :
        LET cmd == [name |-> "rename", src |-> src, dest |-> dest]
            peer == Peer(c, src) IN
        /\ call[c].at = "idle"
        /\ peer = Peer(c, dest)
        /\ writes < MaxWrites
        /\ writes' = writes + 1
        /\ Executed(peer, cmd) \/ Lost(c, peer) \/ Late(c, peer, cmd)
        /\ UNCHANGED call

-----------------------------------------------------------------------------
(* The start and the end of a command on keys of several nodes             *)

Start(c) ==
    /\ c \in MultiClients /\ call[c].at = "idle"
    /\ \E op \in Ops, keys \in Sources, dest \in Dests :
        call' = [call EXCEPT ![c] =
            IF op = "del"
            THEN [Idle EXCEPT !.at = "del", !.op = op, !.asked = keys,
                              !.groups = {Peer(c, k) : k \in Range(keys)}]
            ELSE [Idle EXCEPT !.at = "fetch", !.op = op, !.dest = dest, !.asked = keys, !.i = 1]]
    /\ UNCHANGED <<data, late, faults, writes>>

\* The client has its reply.
Finish(c) ==
    /\ call[c].at = "done"
    /\ call' = [call EXCEPT ![c] = Idle]
    /\ UNCHANGED <<data, late, faults, writes>>

Answer(f, r) == [f EXCEPT !.at = "done", !.reply = r]

-----------------------------------------------------------------------------
(* delFunc: the keys grouped by node, the groups in any order              *)

DelNode(c, peer, r) ==
    LET f == call[c]
        g == [f EXCEPT !.groups = @ \ {peer}, !.failed = @ \cup IF r = Error THEN {peer} ELSE {}] IN
    call' = [call EXCEPT ![c] = IF g.groups # {} THEN g
                                ELSE Answer(g, IF g.failed # {} THEN Error ELSE IntReply)]

delFunc(c) ==
    /\ call[c].at = "del"
    /\ \E peer \in call[c].groups :
        LET cmd == [name |-> "del", keys |-> {k \in Range(call[c].asked) : Peer(c, k) = peer}] IN
        \/ Executed(peer, cmd) /\ DelNode(c, peer, IntReply)
        \/ Lost(c, peer) /\ DelNode(c, peer, Error)
        \/ Late(c, peer, cmd) /\ DelNode(c, peer, Error)
    /\ UNCHANGED writes

-----------------------------------------------------------------------------
(* setUnionFunc, setIntersectFunc and setDiffFunc, one SMEMBERS at a time  *)

First(f) == f.i = 1

\* The reply computed: the client's, or the source of the store.  A store
\* takes nothing but a *MultiBulkReply for a result.
Computed(f, r) ==
    IF f.dest # NoKey /\ r.type = "MultiBulk"
    THEN [f EXCEPT !.at = "dest", !.acc = r.members]
    ELSE Answer(f, r)

\* Go on with the next key, or end.
Continue(f, acc) ==
    IF f.i = Len(f.asked) THEN Computed([f EXCEPT !.acc = acc], MultiBulk(acc))
    ELSE [f EXCEPT !.acc = acc, !.i = @ + 1]

\* A union that replaces what it has got so far.
UnionStepLast(f, r) ==
    IF r.type = "Error" THEN Computed(f, r) ELSE Continue(f, r.members)

\* A remote set that is empty is no *MultiBulkReply: it adds nothing.
UnionStep(f, r) ==
    IF r.type = "Error" THEN Computed(f, r) ELSE Continue(f, f.acc \cup r.members)

\* With one key the reply is passed on.  An empty *MultiBulkReply ends it.
\* A remote set that is empty is left out of allSets.
IntersectStep(f, r) ==
    IF r.type = "Error" \/ Len(f.asked) = 1 \/ r = MultiBulk({}) THEN Computed(f, r)
    ELSE LET acc == IF r.type # "MultiBulk" THEN f.acc
                    ELSE IF f.some THEN f.acc \cap r.members ELSE r.members IN
         Continue([f EXCEPT !.some = @ \/ r.type = "MultiBulk"], acc)

\* The first reply is taken for a *MultiBulkReply when it is an array: the
\* type assertion panics on an *EmptyMultiBulkReply, and Exec recovers with
\* an error.  An empty difference ends the loop.
DiffStep(f, r) ==
    IF r.type = "Error" \/ (First(f) /\ Len(f.asked) = 1 /\ r.type = "MultiBulk") THEN Computed(f, r)
    ELSE IF First(f)
         THEN IF r.type = "MultiBulk" THEN Continue(f, r.members) ELSE Computed(f, Error)
         ELSE LET acc == f.acc \ r.members IN
              IF acc = {} THEN Computed(f, MultiBulk({})) ELSE Continue(f, acc)

\* SMEMBERS of the next key, executed or lost.
Fetch(c) ==
    LET f == call[c]
        k == f.asked[f.i] IN
    /\ f.at = "fetch"
    /\ \E r \in {SMembers(c, k), Error} :
        /\ IF r = Error THEN Lost(c, Peer(c, k)) ELSE UNCHANGED <<data, late, faults>>
        /\ call' = [call EXCEPT ![c] = CASE f.op = "sunion" -> UnionStep(f, r)
                                         [] f.op = "sinter" -> IntersectStep(f, r)
                                         [] f.op = "sdiff" -> DiffStep(f, r)]
    /\ UNCHANGED writes

-----------------------------------------------------------------------------
(* setUnionStoreFunc, setIntersectStoreFunc and setDiffStoreFunc           *)

\* After the DEL, whatever its reply: an empty result is 0.
Deleted(f) == IF f.acc = {} THEN Answer(f, IntReply) ELSE [f EXCEPT !.at = "add"]

DelDestSkipped(c) ==
    /\ call[c].at = "dest"
    /\ call' = [call EXCEPT ![c] = Deleted(@)]
    /\ UNCHANGED <<data, late, faults, writes>>

\* DEL of the destination.
DelDest(c) ==
    LET f == call[c]
        peer == Peer(c, f.dest)
        cmd == [name |-> "del", keys |-> {f.dest}]
        failed == [f EXCEPT !.failed = {peer}] IN
    /\ f.at = "dest"
    /\ \/ Executed(peer, cmd) /\ call' = [call EXCEPT ![c] = Deleted(f)]
       \/ /\ Lost(c, peer) \/ Late(c, peer, cmd)
          /\ call' = [call EXCEPT ![c] = Deleted(failed)]
    /\ UNCHANGED writes

\* SADD of the result; its reply is the client's.
AddDest(c) ==
    LET f == call[c]
        peer == Peer(c, f.dest)
        cmd == [name |-> "sadd", key |-> f.dest, members |-> f.acc] IN
    /\ f.at = "add"
    /\ \/ Executed(peer, cmd) /\ call' = [call EXCEPT ![c] = Answer(f, IntReply)]
       \/ /\ Lost(c, peer) \/ Late(c, peer, cmd)
          /\ call' = [call EXCEPT ![c] = Answer(f, Error)]
    /\ UNCHANGED writes

-----------------------------------------------------------------------------
\* What a key holds on all nodes together.
Value(d, k) == UNION {d[n][k] : n \in Nodes}

\* What the keys of each call hold while it runs; what others do to its
\* destination between its DEL and its SADD.
Observe ==
    /\ lo' = [c \in Clients |-> [k \in Keys |->
                 IF k \notin Range(call'[c].asked) THEN {}
                 ELSE IF call[c].at = "idle" THEN Value(data', k) ELSE lo[c][k] \cap Value(data', k)]]
    /\ hi' = [c \in Clients |-> [k \in Keys |->
                 IF k \notin Range(call'[c].asked) THEN {}
                 ELSE IF call[c].at = "idle" THEN Value(data', k) ELSE hi[c][k] \cup Value(data', k)]]
    /\ meddled' = [c \in Clients |->
                      /\ call[c].at = "add" /\ call'[c].at = "add"
                      /\ meddled[c] \/ Value(data', call[c].dest) # Value(data, call[c].dest)]

Init ==
    /\ \E held \in [Keys -> SUBSET Members] :
           data = [n \in Nodes |-> [k \in Keys |-> IF picked[n][k] = n THEN held[k] ELSE {}]]
    /\ call = [c \in Clients |-> Idle]
    /\ late = {}
    /\ faults = 0
    /\ writes = 0
    /\ lo = [c \in Clients |-> [k \in Keys |-> {}]]
    /\ hi = lo
    /\ meddled = [c \in Clients |-> FALSE]

Step(c) ==
    \/ defaultFunc(c) \/ renameFunc(c)
    \/ Start(c) \/ Finish(c)
    \/ delFunc(c) \/ Fetch(c) \/ DelDest(c) \/ AddDest(c)

Next == (Arrive \/ \E c \in Clients : Step(c)) /\ Observe

Spec == Init /\ [][Next]_vars

-----------------------------------------------------------------------------
(* Properties                                                              *)

\* The type of the state.
TypeOK ==
    /\ data \in [Nodes -> [Keys -> SUBSET Members]]
    /\ call \in [Clients -> Calls]
    /\ \A c \in Clients : /\ call[c].at = "fetch" => call[c].i \in DOMAIN call[c].asked
                          /\ call[c].at \in {"dest", "add"} => call[c].dest \in Keys
                          /\ call[c].at = "del" => call[c].groups # {}
    /\ late \subseteq [n: 0 .. faults - 1, peer: Nodes, cmd: Relayed]
    /\ faults \in 0 .. MaxFaults
    /\ writes \in 0 .. MaxWrites

\* The node that is nearest to k on the ring, going up from its hash.
Owner(k) ==
    LET ahead == {n \in Nodes : hashFunc[n] >= hashFunc[k]} IN
    CHOOSE n \in (IF ahead = {} THEN Nodes ELSE ahead) :
        \A m \in (IF ahead = {} THEN Nodes ELSE ahead) : hashFunc[n] <= hashFunc[m]

\* A key is held by one node only, the nearest on the ring, whichever node
\* the commands came from, in whatever order each node's configuration lists
\* its peers, and whichever of the relays were late.
OneHome == \A n \in Nodes, k \in Keys : data[n][k] # {} => n = Owner(k)

Rest(f) == {f.asked[j] : j \in 2 .. Len(f.asked)}

\* The least and the greatest result of a read that sees each key at some
\* time of the call.
Least(c) ==
    LET f == call[c] IN
    CASE f.op = "sunion" -> UNION {lo[c][k] : k \in Range(f.asked)}
      [] f.op = "sinter" -> {m \in Members : \A k \in Range(f.asked) : m \in lo[c][k]}
      [] f.op = "sdiff" -> lo[c][f.asked[1]] \ UNION {hi[c][k] : k \in Rest(f)}

Counted(c) == {k \in Range(call[c].asked) : ~(Remote(c, k) /\ lo[c][k] = {})}

Greatest(c) ==
    LET f == call[c] IN
    CASE f.op = "sunion" -> UNION {hi[c][k] : k \in Range(f.asked)}
      [] f.op = "sinter" -> {m \in Members : \A k \in Counted(c) : m \in hi[c][k]}
      [] f.op = "sdiff" -> hi[c][f.asked[1]] \ UNION {lo[c][k] : k \in Rest(f)}

Read(c) == call[c].at = "done" /\ call[c].op # "del" /\ call[c].dest = NoKey

\* The first key of a SDIFF may have been absent on another node.
FirstAbsent(c) == LET k == call[c].asked[1] IN call[c].op = "sdiff" /\ Remote(c, k) /\ lo[c][k] = {}

\* The members a SUNION, SINTER or SDIFF answers, gathered from several
\* nodes while others write, are at least those that are in the result at
\* every moment of the call, and no more than those that are in it for some
\* value that each key had during the call; except that a SINTER leaves out a
\* set that is empty on another node.  The answer is an error only if a relay
\* failed, or for a SDIFF whose first key is absent on another node.
ReadsInWindow ==
    \A c \in Clients : Read(c) =>
        IF call[c].reply = Error THEN faults > 0 \/ FirstAbsent(c)
        ELSE Least(c) \subseteq call[c].reply.members /\ call[c].reply.members \subseteq Greatest(c)

\* A SUNIONSTORE, SINTERSTORE or SDIFFSTORE that reports success has put the
\* result in the place of what the destination held, unless its DEL failed
\* or another command wrote the destination before its SADD.
StoreReplaces ==
    [][\A c \in Clients :
          call[c].at \in {"dest", "add"} /\ call'[c].at = "done" /\ call'[c].reply = IntReply
          /\ ~meddled[c] /\ call'[c].failed = {}
          => Value(data', call[c].dest) = call[c].acc]_vars

\* A DEL over several nodes tries every node, whichever fail before it: when
\* it answers, each key has been absent during the call or is on a node whose
\* relay failed, and the answer is a count only if none failed.
DelTriesEveryNode ==
    \A c \in Clients : call[c].at = "done" /\ call[c].op = "del" =>
        /\ \A k \in Range(call[c].asked) : lo[c][k] = {} \/ Peer(c, k) \in call[c].failed
        /\ call[c].reply = IntReply <=> call[c].failed = {}

\* Whatever the router does, each key stays on its own node, and a DEL over
\* several nodes has been to all of them when it answers.
ClusterInv == TypeOK /\ OneHome /\ DelTriesEveryNode
=============================================================================
