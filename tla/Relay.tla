------------------------------- MODULE Relay --------------------------------
(***************************************************************************)
(* cluster/com.go and cluster/cluster_pool.go, how a node of the cluster   *)
(* executes a command on another.  relayExec borrows a connection from the *)
(* pool it keeps for that node, sends SELECT and then the command over it, *)
(* and returns it.  The node at the other end serves the requests of a     *)
(* connection one after the other, in a session that remembers the         *)
(* database selected, and hands each command to its own router.            *)
(*                                                                         *)
(* A frame is one execution of ClusterDatabase.Exec, for a client or for a *)
(* relayed command.  Send waits for the reply three seconds at most; a     *)
(* connection that breaks loses the requests in it, and the one dialled in *)
(* its place begins in database 0 (Client.tla has the connection itself).  *)
(***************************************************************************)
EXTENDS Integers, Sequences, FiniteSets

CONSTANTS
    Nodes,        \* cluster.nodes, in an order: a sequence of distinct nodes
    Entry,        \* the nodes that clients are connected to
    DBs,          \* the databases of a node; database 0 is one of them
    Inputs,       \* what the clients send: "key", a command on one key, or "flush",
                  \* with the database selected
    MaxTotal,     \* connections of a pool (8)
    MaxFrames,    \* bound on the executions
    MaxRequests,  \* bound on the requests of clients
    MaxBreaks     \* bound on the connections that break

NodeSet == {Nodes[i] : i \in 1 .. Len(Nodes)}
Frames == 1 .. MaxFrames
NoFrame == 0

\* A connection: who uses it, whom it reaches, and its number in the pool.
Slots == {s \in NodeSet \X NodeSet \X (1 .. MaxTotal) : s[1] # s[2]}
Pool(a, b) == {s \in Slots : s[1] = a /\ s[2] = b}

ASSUME NodesAssumption ==
    Nodes \in Seq(NodeSet) /\ Nodes # <<>> /\ Len(Nodes) = Cardinality(NodeSet)
ASSUME EntryAssumption == Entry \subseteq NodeSet
ASSUME DBsAssumption == 0 \in DBs /\ DBs \subseteq Nat
ASSUME InputsAssumption == Inputs \subseteq {"key", "flush"} \X DBs
ASSUME BoundsAssumption ==
    MaxTotal \in Nat \ {0} /\ MaxFrames \in Nat /\ MaxRequests \in Nat /\ MaxBreaks \in Nat

VARIABLES
    frame,     \* the executions, numbered as they begin
    made,      \* how many there have been
    requests,  \* how many of them for clients
    user,      \* the frame that has borrowed each connection, or NoFrame
    inbox,     \* requests in each connection that the peer has not served
    session,   \* the database selected on each connection, at the peer
    serving,   \* the frame of the command that the peer executes for it
    breaks     \* how many connections have broken

conns == <<user, inbox, session, serving>>
vars == <<frame, made, requests, conns, breaks>>

\* Where relayExec is: about to relay to the head of todo, having borrowed,
\* having sent SELECT, waiting for the reply.  root and want are the client's
\* request and its database.
Unborn == [at |-> "unborn", node |-> Nodes[1], cmd |-> "key", db |-> 0, todo |-> <<>>,
           slot |-> <<>>, root |-> NoFrame, want |-> 0]

-----------------------------------------------------------------------------
(* The router: a command on a key goes to the node of the key, FLUSHDB to  *)
(* every node.                                                             *)

Targets(cmd, picked) == IF cmd = "flush" THEN Nodes ELSE <<picked>>

Begin(f, n, cmd, db, todo, root, want) ==
    /\ made < MaxFrames
    /\ made' = made + 1
    /\ frame' = [frame EXCEPT ![f] = [at |-> "next", node |-> n, cmd |-> cmd, db |-> db, todo |-> todo,
                                      slot |-> <<>>, root |-> root, want |-> want]]

\* A client's command reaches node n; its key is held by some node.
Request ==
    \E n \in Entry, picked \in NodeSet, input \in Inputs :
        LET f == made + 1
            cmd == input[1]
            db == input[2] IN
        /\ requests < MaxRequests
        /\ requests' = requests + 1
        /\ Begin(f, n, cmd, db, Targets(cmd, picked), f, db)
        /\ UNCHANGED <<conns, breaks>>

Advance(f, at) == [frame EXCEPT ![f].at = at]

\* The reply of a relay, or its error: on to the next node.
Relayed(f) == [frame EXCEPT ![f].at = "next", ![f].todo = Tail(@)]

-----------------------------------------------------------------------------
(* relayExec                                                               *)

\* The node itself: no relay.
ExecHere(f) ==
    /\ frame[f].at = "next" /\ frame[f].todo # <<>>
    /\ Head(frame[f].todo) = frame[f].node
    /\ frame' = Relayed(f)
    /\ UNCHANGED <<made, requests, conns, breaks>>

\* BorrowObject: a connection nobody uses; without one it blocks.
Borrow(f) ==
    /\ frame[f].at = "next" /\ frame[f].todo # <<>>
    /\ \E s \in Pool(frame[f].node, Head(frame[f].todo)) :
        /\ user[s] = NoFrame
        /\ user' = [user EXCEPT ![s] = f]
        /\ frame' = [frame EXCEPT ![f].at = "borrowed", ![f].slot = s]
    /\ UNCHANGED <<made, requests, inbox, session, serving, breaks>>

\* ... unless the pool has to dial and cannot: the reply is an error.
BorrowFails(f) ==
    /\ frame[f].at = "next" /\ frame[f].todo # <<>>
    /\ \E s \in Pool(frame[f].node, Head(frame[f].todo)) : user[s] = NoFrame
    /\ frame' = Relayed(f)
    /\ UNCHANGED <<made, requests, conns, breaks>>

SendSelectUnlessZero(f) ==
    /\ frame[f].at = "borrowed"
    /\ inbox' = IF frame[f].db = 0 THEN inbox
                ELSE [inbox EXCEPT ![frame[f].slot] = Append(@, [select |-> TRUE, arg |-> frame[f].db])]
    /\ frame' = Advance(f, "selected")
    /\ UNCHANGED <<made, requests, user, session, serving, breaks>>

\* client.Send of SELECT.  Its reply, or its timeout, is ignored.
SendSelect(f) ==
    /\ frame[f].at = "borrowed"
    /\ inbox' = [inbox EXCEPT ![frame[f].slot] = Append(@, [select |-> TRUE, arg |-> frame[f].db])]
    /\ frame' = Advance(f, "selected")
    /\ UNCHANGED <<made, requests, user, session, serving, breaks>>

\* client.Send of the command.
SendCommand(f) ==
    /\ frame[f].at = "selected"
    /\ inbox' = [inbox EXCEPT ![frame[f].slot] = Append(@, [select |-> FALSE, arg |-> f])]
    /\ frame' = Advance(f, "wait")
    /\ UNCHANGED <<made, requests, user, session, serving, breaks>>

TimeoutLeaks(f) ==
    /\ frame[f].at = "wait"
    /\ frame' = Relayed(f)
    /\ UNCHANGED <<made, requests, conns, breaks>>

\* Three seconds have passed.  The deferred returnPeerClient gives the
\* connection back.
Timeout(f) ==
    /\ frame[f].at = "wait"
    /\ frame' = Relayed(f)
    /\ user' = [user EXCEPT ![frame[f].slot] = NoFrame]
    /\ UNCHANGED <<made, requests, inbox, session, serving, breaks>>

-----------------------------------------------------------------------------
(* The peer                                                                *)

ServeSelect(s) ==
    /\ serving[s] = NoFrame
    /\ inbox[s] # <<>> /\ Head(inbox[s]).select
    /\ session' = [session EXCEPT ![s] = Head(inbox[s]).arg]
    /\ inbox' = [inbox EXCEPT ![s] = Tail(@)]
    /\ UNCHANGED <<frame, made, requests, user, serving, breaks>>

\* The peer's own router: the key is its own, a FLUSHDB is for every node.
ServeCommand(s) ==
    LET caller == frame[Head(inbox[s]).arg]
        f == made + 1 IN
    /\ serving[s] = NoFrame
    /\ inbox[s] # <<>> /\ ~Head(inbox[s]).select
    /\ Begin(f, s[2], caller.cmd, session[s], Targets(caller.cmd, s[2]), caller.root, caller.want)
    /\ serving' = [serving EXCEPT ![s] = f]
    /\ inbox' = [inbox EXCEPT ![s] = Tail(@)]
    /\ UNCHANGED <<requests, user, session, breaks>>

\* Every node has answered or failed; the reply goes back over connection s
\* to the frame that waits there.
Reply(f, s) ==
    LET g == user[s] IN
    /\ serving[s] = f
    /\ serving' = [serving EXCEPT ![s] = NoFrame]
    /\ IF g # NoFrame /\ frame[g].at = "wait" /\ inbox[s] = <<>>
       THEN /\ frame' = [frame EXCEPT ![g].at = "next", ![g].todo = Tail(@), ![f].at = "done"]
            /\ user' = [user EXCEPT ![s] = NoFrame]
       ELSE /\ frame' = Advance(f, "done")
            /\ UNCHANGED user

\* A frame that nobody serves any more is a client's, or that of a broken
\* connection.
Finish(f) ==
    /\ frame[f].at = "next" /\ frame[f].todo = <<>>
    /\ \/ \E s \in Slots : Reply(f, s)
       \/ /\ \A s \in Slots : serving[s] # f
          /\ frame' = Advance(f, "done")
          /\ UNCHANGED <<user, serving>>
    /\ UNCHANGED <<made, requests, inbox, session, breaks>>

-----------------------------------------------------------------------------
\* A connection breaks and is dialled again: a new session, in database 0.
Break(s) ==
    /\ breaks < MaxBreaks
    /\ breaks' = breaks + 1
    /\ inbox' = [inbox EXCEPT ![s] = <<>>]
    /\ session' = [session EXCEPT ![s] = 0]
    /\ serving' = [serving EXCEPT ![s] = NoFrame]
    /\ UNCHANGED <<frame, made, requests, user>>

Init ==
    /\ frame = [f \in Frames |-> Unborn]
    /\ made = 0
    /\ requests = 0
    /\ user = [s \in Slots |-> NoFrame]
    /\ inbox = [s \in Slots |-> <<>>]
    /\ session = [s \in Slots |-> 0]
    /\ serving = [s \in Slots |-> NoFrame]
    /\ breaks = 0

Run(f) == ExecHere(f) \/ SendSelect(f) \/ SendCommand(f) \/ Finish(f)
Serve(s) == ServeSelect(s) \/ ServeCommand(s)

Next ==
    \/ Request
    \/ \E f \in Frames : Run(f) \/ Borrow(f) \/ BorrowFails(f) \/ Timeout(f)
    \/ \E s \in Slots : Serve(s) \/ Break(s)

Spec == Init /\ [][Next]_vars

\* Goroutines run; Send gives up after maxWait; the pool serves borrowers in
\* turn, so that one who waits gets a connection that is returned again and
\* again.
FairSpec ==
    /\ Spec
    /\ \A f \in Frames : WF_vars(Run(f)) /\ WF_vars(Timeout(f)) /\ SF_vars(Borrow(f))
    /\ \A s \in Slots : WF_vars(Serve(s))

-----------------------------------------------------------------------------
(* Properties                                                              *)

\* The type of the state; a connection is lent to the frame that holds it.
TypeOK ==
    /\ made \in 0 .. MaxFrames /\ requests \in 0 .. MaxRequests /\ breaks \in 0 .. MaxBreaks
    /\ \A f \in Frames : /\ frame[f].at \in {"unborn", "next", "borrowed", "selected", "wait", "done"}
                         /\ frame[f].at = "unborn" <=> f > made
                         /\ frame[f].at \in {"borrowed", "selected", "wait"} => user[frame[f].slot] = f
    /\ \A s \in Slots : /\ user[s] \in Frames \cup {NoFrame} /\ session[s] \in DBs
                        /\ user[s] # NoFrame => frame[user[s]].slot = s

\* A relayed command is executed in the database its client has selected or,
\* after a connection has broken, in database 0: never in one that another
\* user of the connection selected.
OwnDBOrZero ==
    \A f \in 1 .. made : frame[f].db # frame[f].want => frame[f].db = 0 /\ breaks > 0

\* Every command is answered, whatever the peers do and however many wait
\* for the connections of a pool.
EveryRelayEnds ==
    \A f \in Frames : frame[f].at = "next" ~> frame[f].at = "done"

\* A command on a key is executed at most once for each request, though the
\* connection times out or breaks and the reply of an earlier user arrives
\* late.  FLUSHDB is not: a node broadcasts again what was relayed to it.
OnceUnlessFlush ==
    \A f, g \in 1 .. made :
        frame[f].cmd = "key" /\ frame[f].root = frame[g].root /\ frame[f].node = frame[g].node => f = g

\* A pooled connection has one user at a time; what is relayed through it runs
\* in a database its client may expect and, but for FLUSHDB, at most once.
RelayInv == TypeOK /\ OwnDBOrZero /\ OnceUnlessFlush
=============================================================================
