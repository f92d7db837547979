---------------------------- MODULE ServerProofs ----------------------------
(***************************************************************************)
(* Proofs about the life of the server's connections, for any finite set   *)
(* of connections.                                                         *)
(***************************************************************************)
EXTENDS Server, FiniteSetTheorems, TLAPS

Runners == {k \in Conns : Running(k)}

\* What is known of one connection: where its handler is says what its socket,
\* its place in activeConn and its reply counter are.
ConnOK(k) ==
    /\ handle[k] = "none" <=> sock[k] \in {"none", "backlog"}
    /\ handle[k] \in {"delete", "done"} => sock[k] = "closed"
    /\ k \in replying <=> handle[k] \in {"write", "badwrite"}
    /\ handle[k] \in {"none", "spawned", "store", "done"} => k \notin activeConn

\* waitDone is the number of handlers that run, and ListenAndServe has passed
\* its wait only when none runs.
Counted ==
    /\ waitDone = Cardinality(Runners)
    /\ main \in {"close", "returned"} => Runners = {}

\* The goroutine that shuts down is closing a connection between two visits
\* of its Range only.
VictimOK ==
    /\ victim = NoConn <=> step = "none"
    /\ victim # NoConn => handle[victim] \notin {"none", "spawned", "store"}

\* The type of the state but for the counter, whose bound is a consequence.
Types ==
    /\ listening \in BOOLEAN
    /\ main \in {"accept", "wait", "close", "returned"}
    /\ sock \in [Conns -> {"none", "backlog", "open", "closed"}]
    /\ left \subseteq Conns
    /\ handle \in [Conns -> {"none", "spawned", "store", "serve", "exec", "write", "badwrite",
                             "stuck", "closewait", "close", "delete", "done"}]
    /\ activeConn \subseteq Conns /\ replying \subseteq Conns
    /\ closing \in BOOLEAN
    /\ shut \in {"idle", "signalled", "unlistened", "closing", "range", "done"}
    /\ snapshot \subseteq Conns /\ visited \subseteq Conns
    /\ victim \in Conns \cup {NoConn}
    /\ step \in {"none", "wait", "close", "delete"}

ConnsOK == \A k \in Conns : ConnOK(k)

ServerInd == Types /\ Counted /\ VictimOK /\ ConnsOK

-----------------------------------------------------------------------------
(* The counter of handlers                                                 *)

LEMMA RunnersFinite == IsFiniteSet(Runners) /\ Cardinality(Runners) \in 0 .. Cardinality(Conns)
<1>1. Runners \subseteq Conns
  BY DEF Runners
<1>2. IsFiniteSet(Runners) /\ Cardinality(Runners) <= Cardinality(Conns)
  BY <1>1, ConnsAssumption, FS_Subset
<1> QED BY <1>2, ConnsAssumption, FS_CardinalityType

\* A handler that goes from one place to another, both of them running, is
\* counted as before.
LEMMA SameRunners ==
    ASSUME Types, NEW k \in Conns, NEW at, Running(k), at \notin {"none", "done"},
           handle' = [handle EXCEPT ![k] = at]
    PROVE  Runners' = Runners
  BY DEF Types, Runners, Running

LEMMA OneMoreRunner ==
    ASSUME Types, NEW k \in Conns, handle[k] = "none",
           handle' = [handle EXCEPT ![k] = "spawned"]
    PROVE  Cardinality(Runners') = Cardinality(Runners) + 1
<1>1. Runners' = Runners \cup {k} /\ k \notin Runners
  BY DEF Types, Runners, Running
<1> QED BY <1>1, RunnersFinite, FS_AddElement

LEMMA OneLessRunner ==
    ASSUME Types, NEW k \in Conns, Running(k), handle' = [handle EXCEPT ![k] = "done"]
    PROVE  Cardinality(Runners') = Cardinality(Runners) - 1
<1>1. Runners' = Runners \ {k} /\ k \in Runners
  BY DEF Types, Runners, Running
<1> QED BY <1>1, RunnersFinite, FS_RemoveElement

\* Nothing that Runners depends on has changed.
LEMMA HandlesUnchanged ==
    ASSUME UNCHANGED handle PROVE Runners' = Runners
  BY DEF Runners, Running

-----------------------------------------------------------------------------
(* The steps                                                               *)

LEMMA IndInit == Init => ServerInd
<1> SUFFICES ASSUME Init PROVE ServerInd
  OBVIOUS
<1>1. Runners = {}
  BY DEF Init, Runners, Running
<1>2. Cardinality(Runners) = 0
  BY <1>1, FS_EmptySet
<1> QED BY <1>1, <1>2 DEF Init, ServerInd, Types, Counted, VictimOK, ConnsOK, ConnOK

\* Clients connect and leave.
LEMMA ClientSteps ==
    ASSUME ServerInd, NEW k \in Conns, Connect(k) \/ Leave(k)
    PROVE  ServerInd'
<1>1. UNCHANGED <<handle, serving, shutting, activeConn, replying>>
  BY DEF Connect, Leave
<1>2. Types'
  BY DEF ServerInd, Types, Connect, Leave, serving, shutting
<1>3. Counted'
  BY <1>1, HandlesUnchanged DEF ServerInd, Counted, serving
<1>4. VictimOK'
  BY <1>1 DEF ServerInd, VictimOK, shutting
<1>5. ConnsOK'
  BY <1>1 DEF ServerInd, Types, ConnsOK, ConnOK, Connect, Leave
<1> QED BY <1>2, <1>3, <1>4, <1>5 DEF ServerInd

LEMMA ListenAndServeSteps ==
    ASSUME ServerInd, main # "returned", ListenAndServe \/ AcceptFails
    PROVE  ServerInd'
<1> USE DEF ServerInd
<1>1. ASSUME NEW k \in Conns, Accept(k) PROVE ServerInd'
  <2>1. handle[k] = "none"
    BY <1>1 DEF Accept, ConnsOK, ConnOK
  <2>2. Cardinality(Runners') = Cardinality(Runners) + 1
    BY <1>1, <2>1, OneMoreRunner DEF Accept
  <2>3. Types'
    BY <1>1 DEF Types, Accept, shutting
  <2>4. Counted'
    BY <1>1, <2>2 DEF Counted, Accept
  <2>5. VictimOK'
    BY <1>1, <2>1 DEF VictimOK, Types, Accept, shutting
  <2>6. ConnsOK'
    BY <1>1, <2>1 DEF ConnsOK, ConnOK, Types, Accept
  <2> QED BY <2>3, <2>4, <2>5, <2>6
<1>2. CASE AcceptFails
  BY <1>2, HandlesUnchanged DEF AcceptFails, Types, Counted, VictimOK, ConnsOK, ConnOK, shutting
<1>3. CASE Waited
  <2>1. Runners = {}
    BY <1>3, RunnersFinite, FS_EmptySet DEF Waited, Counted
  <2> QED BY <1>3, <2>1, HandlesUnchanged DEF Waited, Types, Counted, VictimOK, ConnsOK, ConnOK, shutting
<1>4. CASE ListenAndServeReturns
  <2>1. Types'
    BY <1>4 DEF ListenAndServeReturns, Types
  <2>2. Counted'
    BY <1>4, HandlesUnchanged DEF ListenAndServeReturns, Counted
  <2>3. VictimOK'
    BY <1>4 DEF ListenAndServeReturns, VictimOK
  <2>4. ConnsOK'
    BY <1>4 DEF ListenAndServeReturns, ConnsOK, ConnOK, Types
  <2> QED BY <2>1, <2>2, <2>3, <2>4
<1> QED BY <1>1, <1>2, <1>3, <1>4 DEF ListenAndServe

\* The steps of a handler that goes on.
LEMMA HandlerGoesOn ==
    ASSUME ServerInd, NEW k \in Conns,
           \/ Start(k) \/ Store(k) \/ ReadEnds(k) \/ Exec(k) \/ CloseWait(k) \/ CloseSock(k)
           \/ Payload(k) \/ ParserPanics(k) \/ WriteEnds(k)
    PROVE  ServerInd'
<1> USE DEF ServerInd
<1> DEFINE Moves == \/ Start(k) \/ Store(k) \/ ReadEnds(k) \/ Exec(k) \/ CloseWait(k) \/ CloseSock(k)
                    \/ Payload(k) \/ ParserPanics(k) \/ WriteEnds(k)
<1>1. PICK at \in {"store", "serve", "exec", "write", "badwrite", "stuck", "closewait", "close", "delete"} :
        handle' = [handle EXCEPT ![k] = at]
  BY DEF Types, Start, Store, ReadEnds, Exec, CloseWait, CloseSock, Payload, ParserPanics, WriteEnds
<1>2. Running(k) /\ UNCHANGED <<serving, shutting, left>>
  BY DEF Running, Start, Store, ReadEnds, Exec, CloseWait, CloseSock, Payload, ParserPanics, WriteEnds
<1>3. Counted'
  <2>1. Runners' = Runners
    BY <1>1, <1>2, SameRunners
  <2> QED BY <1>2, <2>1 DEF Counted, serving
<1>4. VictimOK'
  <2>1. handle[k] \notin {"none", "spawned", "store"} => at \notin {"none", "spawned", "store"}
    BY <1>1 DEF Types, Start, Store, ReadEnds, Exec, CloseWait, CloseSock, Payload, ParserPanics, WriteEnds
  <2> QED BY <1>1, <1>2, <2>1, NoConnAssumption DEF VictimOK, Types, shutting
<1>5. Types'
  <2>1. sock' \in [Conns -> {"none", "backlog", "open", "closed"}] /\ activeConn' \subseteq Conns /\ replying' \subseteq Conns
    BY DEF Types, Start, Store, ReadEnds, Exec, CloseWait, CloseSock, Payload, ParserPanics, WriteEnds
  <2>2. handle' \in [Conns -> {"none", "spawned", "store", "serve", "exec", "write", "badwrite",
                              "stuck", "closewait", "close", "delete", "done"}]
    BY <1>1 DEF Types
  <2>3. listening' \in BOOLEAN /\ closing' \in BOOLEAN
    BY <1>2 DEF Types, serving, shutting
  <2> QED BY <1>2, <2>1, <2>2, <2>3 DEF Types, serving, shutting
<1>6. ConnsOK'
  <2>1. CASE Start(k)
    BY <2>1 DEF Start, ConnsOK, ConnOK, Types
  <2>2. CASE Store(k)
    BY <2>2 DEF Store, ConnsOK, ConnOK, Types
  <2>3. CASE ReadEnds(k) \/ CloseWait(k) \/ ParserPanics(k)
    BY <2>3 DEF ReadEnds, CloseWait, ParserPanics, ConnsOK, ConnOK, Types
  <2>4. CASE Exec(k)
    BY <2>4 DEF Exec, ConnsOK, ConnOK, Types
  <2>5. CASE CloseSock(k)
    BY <2>5 DEF CloseSock, ConnsOK, ConnOK, Types
  <2>6. CASE Payload(k)
    <3>1. PICK next \in {"exec", "badwrite"} : handle' = [handle EXCEPT ![k] = next]
      BY <2>6 DEF Payload
    <3> QED BY <2>6, <3>1 DEF Payload, ConnsOK, ConnOK, Types
  <2>7. CASE WriteEnds(k)
    <3>1. PICK next \in {"closewait", "serve"} : handle' = [handle EXCEPT ![k] = next]
      BY <2>7 DEF WriteEnds, Types
    <3> QED BY <2>7, <3>1 DEF WriteEnds, ConnsOK, ConnOK, Types
  <2> QED BY <2>1, <2>2, <2>3, <2>4, <2>5, <2>6, <2>7
<1> QED BY <1>3, <1>4, <1>5, <1>6

LEMMA HandlerEnds ==
    ASSUME ServerInd, main # "returned", NEW k \in Conns, DeleteClient(k)
    PROVE  ServerInd'
<1> USE DEF ServerInd
<1>1. Running(k) /\ Cardinality(Runners') = Cardinality(Runners) - 1
  BY OneLessRunner DEF DeleteClient, Running
<1>2. k \in Runners
  BY <1>1 DEF Runners
<1>3. Types'
  BY DEF DeleteClient, Types, shutting
<1>4. Counted'
  BY <1>1, <1>2 DEF DeleteClient, Counted
<1>5. VictimOK'
  BY NoConnAssumption DEF DeleteClient, VictimOK, Types, shutting
<1>6. ConnsOK'
  BY DEF DeleteClient, ConnsOK, ConnOK, Types
<1> QED BY <1>3, <1>4, <1>5, <1>6

\* The goroutine that shuts down leaves the handlers where they are.
LEMMA ShutDownSteps ==
    ASSUME ServerInd, Signal \/ ShutDown
    PROVE  ServerInd'
<1> USE DEF ServerInd
<1>1. UNCHANGED <<handle, main, waitDone, left, replying>>
  BY DEF Signal, ShutDown, CloseListener, SetClosing, BeginRange, RangeVisits, RangeEnds,
         ReplyAwaited, ReplyTimesOut, CloseConn, DeleteConn, serving
<1>3. Counted'
  <2>1. Runners' = Runners
    BY <1>1, HandlesUnchanged
  <2> QED BY <1>1, <2>1 DEF Counted
<1>4. CASE Signal \/ CloseListener \/ SetClosing \/ BeginRange \/ RangeEnds
  <2>1. UNCHANGED <<sock, activeConn, visited, victim, step>>
    BY <1>4 DEF Signal, CloseListener, SetClosing, BeginRange, RangeEnds
  <2>2. listening' \in BOOLEAN /\ closing' \in BOOLEAN
    BY <1>4 DEF Types, Signal, CloseListener, SetClosing, BeginRange, RangeEnds, serving
  <2>3. shut' \in {"signalled", "unlistened", "closing", "range", "done"} /\ snapshot' \subseteq Conns
    BY <1>4 DEF Types, Signal, CloseListener, SetClosing, BeginRange, RangeEnds
  <2>4. Types' /\ VictimOK' /\ ConnsOK'
    BY <1>1, <2>1, <2>2, <2>3 DEF Types, VictimOK, ConnsOK, ConnOK
  <2> QED BY <1>3, <2>4
<1>5. ASSUME NEW k \in Conns, RangeVisits(k) PROVE ServerInd'
  <2>1. k # NoConn /\ handle[k] \notin {"none", "spawned", "store"}
    BY <1>5, NoConnAssumption DEF RangeVisits, ConnsOK, ConnOK
  <2> QED BY <1>1, <1>3, <1>5, <2>1 DEF RangeVisits, Types, VictimOK, ConnsOK, ConnOK, serving
<1>6. CASE ReplyAwaited \/ ReplyTimesOut
  BY <1>1, <1>3, <1>6 DEF ReplyAwaited, ReplyTimesOut, Types, VictimOK, ConnsOK, ConnOK, serving
<1>7. CASE CloseConn
  <2>1. victim \in Conns /\ handle[victim] # "none"
    BY <1>7 DEF CloseConn, VictimOK, Types
  <2>2. Types' /\ VictimOK'
    BY <1>1, <1>7, <2>1 DEF CloseConn, Types, VictimOK, serving
  <2>3. ConnsOK'
    BY <1>1, <1>7, <2>1 DEF CloseConn, Types, ConnsOK, ConnOK
  <2> QED BY <1>3, <2>2, <2>3
<1>8. CASE DeleteConn
  BY <1>1, <1>3, <1>8 DEF DeleteConn, Types, VictimOK, ConnsOK, ConnOK, serving
<1> QED BY <1>4, <1>5, <1>6, <1>7, <1>8 DEF ShutDown

LEMMA IndNext ==
    ASSUME ServerInd, [Next]_vars
    PROVE  ServerInd'
<1>1. CASE UNCHANGED vars
  BY <1>1, HandlesUnchanged
     DEF vars, serving, shutting, ServerInd, Types, Counted, VictimOK, ConnsOK, ConnOK
<1>2. CASE Next
  BY <1>2, ClientSteps, ListenAndServeSteps, HandlerGoesOn, HandlerEnds, ShutDownSteps DEF Next, Handle
<1> QED BY <1>1, <1>2

LEMMA IndHolds == Spec => []ServerInd
  BY IndInit, IndNext, PTL DEF Spec

\* waitDone counts the handlers that run and never goes below zero,
\* ListenAndServe does not return under a running handler, and a handler that
\* is done has closed its connection and is in activeConn no more: for any
\* number of connections.
THEOREM ServerCorrect == Spec => []ServerInv
<1>1. ServerInd => ServerInv
  <2> SUFFICES ASSUME ServerInd PROVE ServerInv
    OBVIOUS
  <2>1. TypeOK
    BY RunnersFinite DEF ServerInd, Types, Counted, TypeOK
  <2>2. ReturnsWhenIdle
    BY DEF ServerInd, Counted, ReturnsWhenIdle, Runners
  <2>3. NoLeak
    BY DEF ServerInd, ConnsOK, ConnOK, NoLeak
  <2> QED BY <2>1, <2>2, <2>3 DEF ServerInv
<1> QED BY <1>1, IndHolds, PTL
=============================================================================
