------------------------------- MODULE Server -------------------------------
(***************************************************************************)
(* The life of the server's connections: tcp/server.go accepts them and    *)
(* runs one goroutine for each, resp/handler/handler.go serves them until  *)
(* their clients leave, resp/connection/connection.go writes the replies,  *)
(* and a signal closes the listener, the handler and every connection that *)
(* the handler knows.  What a command does is in module DB.                *)
(***************************************************************************)
EXTENDS Integers, FiniteSets

CONSTANTS
    Conns,     \* the connections that clients make
    NoConn

ASSUME NoConnAssumption == NoConn \notin Conns
ASSUME ConnsAssumption == IsFiniteSet(Conns)

VARIABLES
    listening,   \* the listener is open
    main,        \* where ListenAndServe is: "accept", "wait", "close", "returned"
    waitDone,    \* its counter of running handlers
    sock,        \* each connection: "none", "backlog", "open", "closed"
    left,        \* the clients that have gone away
    handle,      \* where the Handle of each connection is
    activeConn,  \* h.activeConn
    replying,    \* the connections whose waitingReply counter is 1
    closing,     \* h.closing
    shut,        \* where the goroutine is that shuts down
    snapshot,    \* activeConn when its Range began
    visited,     \* the connections that Range has visited
    victim,      \* the connection it is closing, and how far it has come
    step

serving == <<listening, main, waitDone>>
shutting == <<closing, shut, snapshot, visited, victim, step>>
vars == <<serving, sock, left, handle, activeConn, replying, shutting>>

Running(k) == handle[k] \notin {"none", "done"}
Readable(k) == sock[k] = "open" /\ k \notin left

-----------------------------------------------------------------------------
(* Clients                                                                 *)

Connect(k) ==
    /\ sock[k] = "none"
    /\ listening
    /\ sock' = [sock EXCEPT ![k] = "backlog"]
    /\ UNCHANGED <<serving, left, handle, activeConn, replying, shutting>>

Leave(k) ==
    /\ sock[k] = "open"
    /\ k \notin left
    /\ left' = left \cup {k}
    /\ UNCHANGED <<serving, sock, handle, activeConn, replying, shutting>>

-----------------------------------------------------------------------------
(* ListenAndServe                                                          *)

\* waitDone.Add(1); go handler.Handle(ctx, conn)
Accept(k) ==
    /\ main = "accept"
    /\ listening
    /\ sock[k] = "backlog"
    /\ sock' = [sock EXCEPT ![k] = "open"]
    /\ waitDone' = waitDone + 1
    /\ handle' = [handle EXCEPT ![k] = "spawned"]
    /\ UNCHANGED <<listening, main, left, activeConn, replying, shutting>>

\* Accept fails on a closed listener, and may on an open one (no descriptor is
\* left, say): the loop ends for any error.
AcceptFails ==
    /\ main = "accept"
    /\ main' = "wait"
    /\ UNCHANGED <<listening, waitDone, sock, left, handle, activeConn, replying, shutting>>

Waited ==
    /\ main = "wait"
    /\ waitDone = 0
    /\ main' = "close"
    /\ UNCHANGED <<listening, waitDone, sock, left, handle, activeConn, replying, shutting>>

\* The deferred listener.Close() and handler.Close(); then main returns.
ListenAndServeReturns ==
    /\ main = "close"
    /\ main' = "returned"
    /\ listening' = FALSE
    /\ closing' = TRUE
    /\ activeConn' = {}
    /\ sock' = [k \in Conns |-> IF k \in activeConn THEN "closed" ELSE sock[k]]
    /\ UNCHANGED <<waitDone, left, handle, replying, shut, snapshot, visited, victim, step>>

-----------------------------------------------------------------------------
(* Handle                                                                  *)

StartUnchecked(k) ==
    /\ handle[k] = "spawned"
    /\ handle' = [handle EXCEPT ![k] = "store"]
    /\ UNCHANGED <<serving, sock, left, activeConn, replying, shutting>>

\* A handler that finds h.closing set closes its connection, and goes on.
Start(k) ==
    /\ handle[k] = "spawned"
    /\ sock' = [sock EXCEPT ![k] = IF closing THEN "closed" ELSE @]
    /\ handle' = [handle EXCEPT ![k] = "store"]
    /\ UNCHANGED <<serving, left, activeConn, replying, shutting>>

Store(k) ==
    /\ handle[k] = "store"
    /\ activeConn' = activeConn \cup {k}
    /\ handle' = [handle EXCEPT ![k] = "serve"]
    /\ UNCHANGED <<serving, sock, left, replying, shutting>>

\* The next payload of the parser: a request, something that is not RESP (an
\* empty payload, or one that is no array, is skipped) ...
Payload(k) ==
    /\ handle[k] = "serve"
    /\ Readable(k)
    /\ \E next \in {"exec", "badwrite"} : handle' = [handle EXCEPT ![k] = next]
    /\ replying' = IF handle'[k] = "badwrite" THEN replying \cup {k} ELSE replying
    /\ UNCHANGED <<serving, sock, left, activeConn, shutting>>

ReadEndsAndReturns(k) ==
    /\ handle[k] = "serve"
    /\ ~Readable(k)
    /\ handle' = [handle EXCEPT ![k] = "done"]
    /\ waitDone' = waitDone - 1
    /\ UNCHANGED <<listening, main, sock, left, activeConn, replying, shutting>>

\* ... or the end of the connection, from either side.
ReadEnds(k) ==
    /\ handle[k] = "serve"
    /\ ~Readable(k)
    /\ handle' = [handle EXCEPT ![k] = "closewait"]
    /\ UNCHANGED <<serving, sock, left, activeConn, replying, shutting>>

\* The parser has panicked and recovered (ParsePanics in module Parser)
\* without closing its channel: the handler waits for payloads for ever.
ParserPanics(k) ==
    /\ handle[k] = "serve"
    /\ Readable(k)
    /\ handle' = [handle EXCEPT ![k] = "stuck"]
    /\ UNCHANGED <<serving, sock, left, activeConn, replying, shutting>>

\* h.db.Exec has returned; client.Write begins: c.waitingReply.Add(1)
Exec(k) ==
    /\ handle[k] = "exec"
    /\ replying' = replying \cup {k}
    /\ handle' = [handle EXCEPT ![k] = "write"]
    /\ UNCHANGED <<serving, sock, left, activeConn, shutting>>

\* c.waitingReply.Done().  Only after a protocol error is a failed write looked
\* at.  A write to a client that has left may fail or not.
WriteEnds(k) ==
    /\ handle[k] \in {"write", "badwrite"}
    /\ replying' = replying \ {k}
    /\ \E fails \in BOOLEAN :
        /\ Readable(k) => ~fails
        /\ sock[k] = "closed" => fails
        /\ handle' = [handle EXCEPT ![k] = IF @ = "badwrite" /\ fails THEN "closewait" ELSE "serve"]
    /\ UNCHANGED <<serving, sock, left, activeConn, shutting>>

\* closeClient, called by Handle: no reply is being written then.
CloseWait(k) ==
    /\ handle[k] = "closewait"
    /\ k \notin replying
    /\ handle' = [handle EXCEPT ![k] = "close"]
    /\ UNCHANGED <<serving, sock, left, activeConn, replying, shutting>>

CloseSock(k) ==
    /\ handle[k] = "close"
    /\ sock' = [sock EXCEPT ![k] = "closed"]
    /\ handle' = [handle EXCEPT ![k] = "delete"]
    /\ UNCHANGED <<serving, left, activeConn, replying, shutting>>

\* Handle returns; the deferred waitDone.Done() is run.
DeleteClient(k) ==
    /\ handle[k] = "delete"
    /\ activeConn' = activeConn \ {k}
    /\ handle' = [handle EXCEPT ![k] = "done"]
    /\ waitDone' = waitDone - 1
    /\ UNCHANGED <<listening, main, sock, left, replying, shutting>>

-----------------------------------------------------------------------------
(* Shutting down                                                           *)

Signal ==
    /\ shut = "idle"
    /\ shut' = "signalled"
    /\ UNCHANGED <<serving, sock, left, handle, activeConn, replying, closing,
                   snapshot, visited, victim, step>>

CloseListener ==
    /\ shut = "signalled"
    /\ listening' = FALSE
    /\ shut' = "unlistened"
    /\ UNCHANGED <<main, waitDone, sock, left, handle, activeConn, replying, closing,
                   snapshot, visited, victim, step>>

SetClosing ==
    /\ shut = "unlistened"
    /\ closing' = TRUE
    /\ shut' = "closing"
    /\ UNCHANGED <<serving, sock, left, handle, activeConn, replying,
                   snapshot, visited, victim, step>>

BeginRange ==
    /\ shut = "closing"
    /\ shut' = "range"
    /\ snapshot' = activeConn
    /\ UNCHANGED <<serving, sock, left, handle, activeConn, replying, closing,
                   visited, victim, step>>

\* sync.Map.Range may or may not visit a key that is stored meanwhile.
RangeVisits(k) ==
    /\ shut = "range"
    /\ victim = NoConn
    /\ k \in activeConn \ visited
    /\ visited' = visited \cup {k}
    /\ victim' = k
    /\ step' = "wait"
    /\ UNCHANGED <<serving, sock, left, handle, activeConn, replying, closing,
                   shut, snapshot>>

RangeEnds ==
    /\ shut = "range"
    /\ victim = NoConn
    /\ snapshot \cap activeConn \subseteq visited
    /\ shut' = "done"
    /\ UNCHANGED <<serving, sock, left, handle, activeConn, replying, closing,
                   snapshot, visited, victim, step>>

\* Connection.Close: c.waitingReply.WaitWithTimeout, then c.conn.Close()
ReplyAwaited ==
    /\ step = "wait"
    /\ victim \notin replying
    /\ step' = "close"
    /\ UNCHANGED <<serving, sock, left, handle, activeConn, replying, closing,
                   shut, snapshot, visited, victim>>

ReplyTimesOut ==
    /\ step = "wait"
    /\ victim \in replying
    /\ step' = "close"
    /\ UNCHANGED <<serving, sock, left, handle, activeConn, replying, closing,
                   shut, snapshot, visited, victim>>

CloseConn ==
    /\ step = "close"
    /\ sock' = [sock EXCEPT ![victim] = "closed"]
    /\ step' = "delete"
    /\ UNCHANGED <<serving, left, handle, activeConn, replying, closing,
                   shut, snapshot, visited, victim>>

DeleteConn ==
    /\ step = "delete"
    /\ activeConn' = activeConn \ {victim}
    /\ victim' = NoConn
    /\ step' = "none"
    /\ UNCHANGED <<serving, sock, left, handle, replying, closing,
                   shut, snapshot, visited>>

-----------------------------------------------------------------------------
Init ==
    /\ listening = TRUE
    /\ main = "accept"
    /\ waitDone = 0
    /\ sock = [k \in Conns |-> "none"]
    /\ left = {}
    /\ handle = [k \in Conns |-> "none"]
    /\ activeConn = {}
    /\ replying = {}
    /\ closing = FALSE
    /\ shut = "idle"
    /\ snapshot = {}
    /\ visited = {}
    /\ victim = NoConn
    /\ step = "none"

ListenAndServe == (\E k \in Conns : Accept(k)) \/ (~listening /\ AcceptFails) \/ Waited \/ ListenAndServeReturns

Handle(k) ==
    \/ Start(k) \/ Store(k)
    \/ ReadEnds(k) \/ Exec(k)
    \/ CloseWait(k) \/ CloseSock(k) \/ DeleteClient(k)
    \/ ~Readable(k) /\ WriteEnds(k)

ShutDown ==
    \/ CloseListener \/ SetClosing \/ BeginRange
    \/ (\E k \in Conns : RangeVisits(k)) \/ RangeEnds
    \/ ReplyAwaited \/ ReplyTimesOut \/ CloseConn \/ DeleteConn

\* When main has returned the process is gone.
Next ==
    /\ main # "returned"
    /\ \/ ListenAndServe \/ AcceptFails
       \/ Signal
       \/ ShutDown
       \/ \E k \in Conns :
            \/ Connect(k) \/ Leave(k)
            \/ Handle(k) \/ Payload(k) \/ ParserPanics(k) \/ WriteEnds(k)

Spec == Init /\ [][Next]_vars

(***************************************************************************)
(* Fairness: the goroutines run when they can, and a write to a connection *)
(* that is closed or whose client has left returns.  Clients need not      *)
(* leave, need not send anything and need not read what is written.        *)
(***************************************************************************)
FairSpec ==
    /\ Spec
    /\ WF_vars(main # "returned" /\ ListenAndServe)
    /\ WF_vars(main # "returned" /\ ShutDown)
    /\ \A k \in Conns : WF_vars(main # "returned" /\ Handle(k))

-----------------------------------------------------------------------------
(* Properties                                                              *)

\* The type of the state: waitDone never goes below zero, which would panic.
TypeOK ==
    /\ listening \in BOOLEAN
    /\ main \in {"accept", "wait", "close", "returned"}
    /\ waitDone \in 0 .. Cardinality(Conns)
    /\ sock \in [Conns -> {"none", "backlog", "open", "closed"}]
    /\ left \subseteq Conns
    /\ handle \in [Conns -> {"none", "spawned", "store", "serve", "exec", "write", "badwrite",
                             "stuck", "closewait", "close", "delete", "done"}]
    /\ activeConn \subseteq Conns /\ replying \subseteq Conns
    /\ closing \in BOOLEAN
    /\ shut \in {"idle", "signalled", "unlistened", "closing", "range", "done"}
    /\ snapshot \subseteq Conns /\ visited \subseteq Conns
    /\ victim \in Conns \cup {NoConn}
    /\ step \in {"none", "wait", "close", "delete"}

\* ListenAndServe does not return, and the process does not end, while a
\* handler is executing a command.
ReturnsWhenIdle == main \in {"close", "returned"} => \A k \in Conns : ~Running(k)

\* A handler that is done has closed its connection and is forgotten, whoever
\* ended the connection and whatever the goroutine that shuts down has done
\* with it in between.
NoLeak == \A k \in Conns : handle[k] = "done" => sock[k] = "closed" /\ k \notin activeConn

\* A handler that looked at h.closing before it was set and has not stored its
\* connection yet.
Late(k) == handle[k] = "store" /\ sock[k] = "open"

\* If no handler is late when h.closing has been set, the server does end,
\* though clients stay connected and do not read their replies, and though
\* handlers start until the last moment.  A handler whose parser has panicked
\* keeps it from ending, but not from closing every connection.
ShutsDownUnlessLate ==
    (shut = "closing" /\ \A k \in Conns : ~Late(k)) ~>
        \/ main = "returned"
        \/ /\ \E k \in Conns : handle[k] = "stuck"
           /\ shut = "done"
           /\ \A k \in Conns : sock[k] # "open"

\* waitDone counts the handlers, ListenAndServe waits for them, and none of the
\* parties that close a connection leaves it open or in activeConn.
ServerInv == TypeOK /\ ReturnsWhenIdle /\ NoLeak
=============================================================================
