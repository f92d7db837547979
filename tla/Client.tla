------------------------------- MODULE Client -------------------------------
(***************************************************************************)
(* resp/client/client.go, the pipelined client through which a node of the *)
(* cluster talks to another.  Send queues a request and waits for it with  *)
(* a timeout; the goroutine handWrite writes the queued requests to the    *)
(* connection and then queues them as waiting; one goroutine handleRead    *)
(* per connection gives each reply it reads to the request that has waited *)
(* longest; heartbeat sends a PING now and then; Close ends all of it.     *)
(*                                                                         *)
(* A request is its number, a reply the number of the request it answers.  *)
(* The peer answers the requests of a connection in order, when it likes.  *)
(* Two things can go wrong: a broken connection loses the requests and     *)
(* some of the replies in it, and of a few replies the parser does not     *)
(* make one payload (module Parser, OnePayloadEach).                       *)
(***************************************************************************)
EXTENDS Integers, Sequences

CONSTANTS
    Callers,     \* the goroutines that call Send
    Heart,       \* the goroutine that runs heartbeat
    chanSize,    \* capacity of pendingReqs and of waitingReqs
    Retries,     \* how often doRequest dials again (3)
    MaxReqs,     \* bound on the requests made
    Beats,       \* the requests that may be heartbeats: bounds the ticks
    MaxConns,    \* bound on the connections made
    MaxFaults    \* bound on the connections that break and the replies misread

Goroutines == Callers \cup {Heart}
Ids == 1 .. MaxReqs
Conns == 1 .. MaxConns

NoReply == 0
ConnLost == -1   \* the error that handleRead reads from a lost connection
Failed == -2     \* req.err
Junk == -3       \* an error or nil that the parser makes of a part of a reply
Poison == -4     \* a reply on which the parser panics
Replies == Ids \cup {NoReply, ConnLost, Failed, Junk}
Payloads == Ids \cup {Junk, Poison}

ASSUME HeartAssumption == Heart \notin Callers
ASSUME SizesAssumption == chanSize \in Nat \ {0} /\ Retries \in Nat
ASSUME BoundsAssumption == MaxReqs \in Nat /\ MaxConns \in Nat \ {0} /\ MaxFaults \in Nat

VARIABLES
    pc,           \* where each goroutine is in Send or doHeartbeat
    req,          \* its request
    made,         \* how many requests have been made
    reply,        \* what each request has been given
    pendingReqs, waitingReqs,
    writer,       \* where handWrite is: "idle", "write", "redial", "push", "ended"
    hand,         \* the request it is writing
    tries,        \* how often it has dialled for that request
    conn,         \* client.conn
    link,         \* the state of each connection
    inbox,        \* requests on their way to the peer, or not yet answered by it
    answers,      \* what the parser makes of the replies on their way back
    reader,       \* where the handleRead of each connection is
    read,         \* the reply it has read
    closing,      \* how far Close has come
    faults,       \* how many connections have broken and replies been misread
    panicked      \* a send on a closed channel: the program dies

calls == <<pc, req, made>>
queues == <<pendingReqs, waitingReqs>>
writing == <<writer, hand, tries, conn>>
network == <<link, inbox, answers>>
reading == <<reader, read>>
vars == <<calls, reply, queues, writing, network, reading, closing, faults, panicked>>

-----------------------------------------------------------------------------
(* Send and doHeartbeat                                                    *)

Make(g) ==
    /\ pc[g] = "idle"
    /\ made < MaxReqs
    /\ made' = made + 1
    /\ req' = [req EXCEPT ![g] = made + 1]
    /\ pc' = [pc EXCEPT ![g] = "send"]
    /\ UNCHANGED <<reply, queues, writing, network, reading, closing, faults, panicked>>

\* The pool lends nobody a client that it is closing.
Send(c) == closing = "open" /\ Make(c)

\* Close stops the ticker.
doHeartbeat == closing = "open" /\ made + 1 \in Beats /\ Make(Heart)

\* client.pendingReqs <- request
Enqueue(g) ==
    /\ pc[g] = "send"
    /\ closing = "open"
    /\ Len(pendingReqs) < chanSize
    /\ pendingReqs' = Append(pendingReqs, req[g])
    /\ pc' = [pc EXCEPT ![g] = "wait"]
    /\ UNCHANGED <<req, made, reply, waitingReqs, writing, network, reading, closing, faults, panicked>>

\* ... after close(client.pendingReqs)
EnqueuePanics(g) ==
    /\ pc[g] = "send"
    /\ closing # "open"
    /\ panicked' = TRUE
    /\ UNCHANGED <<calls, reply, queues, writing, network, reading, closing, faults>>

\* WaitWithTimeout returns because the request is done, or too late: a request
\* that has timed out stays in its queue.
Return(g) ==
    /\ pc[g] = "wait"
    /\ reply[req[g]] # NoReply
    /\ pc' = [pc EXCEPT ![g] = "idle"]
    /\ req' = [req EXCEPT ![g] = 0]
    /\ UNCHANGED <<made, reply, queues, writing, network, reading, closing, faults, panicked>>

Timeout(g) ==
    /\ pc[g] = "wait"
    /\ pc' = [pc EXCEPT ![g] = "idle"]
    /\ req' = [req EXCEPT ![g] = 0]
    /\ UNCHANGED <<made, reply, queues, writing, network, reading, closing, faults, panicked>>

-----------------------------------------------------------------------------
(* handWrite and doRequest                                                 *)

TakeRequest ==
    /\ writer = "idle"
    /\ pendingReqs # <<>>
    /\ hand' = Head(pendingReqs)
    /\ pendingReqs' = Tail(pendingReqs)
    /\ tries' = 0
    /\ writer' = "write"
    /\ UNCHANGED <<calls, reply, waitingReqs, conn, network, reading, closing, faults, panicked>>

WriterEnds ==
    /\ writer = "idle"
    /\ pendingReqs = <<>>
    /\ closing # "open"
    /\ writer' = "ended"
    /\ UNCHANGED <<calls, reply, queues, hand, tries, conn, network, reading, closing, faults, panicked>>

\* client.conn.Write.  On a connection that the peer has left it may still
\* succeed; on one that this side has closed it fails.
WriteReaches ==
    /\ writer = "write"
    /\ link[conn] = "up"
    /\ inbox' = [inbox EXCEPT ![conn] = Append(@, hand)]
    /\ writer' = "push"
    /\ UNCHANGED <<calls, reply, queues, hand, tries, conn, link, answers, reading, closing, faults, panicked>>

WriteIsLost ==
    /\ writer = "write"
    /\ link[conn] = "broken"
    /\ writer' = "push"
    /\ UNCHANGED <<calls, reply, queues, hand, tries, conn, network, reading, closing, faults, panicked>>

WriteFails ==
    /\ writer = "write"
    /\ link[conn] # "up"
    /\ writer' = "redial"
    /\ UNCHANGED <<calls, reply, queues, hand, tries, conn, network, reading, closing, faults, panicked>>

\* handleConnectionError: the old connection is closed; with a new one comes a
\* new handleRead.
Redial ==
    /\ writer = "redial"
    /\ tries < Retries
    /\ conn < MaxConns
    /\ tries' = tries + 1
    /\ conn' = conn + 1
    /\ link' = [link EXCEPT ![conn] = "closed", ![conn + 1] = "up"]
    /\ reader' = [reader EXCEPT ![conn + 1] = "read"]
    /\ writer' = "write"
    /\ UNCHANGED <<calls, reply, queues, hand, inbox, answers, read, closing, faults, panicked>>

RedialFails ==
    /\ writer = "redial"
    /\ tries < Retries
    /\ tries' = tries + 1
    /\ link' = [link EXCEPT ![conn] = "closed"]
    /\ UNCHANGED <<calls, reply, queues, writer, hand, conn, inbox, answers, reading, closing, faults, panicked>>

\* doRequest without its else.
GiveUpAndPush ==
    /\ writer = "redial"
    /\ tries = Retries
    /\ reply' = [reply EXCEPT ![hand] = Failed]
    /\ writer' = "push"
    /\ UNCHANGED <<calls, queues, hand, tries, conn, network, reading, closing, faults, panicked>>

\* doRequest's error ends handWrite.
GiveUpAndEnd ==
    /\ writer = "redial"
    /\ tries = Retries
    /\ reply' = [reply EXCEPT ![hand] = Failed]
    /\ writer' = "ended"
    /\ UNCHANGED <<calls, queues, hand, tries, conn, network, reading, closing, faults, panicked>>

\* req.err = err; req.waiting.Done()
GiveUp ==
    /\ writer = "redial"
    /\ tries = Retries
    /\ reply' = [reply EXCEPT ![hand] = Failed]
    /\ writer' = "idle"
    /\ UNCHANGED <<calls, queues, hand, tries, conn, network, reading, closing, faults, panicked>>

\* client.waitingReqs <- req, after the request has been written
Push ==
    /\ writer = "push"
    /\ closing \in {"open", "draining"}
    /\ Len(waitingReqs) < chanSize
    /\ waitingReqs' = Append(waitingReqs, hand)
    /\ writer' = "idle"
    /\ UNCHANGED <<calls, reply, pendingReqs, hand, tries, conn, network, reading, closing, faults, panicked>>

PushPanics ==
    /\ writer = "push"
    /\ closing \in {"flushed", "closed"}
    /\ panicked' = TRUE
    /\ UNCHANGED <<calls, reply, queues, writing, network, reading, closing, faults>>

-----------------------------------------------------------------------------
(* handleRead and finishRequest                                            *)

\* Every payload, an error or nil too; also one that was in the buffer of the
\* parser when the connection was closed.
ReadReply(k) ==
    /\ reader[k] = "read"
    /\ answers[k] # <<>> /\ Head(answers[k]) # Poison
    /\ read' = [read EXCEPT ![k] = Head(answers[k])]
    /\ answers' = [answers EXCEPT ![k] = Tail(@)]
    /\ reader' = [reader EXCEPT ![k] = "finish"]
    /\ UNCHANGED <<calls, reply, queues, writing, link, inbox, closing, faults, panicked>>

\* The goroutine of the parser recovers from its panic and ends, and does not
\* close the channel: handleRead waits for ever.  What is left in its buffer is
\* never read, here as after the last payload.
ReadPoison(k) ==
    /\ reader[k] = "read"
    /\ answers[k] # <<>> /\ Head(answers[k]) = Poison
    /\ reader' = [reader EXCEPT ![k] = "stuck"]
    /\ answers' = [answers EXCEPT ![k] = <<>>]
    /\ UNCHANGED <<calls, reply, queues, writing, link, inbox, read, closing, faults, panicked>>

\* The parser's last payload is the error of the read that failed.
ReadError(k) ==
    /\ reader[k] = "read"
    /\ \/ link[k] = "closed"
       \/ link[k] = "broken" /\ answers[k] = <<>>
    /\ read' = [read EXCEPT ![k] = ConnLost]
    /\ reader' = [reader EXCEPT ![k] = "last"]
    /\ answers' = [answers EXCEPT ![k] = <<>>]
    /\ UNCHANGED <<calls, reply, queues, writing, link, inbox, closing, faults, panicked>>

\* The goroutine that has finished a request goes on, or ends.
Goes(k) ==
    /\ reader' = [reader EXCEPT ![k] = IF @ = "last" THEN "ended" ELSE "read"]
    /\ read' = [read EXCEPT ![k] = NoReply]

\* A reply that finds no request waiting is dropped.
finishIfWaiting(k) ==
    /\ reader[k] \in {"finish", "last"}
    /\ IF waitingReqs # <<>>
         THEN /\ reply' = [reply EXCEPT ![Head(waitingReqs)] = read[k]]
              /\ waitingReqs' = Tail(waitingReqs)
         ELSE UNCHANGED <<reply, waitingReqs>>
    /\ Goes(k)
    /\ UNCHANGED <<calls, pendingReqs, writing, network, closing, faults, panicked>>

\* Whatever was read goes to the request at the head of waitingReqs; if there
\* is none the goroutine waits for one.
finishRequest(k) ==
    /\ reader[k] \in {"finish", "last"}
    /\ waitingReqs # <<>>
    /\ reply' = [reply EXCEPT ![Head(waitingReqs)] = read[k]]
    /\ waitingReqs' = Tail(waitingReqs)
    /\ Goes(k)
    /\ UNCHANGED <<calls, pendingReqs, writing, network, closing, faults, panicked>>

\* ... until the channel is closed.
finishNothing(k) ==
    /\ reader[k] \in {"finish", "last"}
    /\ waitingReqs = <<>>
    /\ closing \in {"flushed", "closed"}
    /\ Goes(k)
    /\ UNCHANGED <<calls, reply, queues, writing, network, closing, faults, panicked>>

-----------------------------------------------------------------------------
(* Close, called by the pool for a client that nobody has borrowed         *)

\* client.ticker.Stop(); close(client.pendingReqs)
ClosePending ==
    /\ closing = "open"
    /\ \A c \in Callers : pc[c] = "idle"
    /\ closing' = "draining"
    /\ UNCHANGED <<calls, reply, queues, writing, network, reading, faults, panicked>>

\* client.working.Wait(); close(client.waitingReqs)
CloseWaiting ==
    /\ closing = "draining"
    /\ \A g \in Goroutines : pc[g] = "idle"
    /\ closing' = "flushed"
    /\ UNCHANGED <<calls, reply, queues, writing, network, reading, faults, panicked>>

CloseConn ==
    /\ closing = "flushed"
    /\ closing' = "closed"
    /\ link' = [link EXCEPT ![conn] = "closed"]
    /\ inbox' = [inbox EXCEPT ![conn] = <<>>]
    /\ UNCHANGED <<calls, reply, queues, writing, answers, reading, faults, panicked>>

-----------------------------------------------------------------------------
(* The peer and the network                                                *)

Answer(k) ==
    /\ link[k] = "up"
    /\ inbox[k] # <<>>
    /\ answers' = [answers EXCEPT ![k] = Append(@, Head(inbox[k]))]
    /\ inbox' = [inbox EXCEPT ![k] = Tail(@)]
    /\ UNCHANGED <<calls, reply, queues, writing, link, reading, closing, faults, panicked>>

\* The payloads of a reply that the parser does not read back: none, as part of
\* an argument that begins with $; an error for the same reason; an array and
\* one more, if its last argument is empty; an error and one more for an empty
\* bulk; a panic for an empty argument before the last.
Misread(i) == {<<>>, <<Junk>>, <<i, Junk>>, <<Junk, Junk>>, <<Poison>>}

AnswerMisread(k) ==
    /\ link[k] = "up"
    /\ inbox[k] # <<>>
    /\ faults < MaxFaults
    /\ faults' = faults + 1
    /\ \E payloads \in Misread(Head(inbox[k])) : answers' = [answers EXCEPT ![k] = @ \o payloads]
    /\ inbox' = [inbox EXCEPT ![k] = Tail(@)]
    /\ UNCHANGED <<calls, reply, queues, writing, link, reading, closing, panicked>>

Break(k) ==
    /\ link[k] = "up"
    /\ faults < MaxFaults
    /\ faults' = faults + 1
    /\ link' = [link EXCEPT ![k] = "broken"]
    /\ inbox' = [inbox EXCEPT ![k] = <<>>]
    /\ \E n \in 0 .. Len(answers[k]) : answers' = [answers EXCEPT ![k] = SubSeq(@, 1, n)]
    /\ UNCHANGED <<calls, reply, queues, writing, reading, closing, panicked>>

-----------------------------------------------------------------------------
Init ==
    /\ pc = [g \in Goroutines |-> "idle"]
    /\ req = [g \in Goroutines |-> 0]
    /\ made = 0
    /\ reply = [i \in Ids |-> NoReply]
    /\ pendingReqs = <<>>
    /\ waitingReqs = <<>>
    /\ writer = "idle"
    /\ hand = 0
    /\ tries = 0
    /\ conn = 1
    /\ link = [k \in Conns |-> IF k = 1 THEN "up" ELSE "none"]
    /\ inbox = [k \in Conns |-> <<>>]
    /\ answers = [k \in Conns |-> <<>>]
    /\ reader = [k \in Conns |-> IF k = 1 THEN "read" ELSE "none"]
    /\ read = [k \in Conns |-> NoReply]
    /\ closing = "open"
    /\ faults = 0
    /\ panicked = FALSE

Call(g) == Enqueue(g) \/ EnqueuePanics(g) \/ Return(g) \/ Timeout(g)

handWrite ==
    \/ TakeRequest \/ WriterEnds
    \/ WriteReaches \/ WriteIsLost \/ WriteFails
    \/ Redial \/ RedialFails \/ GiveUp
    \/ Push \/ PushPanics

handleRead(k) == ReadReply(k) \/ ReadPoison(k) \/ ReadError(k) \/ finishRequest(k) \/ finishNothing(k)

Peer(k) == Answer(k) \/ AnswerMisread(k) \/ Break(k)

Close == ClosePending \/ CloseWaiting \/ CloseConn

Next ==
    /\ ~panicked
    /\ \/ \E c \in Callers : Send(c)
       \/ doHeartbeat
       \/ \E g \in Goroutines : Call(g)
       \/ handWrite
       \/ \E k \in Conns : handleRead(k) \/ Peer(k)
       \/ Close

Spec == Init /\ [][Next]_vars

(***************************************************************************)
(* Fairness: the goroutines of the client run when they can, timers fire,  *)
(* and of the goroutines that wait to send to a channel each gets its turn *)
(* (they queue).  A peer that is alive answers only in AnsweringSpec.      *)
(***************************************************************************)
FairSpec ==
    /\ Spec
    /\ WF_vars(~panicked /\ handWrite)
    /\ \A g \in Goroutines : WF_vars(~panicked /\ Call(g)) /\ SF_vars(~panicked /\ Enqueue(g))
    /\ \A k \in Conns : WF_vars(~panicked /\ handleRead(k))

AnsweringSpec == FairSpec /\ \A k \in Conns : WF_vars(~panicked /\ Answer(k))

-----------------------------------------------------------------------------
(* Properties                                                              *)

\* The type of the state: neither pendingReqs nor waitingReqs outgrows its
\* channel.
TypeOK ==
    /\ pc \in [Goroutines -> {"idle", "send", "wait"}]
    /\ req \in [Goroutines -> Ids \cup {0}]
    /\ made \in 0 .. MaxReqs
    /\ reply \in [Ids -> Replies]
    /\ pendingReqs \in Seq(Ids) /\ Len(pendingReqs) <= chanSize
    /\ waitingReqs \in Seq(Ids) /\ Len(waitingReqs) <= chanSize
    /\ writer \in {"idle", "write", "redial", "push", "ended"}
    /\ hand \in Ids \cup {0}
    /\ tries \in 0 .. Retries
    /\ conn \in Conns
    /\ link \in [Conns -> {"none", "up", "broken", "closed"}]
    /\ inbox \in [Conns -> Seq(Ids)]
    /\ answers \in [Conns -> Seq(Payloads)]
    /\ reader \in [Conns -> {"none", "read", "finish", "last", "ended", "stuck"}]
    /\ read \in [Conns -> Replies]
    /\ closing \in {"open", "draining", "flushed", "closed"}
    /\ faults \in 0 .. MaxFaults
    /\ panicked \in BOOLEAN

Mismatched(i) == reply[i] \in Ids \ {i}

\* As long as the first connection lasts and every reply makes one payload, a
\* request is given its own reply, however late it comes: also when requests
\* before it have timed out, when the reply arrives before the request is in
\* waitingReqs, and while Close drains.
RepliesMatchUntilFault == link[1] = "up" /\ faults = 0 => \A i \in Ids : ~Mismatched(i)

\* A request is completed once: its waiting counter would go below zero, which
\* panics, and a caller could see its reply change.
CompletedOnce ==
    [][\A i \in Ids : reply[i] # NoReply => reply'[i] = reply[i]]_vars

\* The reader of connection k will receive from waitingReqs.
WillFinish(k) ==
    \/ reader[k] \in {"finish", "last"}
    \/ reader[k] = "read" /\ (answers[k] # <<>> \/ inbox[k] # <<>> \/ link[k] # "up")

\* handWrite waits for room in waitingReqs, which holds only requests whose
\* replies never came, and no reader will make room.
Clogged ==
    /\ writer = "push" /\ closing \in {"open", "draining"}
    /\ Len(waitingReqs) = chanSize
    /\ \A k \in Conns : ~WillFinish(k)

\* Timeouts and a slow peer alone never clog the client: a request that has
\* timed out keeps its place until its reply comes, and makes room then.
ClogsOnlyByFault == Clogged => faults > 0

\* "不管请求阻塞还是服务器响应慢，都不会让客户端卡死" (Start): a call of Send or
\* a heartbeat returns, if the peer answers what it is sent (AnsweringSpec; a
\* silent peer fills both queues, and Send blocks before its timeout begins)
\* and unless more requests have been left without a reply than waitingReqs
\* holds.
EveryCallReturns == \A g \in Goroutines : pc[g] # "idle" ~> (pc[g] = "idle" \/ panicked \/ Clogged)

\* The queues keep to their size, and until something goes wrong in the network
\* finishRequest gives a request its own reply and makes room for the next.
ClientInv == TypeOK /\ RepliesMatchUntilFault /\ ClogsOnlyByFault
=============================================================================
