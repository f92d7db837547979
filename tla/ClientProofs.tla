---------------------------- MODULE ClientProofs ----------------------------
(***************************************************************************)
(* Proofs about the pipelined client, for any number of callers, requests, *)
(* connections and faults, and any capacity of the two channels.           *)
(***************************************************************************)
EXTENDS Client, TLAPS

\* handWrite has a request in its hand.
Handed == writer \in {"write", "redial", "push"}

\* Every request that is somewhere has been made.
Numbered ==
    /\ \A j \in 1 .. Len(pendingReqs) : pendingReqs[j] \in 1 .. made
    /\ \A j \in 1 .. Len(waitingReqs) : waitingReqs[j] \in 1 .. made
    /\ Handed => hand \in 1 .. made
    /\ \A g \in Goroutines : pc[g] # "idle" => req[g] \in 1 .. made

\* A request is in one place: a goroutine is about to send it, it is pending,
\* in the hand of handWrite, or waiting for its reply.
Apart ==
    /\ \A i, j \in 1 .. Len(pendingReqs) : pendingReqs[i] = pendingReqs[j] => i = j
    /\ \A i, j \in 1 .. Len(waitingReqs) : waitingReqs[i] = waitingReqs[j] => i = j
    /\ \A i \in 1 .. Len(pendingReqs), j \in 1 .. Len(waitingReqs) : pendingReqs[i] # waitingReqs[j]

HandApart ==
    Handed => /\ \A i \in 1 .. Len(pendingReqs) : pendingReqs[i] # hand
              /\ \A i \in 1 .. Len(waitingReqs) : waitingReqs[i] # hand

CallsApart ==
    \A g \in Goroutines : pc[g] = "send" =>
        /\ \A i \in 1 .. Len(pendingReqs) : pendingReqs[i] # req[g]
        /\ \A i \in 1 .. Len(waitingReqs) : waitingReqs[i] # req[g]
        /\ Handed => hand # req[g]
        /\ \A h \in Goroutines : pc[h] = "send" /\ req[h] = req[g] => h = g

\* None of these has been completed.
Unanswered ==
    /\ \A j \in 1 .. Len(pendingReqs) : reply[pendingReqs[j]] = NoReply
    /\ \A j \in 1 .. Len(waitingReqs) : reply[waitingReqs[j]] = NoReply
    /\ Handed => reply[hand] = NoReply
    /\ \A g \in Goroutines : pc[g] = "send" => reply[req[g]] = NoReply
    /\ \A i \in Ids : i > made => reply[i] = NoReply

OnceInd == TypeOK /\ Numbered /\ Apart /\ HandApart /\ CallsApart /\ Unanswered

\* The requests that have been written to the first connection and have not
\* been completed, in order, and where each of them is: read, on its way
\* back, or at the peer.
StreamLen(n, back, forth) == n + Len(back) + Len(forth)
StreamAt(n, first, back, forth, j) ==
    IF j <= n THEN first ELSE IF j <= n + Len(back) THEN back[j - n] ELSE forth[j - n - Len(back)]

Got == IF reader[1] = "finish" THEN 1 ELSE 0
Coming == StreamLen(Got, answers[1], inbox[1])
ComingAt(j) == StreamAt(Got, read[1], answers[1], inbox[1], j)

\* They are those in waitingReqs and, if it has written and not queued its
\* request, the one in the hand of handWrite, which is lost when Close has
\* closed waitingReqs.
InStep ==
    /\ Len(waitingReqs) <= Coming
    /\ \A j \in 1 .. Len(waitingReqs) : ComingAt(j) = waitingReqs[j]
    /\ closing \in {"open", "draining"} =>
        /\ Coming = Len(waitingReqs) + IF writer = "push" THEN 1 ELSE 0
        /\ writer = "push" => ComingAt(Coming) = hand

\* Nothing has gone wrong in the network.
Intact == link[1] = "up" /\ faults = 0

\* The first connection is the only one as long as it lasts.
FirstConn ==
    /\ answers[1] \in Seq(Ids)
    /\ conn = 1 /\ writer # "redial"
    /\ reader[1] \in {"read", "finish"}
    /\ \A k \in Conns : k # 1 => reader[k] = "none"

Matching == Intact => FirstConn /\ InStep /\ \A i \in Ids : ~Mismatched(i)

\* Without a fault only Close takes the first connection away.
Steady == faults = 0 => link[1] = "up" \/ closing = "closed"

ClientInd == OnceInd /\ Matching /\ Steady

-----------------------------------------------------------------------------
(* Types, and the requests made                                            *)

LEMMA OnceInit == Init => OnceInd
<1> SUFFICES ASSUME Init PROVE OnceInd
  OBVIOUS
<1>1. TypeOK
  <2>1. panicked \in BOOLEAN
    BY DEF Init
  <2> QED BY <2>1, SizesAssumption, BoundsAssumption
          DEF Init, TypeOK, Goroutines, Ids, Conns, Replies, NoReply
<1>2. Numbered /\ Apart /\ HandApart /\ CallsApart
  BY DEF Init, Numbered, Apart, HandApart, CallsApart, Handed
<1>3. Unanswered
  BY DEF Init, Unanswered, Handed
<1> QED BY <1>1, <1>2, <1>3 DEF OnceInd

\* The steps of goroutines that call Send.
LEMMA TypeCalls ==
    ASSUME TypeOK, Numbered, NEW g \in Goroutines,
           Make(g) \/ Enqueue(g) \/ EnqueuePanics(g) \/ Return(g) \/ Timeout(g)
    PROVE  TypeOK'
<1> USE DEF TypeOK
<1>1. CASE Make(g)
  <2>1. made + 1 \in Ids
    BY <1>1, BoundsAssumption DEF Make, Ids
  <2> QED BY <1>1, <2>1 DEF Make, Ids, queues, writing, network, reading
<1>2. CASE Enqueue(g)
  <2>1. req[g] \in Ids
    BY <1>2, BoundsAssumption DEF Enqueue, Numbered, Ids
  <2>2. pendingReqs' \in Seq(Ids) /\ Len(pendingReqs') <= chanSize
    BY <1>2, <2>1, SizesAssumption DEF Enqueue
  <2> QED BY <1>2, <2>2 DEF Enqueue, writing, network, reading
<1>3. CASE EnqueuePanics(g)
  BY <1>3 DEF EnqueuePanics, calls, queues, writing, network, reading
<1>4. CASE Return(g) \/ Timeout(g)
  BY <1>4 DEF Return, Timeout, queues, writing, network, reading
<1> QED BY <1>1, <1>2, <1>3, <1>4

LEMMA TypeWriter ==
    ASSUME TypeOK, Numbered, handWrite
    PROVE  TypeOK'
<1> USE DEF TypeOK
<1>1. CASE TakeRequest
  <2>1. Head(pendingReqs) \in Ids /\ Tail(pendingReqs) \in Seq(Ids) /\ Len(Tail(pendingReqs)) <= chanSize
    BY <1>1, SizesAssumption DEF TakeRequest
  <2> QED BY <1>1, <2>1, SizesAssumption DEF TakeRequest, calls, network, reading
<1>2. CASE WriterEnds \/ WriteIsLost \/ WriteFails
  BY <1>2 DEF WriterEnds, WriteIsLost, WriteFails, calls, queues, network, reading
<1>3. CASE WriteReaches
  <2>1. hand \in Ids
    BY <1>3, BoundsAssumption DEF WriteReaches, Numbered, Handed, Ids
  <2>2. inbox' \in [Conns -> Seq(Ids)]
    BY <1>3, <2>1 DEF WriteReaches
  <2> QED BY <1>3, <2>2 DEF WriteReaches, calls, queues, reading
<1>4. CASE Redial
  <2>1. conn + 1 \in Conns /\ tries + 1 \in 0 .. Retries
    BY <1>4, SizesAssumption, BoundsAssumption DEF Redial, Conns
  <2>2. link' \in [Conns -> {"none", "up", "broken", "closed"}]
    BY <1>4, <2>1 DEF Redial
  <2> QED BY <1>4, <2>1, <2>2 DEF Redial, calls, queues
<1>5. CASE RedialFails
  BY <1>5, SizesAssumption DEF RedialFails, calls, queues, reading
<1>6. CASE GiveUp
  BY <1>6 DEF GiveUp, Replies, calls, queues, network, reading
<1>7. CASE Push
  <2>1. hand \in Ids
    BY <1>7, BoundsAssumption DEF Push, Numbered, Handed, Ids
  <2>2. waitingReqs' \in Seq(Ids) /\ Len(waitingReqs') <= chanSize
    BY <1>7, <2>1, SizesAssumption DEF Push
  <2> QED BY <1>7, <2>2 DEF Push, calls, network, reading
<1>8. CASE PushPanics
  BY <1>8 DEF PushPanics, calls, queues, writing, network, reading
<1> QED BY <1>1, <1>2, <1>3, <1>4, <1>5, <1>6, <1>7, <1>8 DEF handWrite

LEMMA TypeRead ==
    ASSUME TypeOK, NEW k \in Conns, handleRead(k)
    PROVE  TypeOK'
<1> USE DEF TypeOK
<1>1. CASE ReadReply(k)
  <2>1. Head(answers[k]) \in Payloads /\ Tail(answers[k]) \in Seq(Payloads)
    BY <1>1 DEF ReadReply
  <2>2. Head(answers[k]) \in Replies
    BY <1>1, <2>1 DEF ReadReply, Payloads, Replies
  <2> QED BY <1>1, <2>1, <2>2 DEF ReadReply, calls, queues, writing
<1>2. CASE ReadError(k) \/ ReadPoison(k)
  <2>1. answers' \in [Conns -> Seq(Payloads)]
    <3>1. <<>> \in Seq(Payloads)
      OBVIOUS
    <3> QED BY <1>2, <3>1 DEF ReadError, ReadPoison
  <2> QED BY <1>2, <2>1 DEF ReadError, ReadPoison, Replies, calls, queues, writing
<1>3. CASE finishRequest(k)
  <2>1. Head(waitingReqs) \in Ids /\ Tail(waitingReqs) \in Seq(Ids) /\ Len(Tail(waitingReqs)) <= chanSize
    BY <1>3, SizesAssumption DEF finishRequest
  <2>2. reply' \in [Ids -> Replies] /\ reader' \in [Conns -> {"none", "read", "finish", "last", "ended", "stuck"}]
        /\ read' \in [Conns -> Replies]
    BY <1>3, <2>1 DEF finishRequest, Goes, Replies
  <2> QED BY <1>3, <2>1, <2>2 DEF finishRequest, calls, writing, network
<1>4. CASE finishNothing(k)
  BY <1>4 DEF finishNothing, Goes, Replies, calls, queues, writing, network
<1> QED BY <1>1, <1>2, <1>3, <1>4 DEF handleRead

LEMMA TypePeer ==
    ASSUME TypeOK, NEW k \in Conns, Peer(k)
    PROVE  TypeOK'
<1> USE DEF TypeOK
<1>1. CASE Answer(k)
  <2>1. Head(inbox[k]) \in Ids /\ Tail(inbox[k]) \in Seq(Ids)
    BY <1>1 DEF Answer
  <2>2. Append(answers[k], Head(inbox[k])) \in Seq(Payloads)
    BY <2>1 DEF Payloads
  <2> QED BY <1>1, <2>1, <2>2 DEF Answer, calls, queues, writing, reading
<1>2. CASE Break(k)
  <2>1. PICK n \in 0 .. Len(answers[k]) : answers' = [answers EXCEPT ![k] = SubSeq(@, 1, n)]
    BY <1>2 DEF Break
  <2>2. SubSeq(answers[k], 1, n) \in Seq(Payloads)
    BY <2>1
  <2> QED BY <1>2, <2>1, <2>2, BoundsAssumption DEF Break, calls, queues, writing, reading
<1>3. CASE AnswerMisread(k)
  <2>1. Head(inbox[k]) \in Ids /\ Tail(inbox[k]) \in Seq(Ids)
    BY <1>3 DEF AnswerMisread
  <2>2. PICK payloads \in Misread(Head(inbox[k])) : answers' = [answers EXCEPT ![k] = @ \o payloads]
    BY <1>3 DEF AnswerMisread
  <2>3. payloads \in Seq(Payloads)
    <3>1. Head(inbox[k]) \in Payloads /\ Junk \in Payloads /\ Poison \in Payloads
      BY <2>1 DEF Payloads
    <3>2. PICK i \in Payloads : i = Head(inbox[k])
      BY <3>1
    <3>3. payloads \in {<<>>, <<Junk>>, <<i, Junk>>, <<Junk, Junk>>, <<Poison>>}
      BY <2>2, <3>2 DEF Misread
    <3>4. <<>> \in Seq(Payloads) /\ <<Junk>> \in Seq(Payloads) /\ <<Poison>> \in Seq(Payloads)
      BY <3>1
    <3>5. <<i, Junk>> \in Seq(Payloads) /\ <<Junk, Junk>> \in Seq(Payloads)
      BY <3>1
    <3> QED BY <3>3, <3>4, <3>5
  <2>4. answers[k] \o payloads \in Seq(Payloads)
    BY <2>3
  <2>5. answers' \in [Conns -> Seq(Payloads)]
    BY <2>2, <2>4
  <2>6. inbox' \in [Conns -> Seq(Ids)]
    BY <1>3, <2>1 DEF AnswerMisread
  <2> QED BY <1>3, <2>5, <2>6, BoundsAssumption DEF AnswerMisread, calls, queues, writing, reading
<1> QED BY <1>1, <1>2, <1>3 DEF Peer

LEMMA TypeNext ==
    ASSUME TypeOK, Numbered, [Next]_vars
    PROVE  TypeOK'
<1>1. CASE UNCHANGED vars
  BY <1>1 DEF vars, calls, queues, writing, network, reading, TypeOK
<1>2. CASE Close
  <2>1. CASE CloseConn
    <3>1. <<>> \in Seq(Ids)
      OBVIOUS
    <3>2. inbox' \in [Conns -> Seq(Ids)]
      BY <2>1, <3>1 DEF CloseConn, TypeOK
    <3> QED BY <2>1, <3>2 DEF CloseConn, calls, queues, writing, reading, TypeOK
  <2>2. CASE ClosePending \/ CloseWaiting
    BY <2>2 DEF ClosePending, CloseWaiting, calls, queues, writing, network, reading, TypeOK
  <2> QED BY <1>2, <2>1, <2>2 DEF Close
<1>3. CASE (\E c \in Callers : Send(c)) \/ doHeartbeat
  <2>1. \E g \in Goroutines : Make(g)
    BY <1>3 DEF Send, doHeartbeat, Goroutines
  <2> QED BY <2>1, TypeCalls
<1>4. ASSUME NEW g \in Goroutines, Call(g) PROVE TypeOK'
  BY <1>4, TypeCalls DEF Call
<1> QED BY <1>1, <1>2, <1>3, <1>4, TypeWriter, TypeRead, TypePeer DEF Next

-----------------------------------------------------------------------------
(* A request is in one place and completed once                            *)

\* Steps that move no request and complete none.
LEMMA OnceUnchanged ==
    ASSUME OnceInd, TypeOK', UNCHANGED <<calls, reply, queues, hand>>, Handed' => Handed
    PROVE  OnceInd'
<1>1. UNCHANGED <<pc, req, made, reply, pendingReqs, waitingReqs, hand>>
  BY DEF calls, queues
<1>2. Numbered' /\ Apart'
  BY <1>1 DEF OnceInd, Numbered, Apart
<1>3. HandApart' /\ CallsApart'
  BY <1>1 DEF OnceInd, HandApart, CallsApart
<1>4. Unanswered'
  BY <1>1 DEF OnceInd, Unanswered
<1> QED BY <1>2, <1>3, <1>4 DEF OnceInd

LEMMA OnceCalls ==
    ASSUME OnceInd, TypeOK', NEW g \in Goroutines,
           Make(g) \/ Enqueue(g) \/ EnqueuePanics(g) \/ Return(g) \/ Timeout(g)
    PROVE  OnceInd'
<1> USE DEF OnceInd
<1>0. made \in Nat /\ made' \in Nat
  BY BoundsAssumption DEF TypeOK
<1>1. CASE Make(g)
  <2>1. UNCHANGED <<reply, pendingReqs, waitingReqs, hand, writer>> /\ made' = made + 1
        /\ req' = [req EXCEPT ![g] = made + 1] /\ pc' = [pc EXCEPT ![g] = "send"]
    BY <1>1 DEF Make, queues, writing
  <2>6. pc'[g] = "send" /\ req'[g] = made + 1
        /\ \A h \in Goroutines : h # g => pc'[h] = pc[h] /\ req'[h] = req[h]
    BY <2>1 DEF TypeOK
  <2>7. \A i \in 1 .. made : i \in 1 .. made' /\ i # made + 1
    BY <1>0, <2>1
  <2>2. Numbered'
    BY <1>0, <2>1, <2>6, <2>7 DEF Numbered, Handed
  <2>3. Apart' /\ HandApart'
    BY <2>1 DEF Apart, HandApart, Handed
  <2>4. CallsApart'
    BY <2>1, <2>6, <2>7 DEF CallsApart, Handed, Numbered
  <2>5. Unanswered'
    <3>1. made + 1 \in Ids
      BY <1>1, BoundsAssumption DEF Make, TypeOK, Ids
    <3>2. \A i \in Ids : i > made' => i > made
      BY <1>0, <2>1 DEF Ids
    <3>3. made + 1 > made
      BY <1>0
    <3> QED BY <2>1, <2>6, <3>1, <3>2, <3>3 DEF Unanswered, Handed
  <2> QED BY <2>2, <2>3, <2>4, <2>5
<1>2. CASE Enqueue(g)
  <2>1. UNCHANGED <<reply, req, made, waitingReqs, hand, writer>> /\ pc[g] = "send"
        /\ pendingReqs' = Append(pendingReqs, req[g]) /\ pc' = [pc EXCEPT ![g] = "wait"]
    BY <1>2 DEF Enqueue, writing
  <2>2. req[g] \in 1 .. made /\ req[g] \in Ids /\ pendingReqs \in Seq(Ids)
    BY <2>1, BoundsAssumption DEF Numbered, TypeOK, Ids
  <2>3. Len(pendingReqs') = Len(pendingReqs) + 1
        /\ \A j \in 1 .. Len(pendingReqs') :
             pendingReqs'[j] = IF j = Len(pendingReqs) + 1 THEN req[g] ELSE pendingReqs[j]
    BY <2>1, <2>2
  <2>8. pc'[g] = "wait" /\ \A h \in Goroutines : h # g => pc'[h] = pc[h]
    BY <2>1 DEF TypeOK
  <2>9. \A j \in 1 .. Len(pendingReqs') : j = Len(pendingReqs) + 1 \/ j \in 1 .. Len(pendingReqs)
    BY <2>2, <2>3
  <2>4. Numbered'
    BY <2>1, <2>2, <2>3, <2>8, <2>9 DEF Numbered, Handed
  <2>5. Apart'
    BY <2>1, <2>3, <2>9 DEF Apart, CallsApart
  <2>6. HandApart' /\ CallsApart'
    BY <2>1, <2>3, <2>8, <2>9 DEF HandApart, CallsApart, Handed
  <2>7. Unanswered'
    BY <2>1, <2>3, <2>8, <2>9 DEF Unanswered, Handed
  <2> QED BY <2>4, <2>5, <2>6, <2>7
<1>3. CASE EnqueuePanics(g)
  BY <1>3, OnceUnchanged DEF EnqueuePanics, writing, Handed
<1>4. CASE Return(g) \/ Timeout(g)
  <2>1. UNCHANGED <<reply, made, pendingReqs, waitingReqs, hand, writer>>
        /\ req' = [req EXCEPT ![g] = 0] /\ pc' = [pc EXCEPT ![g] = "idle"]
    BY <1>4 DEF Return, Timeout, queues, writing
  <2>4. pc'[g] = "idle" /\ \A h \in Goroutines : h # g => pc'[h] = pc[h] /\ req'[h] = req[h]
    BY <2>1 DEF TypeOK
  <2>2. Numbered' /\ Apart' /\ HandApart'
    BY <2>1, <2>4 DEF Numbered, Apart, HandApart, Handed
  <2>3. CallsApart' /\ Unanswered'
    BY <2>1, <2>4 DEF CallsApart, Unanswered, Handed
  <2> QED BY <2>2, <2>3
<1> QED BY <1>1, <1>2, <1>3, <1>4

LEMMA OnceWriter ==
    ASSUME OnceInd, TypeOK', handWrite
    PROVE  OnceInd'
<1> USE DEF OnceInd
<1>1. CASE TakeRequest
  <2>1. UNCHANGED <<pc, req, made, reply, waitingReqs>> /\ ~Handed /\ Handed'
        /\ hand' = Head(pendingReqs) /\ pendingReqs' = Tail(pendingReqs)
    BY <1>1 DEF TakeRequest, calls, Handed
  <2>2. hand' = pendingReqs[1] /\ 1 \in 1 .. Len(pendingReqs)
        /\ Len(pendingReqs') = Len(pendingReqs) - 1
        /\ \A j \in 1 .. Len(pendingReqs') : j + 1 \in 1 .. Len(pendingReqs) /\ pendingReqs'[j] = pendingReqs[j + 1]
    BY <1>1, <2>1 DEF TakeRequest, TypeOK
  <2>3. Numbered'
    BY <2>1, <2>2 DEF Numbered
  <2>4. Apart' /\ HandApart'
    <3>1. \A j \in 1 .. Len(pendingReqs') : j \in Nat /\ j + 1 # 1
      BY DEF TypeOK
    <3>2. \A i, j \in 1 .. Len(pendingReqs') : i + 1 = j + 1 => i = j
      BY DEF TypeOK
    <3>3. \A i, j \in 1 .. Len(pendingReqs') : pendingReqs'[i] = pendingReqs'[j] => i = j
      BY <2>2, <3>2 DEF Apart
    <3>4. \A i \in 1 .. Len(pendingReqs') : pendingReqs'[i] # hand'
      BY <2>2, <3>1 DEF Apart
    <3>5. /\ \A i \in 1 .. Len(pendingReqs'), j \in 1 .. Len(waitingReqs) : pendingReqs'[i] # waitingReqs[j]
          /\ \A j \in 1 .. Len(waitingReqs) : hand' # waitingReqs[j]
      BY <2>2 DEF Apart
    <3>6. Apart'
      BY <2>1, <3>3, <3>5 DEF Apart
    <3>7. HandApart'
      BY <2>1, <3>4, <3>5 DEF HandApart
    <3> QED BY <3>6, <3>7
  <2>5. CallsApart'
    BY <2>1, <2>2 DEF CallsApart
  <2>6. Unanswered'
    BY <2>1, <2>2 DEF Unanswered
  <2> QED BY <2>3, <2>4, <2>5, <2>6
<1>2. CASE WriterEnds \/ WriteReaches \/ WriteIsLost \/ WriteFails \/ Redial \/ RedialFails \/ PushPanics
  <2>1. UNCHANGED <<calls, reply, queues, hand>> /\ (Handed' => Handed)
    BY <1>2 DEF WriterEnds, WriteReaches, WriteIsLost, WriteFails, Redial, RedialFails, PushPanics, writing, Handed
  <2> QED BY <2>1, OnceUnchanged
<1>3. CASE GiveUp
  <2>1. UNCHANGED <<pc, req, made, pendingReqs, waitingReqs, hand>> /\ Handed /\ ~Handed'
        /\ reply' = [reply EXCEPT ![hand] = Failed]
    BY <1>3 DEF GiveUp, calls, queues, Handed
  <2>2. \A i \in Ids : i # hand => reply'[i] = reply[i]
    BY <2>1 DEF TypeOK
  <2>3. Numbered' /\ Apart' /\ HandApart' /\ CallsApart'
    BY <2>1 DEF Numbered, Apart, HandApart, CallsApart
  <2>4. hand \in 1 .. made /\ \A i \in 1 .. made : i \in Ids
    BY <2>1, BoundsAssumption DEF Numbered, TypeOK, Ids
  <2>5. Unanswered'
    <3>1. \A j \in 1 .. Len(pendingReqs) : reply'[pendingReqs[j]] = NoReply
      BY <2>1, <2>2, <2>4 DEF Unanswered, HandApart, Numbered
    <3>2. \A j \in 1 .. Len(waitingReqs) : reply'[waitingReqs[j]] = NoReply
      BY <2>1, <2>2, <2>4 DEF Unanswered, HandApart, Numbered
    <3>3. \A g \in Goroutines : pc[g] = "send" => reply'[req[g]] = NoReply
      BY <2>1, <2>2, <2>4 DEF Unanswered, CallsApart, Numbered
    <3>4. \A i \in Ids : i > made => reply'[i] = NoReply
      BY <2>1, <2>2, <2>4, BoundsAssumption DEF Unanswered, TypeOK
    <3> QED BY <2>1, <3>1, <3>2, <3>3, <3>4 DEF Unanswered
  <2> QED BY <2>3, <2>5
<1>4. CASE Push
  <2>1. UNCHANGED <<pc, req, made, reply, pendingReqs, hand>> /\ Handed /\ ~Handed'
        /\ waitingReqs' = Append(waitingReqs, hand)
    BY <1>4 DEF Push, calls, Handed
  <2>2. hand \in Ids /\ hand \in 1 .. made /\ waitingReqs \in Seq(Ids)
    BY <2>1, BoundsAssumption DEF Numbered, TypeOK, Ids
  <2>3. Len(waitingReqs') = Len(waitingReqs) + 1
        /\ \A j \in 1 .. Len(waitingReqs') :
             waitingReqs'[j] = IF j = Len(waitingReqs) + 1 THEN hand ELSE waitingReqs[j]
    BY <2>1, <2>2
  <2>7. \A j \in 1 .. Len(waitingReqs') : j = Len(waitingReqs) + 1 \/ j \in 1 .. Len(waitingReqs)
    BY <2>2, <2>3
  <2>4. Numbered' /\ Unanswered'
    BY <2>1, <2>2, <2>3, <2>7 DEF Numbered, Unanswered
  <2>5. Apart' /\ HandApart'
    BY <2>1, <2>3, <2>7 DEF Apart, HandApart
  <2>6. CallsApart'
    BY <2>1, <2>3, <2>7 DEF CallsApart
  <2> QED BY <2>4, <2>5, <2>6
<1> QED BY <1>1, <1>2, <1>3, <1>4 DEF handWrite

\* The oldest request that waits, and the others.
LEMMA FinishFacts ==
    ASSUME TypeOK, NEW k \in Conns, finishRequest(k)
    PROVE  /\ Head(waitingReqs) = waitingReqs[1] /\ 1 \in 1 .. Len(waitingReqs)
           /\ waitingReqs[1] \in Ids
           /\ Len(waitingReqs') = Len(waitingReqs) - 1
           /\ \A j \in 1 .. Len(waitingReqs') :
                j + 1 \in 1 .. Len(waitingReqs) /\ waitingReqs'[j] = waitingReqs[j + 1] /\ j + 1 # 1
           /\ reply' = [reply EXCEPT ![waitingReqs[1]] = read[k]]
  BY DEF TypeOK, finishRequest

LEMMA OnceFinish ==
    ASSUME OnceInd, TypeOK', NEW k \in Conns, finishRequest(k)
    PROVE  OnceInd'
<1> USE DEF OnceInd
<1>0. /\ 1 \in 1 .. Len(waitingReqs) /\ waitingReqs[1] \in Ids
      /\ \A j \in 1 .. Len(waitingReqs') :
           j + 1 \in 1 .. Len(waitingReqs) /\ waitingReqs'[j] = waitingReqs[j + 1] /\ j + 1 # 1
      /\ reply' = [reply EXCEPT ![waitingReqs[1]] = read[k]]
  BY FinishFacts
<1>1. UNCHANGED <<pc, req, made, pendingReqs, hand, writer>>
  BY DEF finishRequest, calls, writing
<1>2. \A i \in Ids : i # waitingReqs[1] => reply'[i] = reply[i]
  BY <1>0 DEF TypeOK
<1>3. \A i \in 1 .. made : i \in Ids
  BY BoundsAssumption DEF TypeOK, Ids
<1>4. Numbered' /\ HandApart' /\ CallsApart'
  BY <1>1, <1>0 DEF Numbered, HandApart, CallsApart, Handed
<1>5. Apart'
  <2>1. \A i, j \in 1 .. Len(waitingReqs') : i + 1 = j + 1 => i = j
    BY DEF TypeOK
  <2> QED BY <1>1, <2>1, <1>0 DEF Apart
<1>6. Unanswered'
  <2>1. \A j \in 1 .. Len(pendingReqs) : reply'[pendingReqs[j]] = NoReply
    BY <1>2, <1>3, <1>0 DEF Unanswered, Apart, Numbered
  <2>2. \A j \in 1 .. Len(waitingReqs') : reply'[waitingReqs'[j]] = NoReply
    BY <1>2, <1>3, <1>0 DEF Unanswered, Apart, Numbered
  <2>3. \A g \in Goroutines : pc[g] = "send" => reply'[req[g]] = NoReply
    BY <1>2, <1>3, <1>0 DEF Unanswered, CallsApart, Numbered
  <2>4. Handed => reply'[hand] = NoReply
    BY <1>2, <1>3, <1>0 DEF Unanswered, HandApart, Numbered
  <2>5. \A i \in Ids : i > made => reply'[i] = NoReply
    <3>1. waitingReqs[1] \in 1 .. made /\ made \in Nat
      BY <1>0, BoundsAssumption DEF Numbered, TypeOK
    <3> QED BY <1>2, <3>1 DEF Unanswered, Ids
  <2> QED BY <1>1, <2>1, <2>2, <2>3, <2>4, <2>5 DEF Unanswered, Handed
<1> QED BY <1>4, <1>5, <1>6

LEMMA OnceNext ==
    ASSUME OnceInd, [Next]_vars
    PROVE  OnceInd'
<1>0. TypeOK'
  BY TypeNext DEF OnceInd
<1>1. CASE UNCHANGED vars
  BY <1>0, <1>1, OnceUnchanged DEF vars, writing, Handed
<1>2. CASE Close
  BY <1>0, <1>2, OnceUnchanged DEF Close, ClosePending, CloseWaiting, CloseConn, writing, Handed
<1>3. CASE (\E c \in Callers : Send(c)) \/ doHeartbeat
  <2>1. \E g \in Goroutines : Make(g)
    BY <1>3 DEF Send, doHeartbeat, Goroutines
  <2> QED BY <1>0, <2>1, OnceCalls
<1>4. ASSUME NEW g \in Goroutines, Call(g) PROVE OnceInd'
  BY <1>0, <1>4, OnceCalls DEF Call
<1>5. ASSUME NEW k \in Conns, handleRead(k) \/ Peer(k) PROVE OnceInd'
  <2>1. CASE finishRequest(k)
    BY <1>0, <2>1, OnceFinish
  <2>2. CASE ReadReply(k) \/ ReadPoison(k) \/ ReadError(k) \/ finishNothing(k) \/ Peer(k)
    <3>1. UNCHANGED <<calls, reply, queues, writing>>
      BY <2>2 DEF ReadReply, ReadPoison, ReadError, finishNothing, Peer, Answer, AnswerMisread, Break
    <3> QED BY <1>0, <3>1, OnceUnchanged DEF writing, Handed
  <2> QED BY <1>5, <2>1, <2>2 DEF handleRead
<1> QED BY <1>0, <1>1, <1>2, <1>3, <1>4, <1>5, OnceWriter DEF Next

LEMMA OnceIndHolds == Spec => []OnceInd
  BY OnceInit, OnceNext, PTL DEF Spec

\* A step changes the reply of a request only from none.
LEMMA OnceStep ==
    ASSUME OnceInd, [Next]_vars, NEW i \in Ids, reply[i] # NoReply
    PROVE  reply'[i] = reply[i]
<1> USE DEF OnceInd
<1>1. CASE UNCHANGED reply
  BY <1>1
<1>2. CASE GiveUp
  BY <1>2 DEF GiveUp, Handed, Unanswered, TypeOK
<1>3. ASSUME NEW k \in Conns, finishRequest(k) PROVE reply'[i] = reply[i]
  BY <1>3, FinishFacts, ZenonT(60) DEF Unanswered, TypeOK
<1> QED BY <1>1, <1>2, <1>3
        DEF Next, vars, Send, doHeartbeat, Make, Call, Enqueue, EnqueuePanics, Return, Timeout,
            handWrite, TakeRequest, WriterEnds, WriteReaches, WriteIsLost, WriteFails, Redial,
            RedialFails, Push, PushPanics, handleRead, ReadReply, ReadPoison, ReadError, finishNothing,
            Peer, Answer, AnswerMisread, Break, Close, ClosePending, CloseWaiting, CloseConn

\* req.waiting.Done() is called at most once for each request: by doRequest
\* when it gives up, or by the finishRequest of any connection.
THEOREM CompletesOnce == Spec => CompletedOnce
<1>1. OnceInd /\ [Next]_vars => [\A i \in Ids : reply[i] # NoReply => reply'[i] = reply[i]]_vars
  BY OnceStep
<1> QED BY <1>1, OnceIndHolds, PTL DEF Spec, CompletedOnce

-----------------------------------------------------------------------------
(* A reply goes to its own request while the first connection lasts        *)

LEMMA One == 1 \in Conns
  BY BoundsAssumption DEF Conns

\* A connection that is not up does not come up again, a new one has a new
\* number, and faults are counted.
LEMMA StaysDown ==
    ASSUME TypeOK, [Next]_vars
    PROVE  Intact' => Intact
<1> USE One DEF TypeOK
<1>0. faults \in Nat /\ faults + 1 # 0
  BY BoundsAssumption
<1>1. CASE UNCHANGED <<link, faults>>
  BY <1>1 DEF Intact
<1>2. CASE Redial
  <2>1. conn + 1 # 1
    BY <1>2 DEF Conns
  <2> QED BY <1>2, <2>1 DEF Redial, Intact
<1>3. CASE RedialFails \/ CloseConn
  BY <1>3 DEF RedialFails, CloseConn, Intact
<1>4. ASSUME NEW k \in Conns, Break(k) \/ AnswerMisread(k) PROVE ~Intact'
  BY <1>0, <1>4 DEF Break, AnswerMisread, Intact
<1> QED BY <1>1, <1>2, <1>3, <1>4
        DEF Next, vars, network, Send, doHeartbeat, Make, Call, Enqueue, EnqueuePanics, Return, Timeout,
            handWrite, TakeRequest, WriterEnds, WriteReaches, WriteIsLost, WriteFails,
            GiveUp, Push, PushPanics, handleRead, ReadReply, ReadPoison, ReadError, finishRequest, finishNothing,
            Peer, Answer, Close, ClosePending, CloseWaiting

LEMMA MatchingInit == Init => Matching
<1> SUFFICES ASSUME Init PROVE FirstConn /\ InStep /\ \A i \in Ids : ~Mismatched(i)
  BY DEF Matching
<1>1. FirstConn
  BY One DEF Init, FirstConn
<1>4. Len(waitingReqs) = 0 /\ Coming = 0 /\ writer # "push"
  BY One DEF Init, Coming, Got, StreamLen
<1>2. InStep
  BY <1>4 DEF InStep
<1>3. \A i \in Ids : ~Mismatched(i)
  BY DEF Init, Mismatched, NoReply, Ids
<1> QED BY <1>1, <1>2, <1>3

\* A stream that grows at its far end, one whose first reply is read, one
\* that loses it, and one in which the peer answers a request.
LEMMA StreamNat ==
    ASSUME NEW n \in {0, 1}, NEW a \in Seq(Ids), NEW b \in Seq(Ids)
    PROVE  StreamLen(n, a, b) \in Nat
  BY DEF StreamLen

LEMMA StreamGrows ==
    ASSUME NEW n \in {0, 1}, NEW r, NEW a \in Seq(Ids), NEW b \in Seq(Ids), NEW x \in Ids
    PROVE  /\ StreamLen(n, a, Append(b, x)) = StreamLen(n, a, b) + 1
           /\ \A j \in 1 .. StreamLen(n, a, b) : StreamAt(n, r, a, Append(b, x), j) = StreamAt(n, r, a, b, j)
           /\ StreamAt(n, r, a, Append(b, x), StreamLen(n, a, b) + 1) = x
  BY DEF StreamLen, StreamAt

LEMMA StreamRead ==
    ASSUME NEW r, NEW a \in Seq(Ids), NEW b \in Seq(Ids), a # <<>>
    PROVE  /\ StreamLen(1, Tail(a), b) = StreamLen(0, a, b)
           /\ \A j \in 1 .. StreamLen(0, a, b) : StreamAt(1, Head(a), Tail(a), b, j) = StreamAt(0, r, a, b, j)
  BY DEF StreamLen, StreamAt

LEMMA StreamTail ==
    ASSUME NEW r, NEW s, NEW a \in Seq(Ids), NEW b \in Seq(Ids)
    PROVE  /\ StreamLen(0, a, b) = StreamLen(1, a, b) - 1
           /\ \A j \in 1 .. StreamLen(0, a, b) : StreamAt(0, s, a, b, j) = StreamAt(1, r, a, b, j + 1)
           /\ StreamAt(1, r, a, b, 1) = r
  BY DEF StreamLen, StreamAt

LEMMA StreamAnswered ==
    ASSUME NEW n \in {0, 1}, NEW r, NEW a \in Seq(Ids), NEW b \in Seq(Ids), b # <<>>
    PROVE  /\ StreamLen(n, Append(a, Head(b)), Tail(b)) = StreamLen(n, a, b)
           /\ \A j \in 1 .. StreamLen(n, a, b) :
                StreamAt(n, r, Append(a, Head(b)), Tail(b), j) = StreamAt(n, r, a, b, j)
<1>1. Len(Tail(b)) = Len(b) - 1 /\ Len(Append(a, Head(b))) = Len(a) + 1 /\ Len(b) >= 1
      /\ Len(a) \in Nat /\ Len(b) \in Nat
  OBVIOUS
<1>2. \A j \in 1 .. Len(b) - 1 : Tail(b)[j] = b[j + 1]
  OBVIOUS
<1>3. \A j \in 1 .. Len(a) : Append(a, Head(b))[j] = a[j]
  OBVIOUS
<1>4. Append(a, Head(b))[Len(a) + 1] = b[1]
  OBVIOUS
<1>5. StreamLen(n, Append(a, Head(b)), Tail(b)) = StreamLen(n, a, b)
  BY <1>1 DEF StreamLen
<1>6. ASSUME NEW j \in 1 .. StreamLen(n, a, b)
      PROVE  StreamAt(n, r, Append(a, Head(b)), Tail(b), j) = StreamAt(n, r, a, b, j)
  <2>0. j \in Int /\ 1 <= j /\ j <= n + Len(a) + Len(b)
    BY <1>1 DEF StreamLen
  <2>1. CASE j <= n + Len(a)
    BY <1>1, <1>3, <2>0, <2>1 DEF StreamAt
  <2>2. CASE j = n + Len(a) + 1
    BY <1>1, <1>4, <2>0, <2>2 DEF StreamAt
  <2>3. CASE j > n + Len(a) + 1
    <3>1. j - n - (Len(a) + 1) \in 1 .. Len(b) - 1 /\ j - n - (Len(a) + 1) + 1 = j - n - Len(a)
      BY <1>1, <2>0, <2>3
    <3> QED BY <1>1, <1>2, <2>0, <2>3, <3>1 DEF StreamAt
  <2> QED BY <1>1, <2>0, <2>1, <2>2, <2>3
<1> QED BY <1>5, <1>6

LEMMA ComingTypes ==
    ASSUME TypeOK, FirstConn
    PROVE  /\ Got \in {0, 1} /\ Coming \in Nat
           /\ inbox[1] \in Seq(Ids) /\ answers[1] \in Seq(Ids) /\ waitingReqs \in Seq(Ids)
           /\ Len(waitingReqs) \in Nat
<1>1. inbox[1] \in Seq(Ids) /\ answers[1] \in Seq(Ids) /\ waitingReqs \in Seq(Ids)
  BY One DEF TypeOK, FirstConn
<1>2. Got \in {0, 1}
  BY DEF Got
<1>3. Coming \in Nat
  BY <1>1, <1>2, StreamNat DEF Coming
<1> QED BY <1>1, <1>2, <1>3

\* What InStep depends on, but for the order in which Close closes.
LEMMA InStepUnchanged ==
    ASSUME InStep, UNCHANGED <<waitingReqs, reader, read, answers, inbox>>,
           writer' = "push" => writer = "push" /\ hand' = hand,
           writer = "push" => writer' = "push",
           closing' \in {"open", "draining"} => closing \in {"open", "draining"}
    PROVE  InStep'
<1>1. Got' = Got /\ Coming' = Coming
  BY DEF Got, Coming
<1>2. \A j : ComingAt(j)' = ComingAt(j)
  BY <1>1 DEF ComingAt
<1> QED BY <1>1, <1>2 DEF InStep

\* The steps of callers, of Close and of the peers of other connections.
LEMMA MatchingUnchanged ==
    ASSUME Matching, TypeOK, [Next]_vars,
           UNCHANGED <<waitingReqs, reader, read, answers, inbox, reply, conn>>,
           writer' = "push" => writer = "push" /\ hand' = hand,
           writer = "push" => writer' = "push",
           writer' = "redial" => ~Intact' \/ writer = "redial",
           closing' \in {"open", "draining"} => closing \in {"open", "draining"}
    PROVE  Matching'
<1> SUFFICES ASSUME Intact' PROVE (FirstConn /\ InStep /\ \A i \in Ids : ~Mismatched(i))'
  BY DEF Matching
<1>1. FirstConn /\ InStep /\ \A i \in Ids : ~Mismatched(i)
  BY StaysDown DEF Matching
<1>2. InStep'
  BY <1>1, InStepUnchanged
<1>3. FirstConn'
  BY <1>1 DEF FirstConn
<1>4. (\A i \in Ids : ~Mismatched(i))'
  BY <1>1 DEF Mismatched
<1> QED BY <1>2, <1>3, <1>4

LEMMA MatchingWriter ==
    ASSUME OnceInd, Matching, [Next]_vars, handWrite
    PROVE  Matching'
<1> USE DEF OnceInd
<1>0. TypeOK' /\ 1 \in Conns
  BY TypeNext, One
<1>1. CASE TakeRequest
  BY <1>1, MatchingUnchanged DEF TakeRequest, network, reading
<1>2. CASE WriterEnds \/ PushPanics
  BY <1>2, MatchingUnchanged DEF WriterEnds, PushPanics, queues, network, reading, writing
<1> SUFFICES ASSUME Intact', ~TakeRequest, ~WriterEnds, ~PushPanics
             PROVE  (FirstConn /\ InStep /\ \A i \in Ids : ~Mismatched(i))'
  BY <1>1, <1>2 DEF Matching
<1>3. Intact /\ FirstConn /\ InStep /\ \A i \in Ids : ~Mismatched(i)
  BY StaysDown DEF Matching
<1>4. CASE WriteReaches
  <2>1. /\ UNCHANGED <<reply, waitingReqs, hand, conn, reader, read, answers, closing>>
        /\ writer = "write" /\ writer' = "push" /\ inbox' = [inbox EXCEPT ![1] = Append(@, hand)]
    BY <1>3, <1>4 DEF WriteReaches, calls, queues, reading, FirstConn
  <2>2. hand \in Ids /\ inbox[1] \in Seq(Ids) /\ answers[1] \in Seq(Ids)
    BY <2>1, <1>3, BoundsAssumption, ComingTypes DEF TypeOK, Numbered, Handed, Ids
  <2>3. inbox'[1] = Append(inbox[1], hand) /\ Got' = Got
    BY <1>0, <2>1 DEF TypeOK, Got
  <2>4. Coming' = Coming + 1
    <3>1. Got \in {0, 1}
      BY <1>3, ComingTypes
    <3>2. StreamLen(Got, answers[1], Append(inbox[1], hand)) = StreamLen(Got, answers[1], inbox[1]) + 1
      BY <2>2, <3>1, StreamGrows
    <3> QED BY <2>1, <2>3, <3>2 DEF Coming
  <2>5. \A j \in 1 .. Coming : ComingAt(j)' = ComingAt(j)
    BY <2>1, <2>2, <2>3, <1>3, ComingTypes, StreamGrows DEF ComingAt, Coming
  <2>6. ComingAt(Coming)' = hand
    BY <2>1, <2>2, <2>3, <2>4, <1>3, ComingTypes, StreamGrows DEF ComingAt, Coming
  <2>9. Coming \in Nat /\ Len(waitingReqs) \in Nat
    BY <1>3, ComingTypes
  <2>7. InStep'
    BY <1>3, <2>1, <2>4, <2>5, <2>6, <2>9 DEF InStep
  <2>8. FirstConn' /\ (\A i \in Ids : ~Mismatched(i))'
    BY <1>3, <2>1 DEF FirstConn, Mismatched
  <2> QED BY <2>7, <2>8
<1>5. CASE WriteIsLost \/ WriteFails \/ Redial \/ RedialFails \/ GiveUp
  BY <1>0, <1>3, <1>5 DEF WriteIsLost, WriteFails, Redial, RedialFails, GiveUp, FirstConn, Intact
<1>6. CASE Push
  <2>1. /\ UNCHANGED <<reply, hand, conn, reader, read, answers, inbox, closing>>
        /\ writer = "push" /\ writer' = "idle" /\ waitingReqs' = Append(waitingReqs, hand)
        /\ closing \in {"open", "draining"}
    BY <1>6 DEF Push, calls, network, reading
  <2>2. hand \in Ids /\ waitingReqs \in Seq(Ids)
    BY <2>1, BoundsAssumption DEF TypeOK, Numbered, Handed, Ids
  <2>3. Len(waitingReqs') = Len(waitingReqs) + 1 /\ Len(waitingReqs) \in Nat
        /\ \A j \in 1 .. Len(waitingReqs') :
             waitingReqs'[j] = IF j = Len(waitingReqs) + 1 THEN hand ELSE waitingReqs[j]
    BY <2>1, <2>2
  <2>4. Got' = Got /\ Coming' = Coming /\ \A j : ComingAt(j)' = ComingAt(j)
    BY <2>1 DEF Got, Coming, ComingAt
  <2>5. InStep'
    BY <1>3, <2>1, <2>3, <2>4 DEF InStep
  <2>6. FirstConn' /\ (\A i \in Ids : ~Mismatched(i))'
    BY <1>3, <2>1 DEF FirstConn, Mismatched
  <2> QED BY <2>5, <2>6
<1> QED BY <1>4, <1>5, <1>6 DEF handWrite

LEMMA MatchingConn ==
    ASSUME OnceInd, Matching, [Next]_vars, NEW k \in Conns, handleRead(k) \/ Peer(k)
    PROVE  Matching'
<1> USE DEF OnceInd
<1>0. TypeOK' /\ 1 \in Conns
  BY TypeNext, One
<1> SUFFICES ASSUME Intact'
             PROVE  (FirstConn /\ InStep /\ \A i \in Ids : ~Mismatched(i))'
  BY DEF Matching
<1>3. Intact /\ FirstConn /\ InStep /\ \A i \in Ids : ~Mismatched(i)
  BY StaysDown DEF Matching
<1>5. inbox[1] \in Seq(Ids) /\ answers[1] \in Seq(Ids) /\ waitingReqs \in Seq(Ids)
  BY <1>3, ComingTypes
<1>6. Len(waitingReqs) \in Nat /\ Got \in {0, 1} /\ Coming \in Nat
  BY <1>3, ComingTypes
<1>1. CASE k # 1
  <2>1. CASE Peer(k)
    <3>1. UNCHANGED <<reply, queues, writing, reading, closing>> /\ inbox'[1] = inbox[1] /\ answers'[1] = answers[1]
      <4>1. CASE Answer(k)
        BY <1>0, <1>1, <4>1 DEF Answer, TypeOK
      <4>2. CASE Break(k)
        BY <1>0, <1>1, <4>2 DEF Break, TypeOK
      <4>3. CASE AnswerMisread(k)
        BY <1>0, <1>1, <4>3 DEF AnswerMisread, TypeOK
      <4> QED BY <2>1, <4>1, <4>2, <4>3 DEF Peer
    <3>2. Got' = Got /\ Coming' = Coming /\ \A j : ComingAt(j)' = ComingAt(j)
      BY <3>1 DEF Got, Coming, ComingAt, reading
    <3>3. InStep'
      BY <1>3, <3>1, <3>2 DEF InStep, queues, writing
    <3>4. FirstConn' /\ (\A i \in Ids : ~Mismatched(i))'
      BY <1>3, <3>1 DEF FirstConn, Mismatched, reading, writing
    <3> QED BY <3>3, <3>4
  <2>2. CASE handleRead(k)
    BY <1>1, <1>3, <2>2 DEF FirstConn, handleRead, ReadReply, ReadPoison, ReadError, finishRequest, finishNothing
  <2> QED BY <2>1, <2>2
<1>2. CASE k = 1
  <2>1. CASE ReadReply(1)
    <3>1. /\ UNCHANGED <<reply, waitingReqs, writer, hand, conn, inbox, closing>>
          /\ reader[1] = "read" /\ reader' = [reader EXCEPT ![1] = "finish"] /\ answers[1] # <<>>
          /\ read'[1] = Head(answers[1]) /\ answers'[1] = Tail(answers[1])
      BY <1>0, <2>1 DEF ReadReply, TypeOK, queues, writing
    <3>2. Got = 0 /\ Got' = 1
      BY <1>0, <3>1 DEF Got, TypeOK
    <3>3. Coming' = Coming
      BY <1>5, <3>1, <3>2, StreamRead DEF Coming
    <3>4. \A j \in 1 .. Coming : ComingAt(j)' = ComingAt(j)
      BY <1>5, <3>1, <3>2, StreamRead DEF ComingAt, Coming
    <3>5. InStep'
      BY <1>3, <1>6, <3>1, <3>3, <3>4 DEF InStep
    <3>6. FirstConn' /\ (\A i \in Ids : ~Mismatched(i))'
      BY <1>3, <3>1 DEF FirstConn, Mismatched, TypeOK
    <3> QED BY <3>5, <3>6
  <2>2. CASE ReadError(1)
    BY <1>3, <2>2 DEF ReadError, Intact
  <2>7. CASE ReadPoison(1)
    <3>1. Head(answers[1]) \in Ids
      BY <1>5, <2>7 DEF ReadPoison
    <3> QED BY <2>7, <3>1, BoundsAssumption DEF ReadPoison, Poison, Ids
  <2>3. CASE finishRequest(1)
    <3>1. /\ UNCHANGED <<writer, hand, conn, inbox, answers, closing>>
          /\ reader[1] = "finish" /\ reader' = [reader EXCEPT ![1] = "read"]
          /\ waitingReqs # <<>> /\ waitingReqs' = Tail(waitingReqs)
          /\ reply' = [reply EXCEPT ![Head(waitingReqs)] = read[1]]
      BY <1>0, <1>3, <2>3 DEF finishRequest, Goes, TypeOK, FirstConn, writing, network
    <3>2. /\ Head(waitingReqs) = waitingReqs[1] /\ Len(waitingReqs) >= 1 /\ Len(waitingReqs') = Len(waitingReqs) - 1
          /\ \A j \in 1 .. Len(waitingReqs') : waitingReqs'[j] = waitingReqs[j + 1]
      BY <1>5, <3>1
    <3>9. Got = 1 /\ Got' = 0
      BY <1>0, <3>1 DEF Got, TypeOK
    <3>3. Coming' = Coming - 1
      BY <1>5, <3>1, <3>9, StreamTail DEF Coming
    <3>4. \A j \in 1 .. Coming - 1 : ComingAt(j)' = ComingAt(j + 1)
      BY <1>5, <3>1, <3>9, StreamTail DEF ComingAt, Coming
    <3>5. InStep'
      <4>1. Len(waitingReqs') <= Coming'
        BY <1>3, <1>6, <3>2, <3>3 DEF InStep
      <4>2. \A j \in 1 .. Len(waitingReqs') : ComingAt(j)' = waitingReqs'[j]
        <5> SUFFICES ASSUME NEW j \in 1 .. Len(waitingReqs') PROVE ComingAt(j)' = waitingReqs'[j]
          OBVIOUS
        <5>1. j + 1 \in 1 .. Len(waitingReqs) /\ j \in 1 .. Coming - 1
          BY <1>3, <1>6, <3>2 DEF InStep
        <5> QED BY <1>3, <3>2, <3>4, <5>1 DEF InStep
      <4>3. closing' \in {"open", "draining"} =>
              /\ Coming' = Len(waitingReqs') + IF writer' = "push" THEN 1 ELSE 0
              /\ writer' = "push" => ComingAt(Coming)' = hand'
        <5> SUFFICES ASSUME closing \in {"open", "draining"}
                     PROVE  /\ Coming' = Len(waitingReqs') + IF writer = "push" THEN 1 ELSE 0
                            /\ writer = "push" => ComingAt(Coming)' = hand
          BY <3>1
        <5>1. Coming = Len(waitingReqs) + IF writer = "push" THEN 1 ELSE 0
          BY <1>3 DEF InStep
        <5>2. writer = "push" => Coming - 1 \in 1 .. Coming - 1 /\ (Coming - 1) + 1 = Coming
          BY <1>6, <3>2, <5>1
        <5>3. writer = "push" => ComingAt(Coming)' = ComingAt(Coming)
          <6>1. \A n \in 1 .. Coming - 1 : Coming' = n => ComingAt(Coming)' = ComingAt(n + 1)
            BY <3>4
          <6> QED BY <3>3, <5>2, <6>1
        <5>4. Coming' = Len(waitingReqs') + IF writer = "push" THEN 1 ELSE 0
          BY <1>6, <3>2, <3>3, <5>1
        <5> QED BY <1>3, <5>3, <5>4 DEF InStep
      <4> QED BY <4>1, <4>2, <4>3 DEF InStep
    <3>6. read[1] = waitingReqs[1]
      <4>1. ComingAt(1) = read[1]
        BY <1>5, <3>9, StreamTail DEF ComingAt
      <4>2. 1 \in 1 .. Len(waitingReqs)
        BY <1>6, <3>2
      <4> QED BY <1>3, <4>1, <4>2 DEF InStep
    <3>7. (\A i \in Ids : ~Mismatched(i))'
      BY <1>3, <3>1, <3>2, <3>6 DEF Mismatched, TypeOK
    <3>8. FirstConn'
      BY <1>3, <3>1 DEF FirstConn, TypeOK
    <3> QED BY <3>5, <3>7, <3>8
  <2>4. CASE finishNothing(1)
    <3>1. /\ UNCHANGED <<reply, waitingReqs, writer, hand, conn, inbox, answers, closing>>
          /\ reader[1] = "finish" /\ reader' = [reader EXCEPT ![1] = "read"]
          /\ waitingReqs = <<>> /\ closing \notin {"open", "draining"}
      BY <1>0, <1>3, <2>4 DEF finishNothing, Goes, TypeOK, FirstConn, writing, network, queues
    <3>2. Len(waitingReqs) = 0 /\ Coming' \in Nat
      <4>1. Got' \in {0, 1}
        BY DEF Got
      <4> QED BY <1>5, <3>1, <4>1, StreamNat DEF Coming
    <3>3. InStep'
      BY <3>1, <3>2 DEF InStep
    <3>4. FirstConn' /\ (\A i \in Ids : ~Mismatched(i))'
      BY <1>3, <3>1 DEF FirstConn, Mismatched, TypeOK
    <3> QED BY <3>3, <3>4
  <2>5. CASE Answer(1)
    <3>1. /\ UNCHANGED <<reply, waitingReqs, writer, hand, conn, reader, read, closing>>
          /\ inbox[1] # <<>> /\ answers'[1] = Append(answers[1], Head(inbox[1])) /\ inbox'[1] = Tail(inbox[1])
      BY <1>0, <2>5 DEF Answer, TypeOK, queues, writing, reading
    <3>2. Got' = Got
      BY <3>1 DEF Got
    <3>4. Coming' = Coming
      BY <1>5, <1>6, <3>1, <3>2, StreamAnswered, ZenonT(60) DEF Coming
    <3>5. \A j \in 1 .. Coming : ComingAt(j)' = ComingAt(j)
      BY <1>5, <1>6, <3>1, <3>2, StreamAnswered DEF ComingAt, Coming
    <3>6. InStep'
      BY <1>3, <1>6, <3>1, <3>4, <3>5 DEF InStep
    <3>7. FirstConn' /\ (\A i \in Ids : ~Mismatched(i))'
      BY <1>3, <3>1 DEF FirstConn, Mismatched, TypeOK
    <3> QED BY <3>6, <3>7
  <2>6. CASE Break(1) \/ AnswerMisread(1)
    <3>1. faults \in Nat /\ faults + 1 # 0
      BY BoundsAssumption DEF TypeOK
    <3> QED BY <2>6, <3>1 DEF Break, AnswerMisread, Intact
  <2> QED BY <1>2, <2>1, <2>2, <2>3, <2>4, <2>5, <2>6, <2>7 DEF handleRead, Peer
<1> QED BY <1>1, <1>2

\* Only Close, a new connection and a break change the state of a connection.
LEMMA SteadyNext ==
    ASSUME OnceInd, Matching, Steady, [Next]_vars
    PROVE  Steady'
<1> USE One DEF OnceInd, TypeOK
<1>0. faults \in Nat /\ faults + 1 # 0
  BY BoundsAssumption
<1>1. CASE UNCHANGED <<link, faults>> /\ (closing = "closed" => closing' = "closed")
  BY <1>1 DEF Steady
<1>2. CASE Redial \/ RedialFails
  <2>1. ~Intact
    BY <1>2 DEF Redial, RedialFails, Matching, FirstConn
  <2>2. faults' = faults /\ closing' = closing
    BY <1>2 DEF Redial, RedialFails
  <2> QED BY <2>1, <2>2 DEF Intact, Steady
<1>3. CASE CloseConn
  BY <1>3 DEF CloseConn, Steady
<1>4. ASSUME NEW k \in Conns, Break(k) \/ AnswerMisread(k) PROVE Steady'
  BY <1>0, <1>4 DEF Break, AnswerMisread, Steady
<1> QED BY <1>1, <1>2, <1>3, <1>4
        DEF Next, vars, network, Send, doHeartbeat, Make, Call, Enqueue, EnqueuePanics, Return, Timeout,
            handWrite, TakeRequest, WriterEnds, WriteReaches, WriteIsLost, WriteFails,
            GiveUp, Push, PushPanics, handleRead, ReadReply, ReadPoison, ReadError, finishRequest, finishNothing,
            Peer, Answer, Close, ClosePending, CloseWaiting

LEMMA IndNext ==
    ASSUME ClientInd, [Next]_vars
    PROVE  ClientInd'
<1>0. OnceInd' /\ Steady' /\ OnceInd /\ TypeOK /\ Matching
  BY OnceNext, SteadyNext DEF ClientInd, OnceInd
<1> SUFFICES Matching'
  BY <1>0 DEF ClientInd
<1>1. CASE UNCHANGED vars
  BY <1>0, <1>1, MatchingUnchanged DEF vars, queues, writing, network, reading
<1>2. CASE ClosePending \/ CloseWaiting
  BY <1>0, <1>2, MatchingUnchanged DEF ClosePending, CloseWaiting, queues, writing, network, reading
<1>7. CASE CloseConn
  <2>1. Intact => conn = 1
    BY <1>0 DEF Matching, FirstConn
  <2>2. ~Intact'
    <3>1. Intact' => Intact
      BY <1>0, StaysDown
    <3>2. link' = [link EXCEPT ![conn] = "closed"]
      BY <1>7 DEF CloseConn
    <3> QED BY <1>0, <2>1, <3>1, <3>2, One DEF Intact, TypeOK
  <2> QED BY <2>2 DEF Matching
<1>3. CASE \E g \in Goroutines : Make(g) \/ Call(g)
  BY <1>0, <1>3, MatchingUnchanged
     DEF Make, Call, Enqueue, EnqueuePanics, Return, Timeout, queues, writing, network, reading
<1>4. CASE (\E c \in Callers : Send(c)) \/ doHeartbeat
  <2>1. \E g \in Goroutines : Make(g)
    BY <1>4 DEF Send, doHeartbeat, Goroutines
  <2> QED BY <1>3, <2>1
<1>5. CASE handWrite
  BY <1>0, <1>5, MatchingWriter
<1>6. ASSUME NEW k \in Conns, handleRead(k) \/ Peer(k) PROVE Matching'
  BY <1>0, <1>6, MatchingConn
<1> QED BY <1>1, <1>2, <1>3, <1>4, <1>5, <1>6, <1>7 DEF Next, Close

LEMMA IndHolds == Spec => []ClientInd
<1>1. Init => ClientInd
  BY OnceInit, MatchingInit, One DEF ClientInd, Steady, Init
<1> QED BY <1>1, IndNext, PTL DEF Spec

\* Without a fault a reply is on its way to every request that waits, so that
\* the reader makes room.
LEMMA NeverClogged ==
    ASSUME ClientInd
    PROVE  ClogsOnlyByFault
<1> SUFFICES ASSUME Clogged, faults = 0 PROVE FALSE
  BY BoundsAssumption DEF ClientInd, OnceInd, TypeOK, ClogsOnlyByFault
<1>1. FirstConn /\ InStep
  BY DEF ClientInd, Clogged, Steady, Matching, Intact
<1>2. inbox[1] \in Seq(Ids) /\ answers[1] \in Seq(Ids) /\ Len(waitingReqs) \in Nat
  BY <1>1, ComingTypes DEF ClientInd, OnceInd
<1>3. Coming = Len(waitingReqs) + 1
  BY <1>1 DEF InStep, Clogged
<1>4. Got = 0 /\ answers[1] = <<>> /\ inbox[1] = <<>>
  BY <1>1, One DEF Clogged, WillFinish, FirstConn, Got
<1>5. Coming = 0
  BY <1>4 DEF Coming, StreamLen
<1> QED BY <1>2, <1>3, <1>5

\* The queues keep to their capacity and, as long as the first connection
\* lasts and every reply is read back, no request is given the reply of another
\* and the client does not clog: for any number of callers and requests,
\* whichever of them have timed out.
THEOREM ClientCorrect == Spec => []ClientInv
<1>1. ClientInd => TypeOK /\ RepliesMatchUntilFault
  BY DEF ClientInd, OnceInd, Matching, Intact, RepliesMatchUntilFault
<1> QED BY <1>1, NeverClogged, IndHolds, PTL DEF ClientInv
=============================================================================
