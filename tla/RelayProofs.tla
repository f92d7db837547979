---------------------------- MODULE RelayProofs -----------------------------
(***************************************************************************)
(* Proofs about the relays between the nodes of a cluster, for any nodes,  *)
(* databases, requests and size of the pools: whatever times out or        *)
(* breaks, a command on a key is executed once, in the right database.     *)
(***************************************************************************)
EXTENDS Relay, SequenceTheorems, TLAPS

Holding == {"borrowed", "selected", "wait"}

Messages == [select : {TRUE}, arg : DBs] \cup [select : {FALSE}, arg : Frames]

FrameType == [at : {"unborn", "next", "done"} \cup Holding, node : NodeSet, cmd : {"key", "flush"},
              db : DBs, todo : Seq(NodeSet), slot : Slots \cup {<<>>}, root : Frames \cup {NoFrame},
              want : DBs]

Types ==
    /\ made \in 0 .. MaxFrames /\ requests \in 0 .. MaxRequests /\ breaks \in 0 .. MaxBreaks
    /\ frame \in [Frames -> FrameType]
    /\ user \in [Slots -> Frames \cup {NoFrame}]
    /\ inbox \in [Slots -> Seq(Messages)]
    /\ session \in [Slots -> DBs]
    /\ serving = [s \in Slots |-> serving[s]]

-----------------------------------------------------------------------------
(* The parts of the invariant                                              *)

\* A frame descends from the request of a client, with its command, and runs
\* in the database the client has selected or, after a break, in database 0.
Descends(f) ==
    LET r == frame[f].root IN
    /\ r \in 1 .. f /\ frame[r].root = r
    /\ frame[f].cmd = frame[r].cmd
    /\ frame[f].db # frame[f].want => frame[f].db = 0 /\ breaks > 0

\* A frame that relays has borrowed a connection to the node it relays to.
Lent(f) ==
    frame[f].at \in Holding =>
        /\ frame[f].slot \in Slots /\ user[frame[f].slot] = f
        /\ frame[f].todo # <<>>
        /\ frame[f].slot[1] = frame[f].node /\ frame[f].slot[2] = Head(frame[f].todo)

Lender(s) ==
    user[s] # NoFrame => frame[user[s]].at \in Holding /\ frame[user[s]].slot = s

\* Database x is what a relay for frame f may find selected.
Fitting(x, f) == x = frame[f].db \/ (x = 0 /\ breaks > 0)

\* Right before a command in a connection there is the SELECT that was sent
\* for it, unless that has been served or lost.
Prepared(s) ==
    \A i \in 1 .. Len(inbox[s]) : ~inbox[s][i].select =>
        LET f == inbox[s][i].arg IN
        /\ f \in 1 .. made
        /\ IF i = 1 THEN Fitting(session[s], f)
                    ELSE inbox[s][i - 1].select /\ inbox[s][i - 1].arg = frame[f].db

\* The same for the command that is sent next.
Ready(f) ==
    frame[f].at = "selected" =>
        LET s == frame[f].slot
            n == Len(inbox[s]) IN
        IF n = 0 THEN Fitting(session[s], f)
                 ELSE inbox[s][n].select /\ inbox[s][n].arg = frame[f].db

\* A command on a key goes to one node; the node that serves it keeps it.
OneTarget(f) ==
    frame[f].cmd = "key" =>
        \E n \in NodeSet : /\ frame[f].todo \in {<<n>>, <<>>}
                           /\ frame[f].root # f => n = frame[f].node

Sent(f) == frame[f].at = "wait" \/ frame[f].todo = <<>>

\* Frame f executes on another node what frame r has relayed.
Served(f, r) == f \in 1 .. made /\ frame[f].root = r /\ f # r

\* Message i of connection s is the command of frame f.
Carries(s, i, f) == i \in 1 .. Len(inbox[s]) /\ ~inbox[s][i].select /\ inbox[s][i].arg = f

IsKey(r) == frame[r].cmd = "key"

\* What is relayed for a command on a key is relayed by the first frame, once:
\* it is in a connection or it is served by another node.
RelayedOnce ==
    /\ \A r \in 1 .. made, s \in Slots, i \in Nat : IsKey(r) /\ Carries(s, i, r) =>
           frame[r].root = r /\ Sent(r) /\ s[1] = frame[r].node
    /\ \A r \in 1 .. made, s \in Slots, i \in Nat, f \in 1 .. made :
           IsKey(r) /\ Carries(s, i, r) => ~Served(f, r)
    /\ \A r \in 1 .. made, s \in Slots, i \in Nat, t \in Slots, j \in Nat :
           IsKey(r) /\ Carries(s, i, r) /\ Carries(t, j, r) => t = s /\ j = i
    /\ \A r \in 1 .. made, f \in 1 .. made : IsKey(r) /\ Served(f, r) =>
           Sent(r) /\ frame[f].node # frame[r].node
    /\ \A r \in 1 .. made, f \in 1 .. made, g \in 1 .. made :
           IsKey(r) /\ Served(f, r) /\ Served(g, r) => f = g

Living == \A f \in Frames : frame[f].at = "unborn" <=> f > made

RelayInd ==
    /\ Types /\ Living
    /\ \A f \in 1 .. made : Descends(f) /\ OneTarget(f)
    /\ \A f \in Frames : Lent(f) /\ Ready(f)
    /\ \A s \in Slots : Lender(s) /\ Prepared(s)
    /\ RelayedOnce

-----------------------------------------------------------------------------
(* What a step does to the frames                                          *)

\* The fields of a frame that no step changes.
Same(x) ==
    /\ frame'[x].node = frame[x].node /\ frame'[x].cmd = frame[x].cmd /\ frame'[x].db = frame[x].db
    /\ frame'[x].root = frame[x].root /\ frame'[x].want = frame[x].want

Others(f) == \A x \in Frames : x # f => frame'[x] = frame[x]

LEMMA AdvanceFacts ==
    ASSUME Types, NEW f \in Frames, NEW a \in {"next", "done"} \cup Holding, frame' = Advance(f, a)
    PROVE  /\ frame' \in [Frames -> FrameType] /\ Others(f) /\ \A x \in Frames : Same(x)
           /\ frame'[f].at = a /\ frame'[f].todo = frame[f].todo /\ frame'[f].slot = frame[f].slot
<1>1. frame \in [Frames -> FrameType]
  BY DEF Types
<1> QED BY <1>1 DEF Advance, Others, Same, FrameType

LEMMA RelayedFacts ==
    ASSUME Types, NEW f \in Frames, frame[f].todo # <<>>, frame' = Relayed(f)
    PROVE  /\ frame' \in [Frames -> FrameType] /\ Others(f) /\ \A x \in Frames : Same(x)
           /\ frame'[f].at = "next" /\ frame'[f].todo = Tail(frame[f].todo)
<1>1. frame \in [Frames -> FrameType]
  BY DEF Types
<1>2. Tail(frame[f].todo) \in Seq(NodeSet)
  BY <1>1 DEF FrameType
<1> QED BY <1>1, <1>2, SMTT(30) DEF Relayed, Others, Same, FrameType

LEMMA BorrowFacts ==
    ASSUME Types, NEW f \in Frames, NEW s \in Slots,
           frame' = [frame EXCEPT ![f].at = "borrowed", ![f].slot = s]
    PROVE  /\ frame' \in [Frames -> FrameType] /\ Others(f) /\ \A x \in Frames : Same(x)
           /\ frame'[f].at = "borrowed" /\ frame'[f].todo = frame[f].todo /\ frame'[f].slot = s
<1>1. frame \in [Frames -> FrameType]
  BY DEF Types
<1> QED BY <1>1, ZenonT(60) DEF Others, Same, FrameType, Holding

LEMMA BeginFacts ==
    ASSUME Types, NEW n \in NodeSet, NEW cmd \in {"key", "flush"}, NEW db \in DBs,
           NEW todo \in Seq(NodeSet), NEW root \in Frames, NEW want \in DBs,
           Begin(made + 1, n, cmd, db, todo, root, want)
    PROVE  LET f == made + 1 IN
           /\ f \in Frames /\ made \in Nat /\ made' = f /\ made' \in 0 .. MaxFrames
           /\ frame' \in [Frames -> FrameType] /\ Others(f)
           /\ frame'[f].at = "next" /\ frame'[f].node = n /\ frame'[f].cmd = cmd
           /\ frame'[f].db = db /\ frame'[f].todo = todo /\ frame'[f].root = root
           /\ frame'[f].want = want
<1> DEFINE rec == [at |-> "next", node |-> n, cmd |-> cmd, db |-> db, todo |-> todo,
                   slot |-> <<>>, root |-> root, want |-> want]
<1>1. frame \in [Frames -> FrameType] /\ made \in 0 .. MaxFrames
  BY DEF Types
<1>2. made < MaxFrames /\ made' = made + 1 /\ frame' = [frame EXCEPT ![made + 1] = rec]
  BY DEF Begin
<1>3. made + 1 \in Frames /\ made \in Nat /\ made' \in 0 .. MaxFrames
  BY <1>1, <1>2, BoundsAssumption DEF Frames
<1>4. rec \in FrameType
  BY DEF FrameType
<1>5. rec.at = "next" /\ rec.node = n /\ rec.cmd = cmd /\ rec.db = db /\ rec.todo = todo
      /\ rec.root = root /\ rec.want = want
  OBVIOUS
<1> HIDE DEF rec
<1>6. frame'[made + 1] = rec /\ frame' \in [Frames -> FrameType] /\ Others(made + 1)
  BY <1>1, <1>2, <1>3, <1>4 DEF Others
<1> QED BY <1>2, <1>3, <1>5, <1>6

-----------------------------------------------------------------------------
(* The parts of the invariant, one by one                                  *)

\* Time passes: frames stay what they are, and breaks are not forgotten.
Later ==
    /\ made \in Nat /\ made' \in Nat /\ made <= made'
    /\ breaks \in Nat /\ breaks' \in Nat /\ breaks <= breaks'
    /\ \A x \in 1 .. made : Same(x)

LEMMA DescendsStays ==
    ASSUME Later, NEW f \in 1 .. made, Descends(f)
    PROVE  Descends(f)'
<1>1. frame[f].root \in 1 .. made
  BY DEF Descends, Later
<1>2. Same(f) /\ Same(frame[f].root)
  BY <1>1 DEF Later
<1>3. breaks > 0 => breaks' > 0
  BY DEF Later
<1> QED BY <1>2, <1>3 DEF Descends, Same

LEMMA FittingStays ==
    ASSUME Later, NEW f \in 1 .. made, NEW x, Fitting(x, f)
    PROVE  x = frame'[f].db \/ (x = 0 /\ breaks' > 0)
<1>1. Same(f) /\ (breaks > 0 => breaks' > 0)
  BY DEF Later
<1> QED BY <1>1 DEF Fitting, Same

LEMMA OneTargetStays ==
    ASSUME NEW f, OneTarget(f), Same(f), frame'[f].todo = frame[f].todo
    PROVE  OneTarget(f)'
  BY DEF OneTarget, Same

LEMMA OneTargetRelayed ==
    ASSUME NEW f, OneTarget(f), Same(f), frame[f].todo # <<>>, frame'[f].todo = Tail(frame[f].todo)
    PROVE  /\ OneTarget(f)'
           /\ frame[f].cmd = "key" => frame'[f].todo = <<>>
<1>1. \A n : Tail(<<n>>) = <<>>
  OBVIOUS
<1>2. frame[f].cmd = "key" => frame'[f].todo = <<>>
  BY <1>1 DEF OneTarget
<1> QED BY <1>2 DEF OneTarget, Same

\* The messages of a connection from one state to the next.
LEMMA PreparedStays ==
    ASSUME Later, NEW s, Prepared(s), inbox'[s] = inbox[s], session'[s] = session[s]
    PROVE  Prepared(s)'
<1> SUFFICES ASSUME NEW i \in 1 .. Len(inbox[s]), ~inbox[s][i].select
             PROVE  LET f == inbox[s][i].arg IN
                    /\ f \in 1 .. made'
                    /\ IF i = 1 THEN session[s] = frame'[f].db \/ (session[s] = 0 /\ breaks' > 0)
                       ELSE inbox[s][i - 1].select /\ inbox[s][i - 1].arg = frame'[f].db
  BY DEF Prepared, Fitting
<1> DEFINE f == inbox[s][i].arg
<1>1. /\ f \in 1 .. made
      /\ IF i = 1 THEN Fitting(session[s], f)
         ELSE inbox[s][i - 1].select /\ inbox[s][i - 1].arg = frame[f].db
  BY DEF Prepared
<1> HIDE DEF f
<1>2. f \in 1 .. made' /\ frame'[f].db = frame[f].db
  BY <1>1 DEF Later, Same
<1>3. CASE i = 1
  BY <1>1, <1>2, <1>3, FittingStays DEF f
<1>4. CASE i # 1
  BY <1>1, <1>2, <1>4 DEF f
<1> QED BY <1>3, <1>4

LEMMA PreparedServed ==
    ASSUME Later, NEW s, Prepared(s), inbox[s] \in Seq(Messages), inbox[s] # <<>>,
           inbox'[s] = Tail(inbox[s]),
           session'[s] = IF Head(inbox[s]).select THEN Head(inbox[s]).arg ELSE session[s]
    PROVE  Prepared(s)'
<1> DEFINE b == inbox[s]
           t == Tail(inbox[s])
<1>1. /\ Len(b) \in Nat /\ Len(t) = Len(b) - 1 /\ Head(b) = b[1]
      /\ \A i \in 1 .. Len(t) : t[i] = b[i + 1]
  <2>1. Len(b) # 0
    OBVIOUS
  <2> QED BY <2>1, HeadTailProperties
<1> HIDE DEF t
<1> SUFFICES ASSUME NEW i \in 1 .. Len(t), ~t[i].select
             PROVE  LET f == t[i].arg IN
                    /\ f \in 1 .. made'
                    /\ IF i = 1 THEN session'[s] = frame'[f].db \/ (session'[s] = 0 /\ breaks' > 0)
                       ELSE t[i - 1].select /\ t[i - 1].arg = frame'[f].db
  BY DEF Prepared, Fitting, t
<1> DEFINE f == b[i + 1].arg
<1>2. i + 1 \in 1 .. Len(b) /\ i + 1 # 1 /\ (i + 1) - 1 = i /\ t[i] = b[i + 1]
  BY <1>1
<1>3. f \in 1 .. made /\ b[i].select /\ b[i].arg = frame[f].db
  <2>1. ~b[i + 1].select
    BY <1>2
  <2> QED BY <1>2, <2>1 DEF Prepared
<1> HIDE DEF f
<1>4. f \in 1 .. made' /\ frame'[f].db = frame[f].db
  BY <1>3 DEF Later, Same
<1>5. CASE i = 1
  BY <1>1, <1>2, <1>3, <1>4, <1>5 DEF f
<1>6. CASE i # 1
  <2>1. i \in Int /\ i >= 1 /\ i <= Len(t) /\ Len(t) \in Int
    BY <1>1
  <2>2. i - 1 \in 1 .. Len(t) /\ (i - 1) + 1 = i
    BY <2>1, <1>6
  <2>3. t[i - 1] = b[(i - 1) + 1]
    BY <1>1, <2>2
  <2>4. t[i - 1] = b[i]
    BY <2>2, <2>3
  <2> QED BY <1>2, <1>3, <1>4, <1>6, <2>4 DEF f
<1> QED BY <1>5, <1>6

\* Message m is sent: a SELECT, or a command that is ready.
LEMMA PreparedSent ==
    ASSUME Later, NEW s, Prepared(s), inbox[s] \in Seq(Messages), NEW m,
           inbox'[s] = Append(inbox[s], m), session'[s] = session[s],
           ~m.select =>
               /\ m.arg \in 1 .. made
               /\ IF Len(inbox[s]) = 0 THEN Fitting(session[s], m.arg)
                  ELSE /\ inbox[s][Len(inbox[s])].select
                       /\ inbox[s][Len(inbox[s])].arg = frame[m.arg].db
    PROVE  Prepared(s)'
<1> DEFINE b == inbox[s]
           t == Append(inbox[s], m)
           n == Len(inbox[s])
<1>1. /\ n \in Nat /\ Len(t) = n + 1 /\ t[n + 1] = m
      /\ \A i \in 1 .. n : t[i] = b[i]
  OBVIOUS
<1> HIDE DEF t
<1> SUFFICES ASSUME NEW i \in 1 .. Len(t), ~t[i].select
             PROVE  LET f == t[i].arg IN
                    /\ f \in 1 .. made'
                    /\ IF i = 1 THEN session[s] = frame'[f].db \/ (session[s] = 0 /\ breaks' > 0)
                       ELSE t[i - 1].select /\ t[i - 1].arg = frame'[f].db
  BY DEF Prepared, Fitting, t
<1> DEFINE f == t[i].arg
<1>2. /\ f \in 1 .. made
      /\ IF i = 1 THEN Fitting(session[s], f)
         ELSE b[i - 1].select /\ b[i - 1].arg = frame[f].db
  <2>1. CASE i = n + 1
    <3>1. t[i] = m /\ i - 1 = n /\ (i = 1 <=> n = 0)
      BY <1>1, <2>1
    <3> QED BY <3>1
  <2>2. CASE i # n + 1
    <3>1. i \in 1 .. n /\ t[i] = b[i]
      BY <1>1, <2>2
    <3> QED BY <3>1 DEF Prepared
  <2> QED BY <2>1, <2>2
<1> HIDE DEF f
<1>3. f \in 1 .. made' /\ frame'[f].db = frame[f].db
  BY <1>2 DEF Later, Same
<1>4. CASE i = 1
  BY <1>2, <1>3, <1>4, FittingStays DEF f
<1>5. CASE i # 1
  <2>1. i - 1 \in 1 .. n
    BY <1>1, <1>5
  <2> QED BY <1>1, <1>2, <1>3, <1>5, <2>1 DEF f
<1> QED BY <1>4, <1>5
-----------------------------------------------------------------------------
(* The command that is sent next, from one state to the next               *)

LEMMA ReadyStays ==
    ASSUME Later, NEW f \in 1 .. made, Ready(f),
           frame'[f].at = "selected" => frame[f].at = "selected" /\ frame'[f].slot = frame[f].slot,
           inbox'[frame[f].slot] = inbox[frame[f].slot], session'[frame[f].slot] = session[frame[f].slot]
    PROVE  Ready(f)'
<1> SUFFICES ASSUME frame'[f].at = "selected"
             PROVE  Ready(f)'
  BY DEF Ready
<1> DEFINE s == frame[f].slot
           n == Len(inbox[s])
<1>1. IF n = 0 THEN Fitting(session[s], f)
               ELSE inbox[s][n].select /\ inbox[s][n].arg = frame[f].db
  BY DEF Ready
<1>2. frame'[f].slot = s /\ inbox'[s] = inbox[s] /\ session'[s] = session[s]
  OBVIOUS
<1>3. frame'[f].db = frame[f].db
  BY DEF Later, Same
<1> HIDE DEF s
<1>4. CASE n = 0
  <2>1. session[s] = frame'[f].db \/ (session[s] = 0 /\ breaks' > 0)
    BY <1>1, <1>4, FittingStays
  <2> QED BY <1>2, <1>4, <2>1 DEF Ready, Fitting
<1>5. CASE n # 0
  BY <1>1, <1>2, <1>3, <1>5 DEF Ready
<1> QED BY <1>4, <1>5

\* The peer takes the first message, which is not a command if it is the last.
LEMMA ReadyServed ==
    ASSUME Later, NEW f \in 1 .. made, Ready(f), frame'[f] = frame[f], NEW s, s = frame[f].slot,
           inbox[s] \in Seq(Messages), inbox[s] # <<>>, inbox'[s] = Tail(inbox[s]),
           session'[s] = IF Head(inbox[s]).select THEN Head(inbox[s]).arg ELSE session[s]
    PROVE  Ready(f)'
<1> SUFFICES ASSUME frame[f].at = "selected"
             PROVE  Ready(f)'
  BY DEF Ready
<1> DEFINE n == Len(inbox[s])
           t == Tail(inbox[s])
<1>1. /\ n \in Nat /\ n # 0 /\ Len(t) = n - 1 /\ Head(inbox[s]) = inbox[s][1]
      /\ \A i \in 1 .. Len(t) : t[i] = inbox[s][i + 1]
  <2>1. Len(inbox[s]) # 0
    OBVIOUS
  <2> QED BY <2>1, HeadTailProperties
<1>2. inbox[s][n].select /\ inbox[s][n].arg = frame[f].db
  BY <1>1 DEF Ready
<1> HIDE DEF t, n
<1>3. CASE n = 1
  <2>1. Len(t) = 0 /\ session'[s] = frame'[f].db
    BY <1>1, <1>2, <1>3
  <2> QED BY <2>1 DEF Ready, Fitting, t
<1>4. CASE n # 1
  <2>1. Len(t) # 0 /\ n - 1 \in 1 .. Len(t) /\ (n - 1) + 1 = n
    BY <1>1, <1>4
  <2>2. t[n - 1] = inbox[s][(n - 1) + 1]
    BY <1>1, <2>1
  <2>3. t[Len(t)] = inbox[s][n]
    BY <1>1, <2>1, <2>2
  <2> QED BY <1>2, <2>1, <2>3 DEF Ready, t
<1> QED BY <1>3, <1>4

LEMMA ReadyLost ==
    ASSUME NEW f, frame'[f] = frame[f], NEW s, s = frame[f].slot, inbox'[s] = <<>>,
           session'[s] = 0, breaks' > 0
    PROVE  Ready(f)'
  BY DEF Ready, Fitting

LEMMA ReadySelect ==
    ASSUME NEW f, frame'[f].slot = frame[f].slot, frame'[f].db = frame[f].db,
           inbox[frame[f].slot] \in Seq(Messages),
           inbox'[frame[f].slot] = Append(inbox[frame[f].slot], [select |-> TRUE, arg |-> frame[f].db])
    PROVE  Ready(f)'
<1> DEFINE b == inbox[frame[f].slot]
           m == [select |-> TRUE, arg |-> frame[f].db]
           t == Append(b, m)
<1>1. Len(b) \in Nat /\ Len(t) = Len(b) + 1 /\ t[Len(b) + 1] = m
  OBVIOUS
<1>2. m.select /\ m.arg = frame[f].db
  OBVIOUS
<1> HIDE DEF m
<1>3. Len(t) # 0 /\ t[Len(t)] = m
  BY <1>1
<1> HIDE DEF t
<1> QED BY <1>2, <1>3 DEF Ready, t, m

-----------------------------------------------------------------------------
(* A frame moves                                                           *)

\* What a step may do to a frame there is.
Moves(x) ==
    /\ Same(x)
    /\ frame'[x].at = "unborn" <=> frame[x].at = "unborn"
    /\ \/ frame'[x].todo = frame[x].todo /\ (frame[x].at = "wait" => frame'[x].at = "wait")
       \/ frame[x].todo # <<>> /\ frame'[x].todo = Tail(frame[x].todo)

LEMMA FramesMove ==
    ASSUME RelayInd, made' = made, breaks' \in 0 .. MaxBreaks, breaks <= breaks',
           \A x \in Frames : Moves(x)
    PROVE  /\ Later /\ Living' /\ 1 .. made \subseteq Frames
           /\ \A x \in 1 .. made' : Descends(x)' /\ OneTarget(x)'
           /\ \A x \in 1 .. made : IsKey(x) /\ Sent(x) => Sent(x)'
<1>1. made \in 0 .. MaxFrames /\ breaks \in 0 .. MaxBreaks
  BY DEF RelayInd, Types
<1>2. 1 .. made \subseteq Frames
  BY <1>1, BoundsAssumption DEF Frames
<1>3. Later
  BY <1>1, <1>2, BoundsAssumption DEF Later, Moves
<1>4. Living'
  BY DEF RelayInd, Living, Moves
<1>5. ASSUME NEW x \in 1 .. made
      PROVE  Descends(x)' /\ OneTarget(x)' /\ (IsKey(x) /\ Sent(x) => Sent(x)')
  <2>1. Descends(x) /\ OneTarget(x) /\ Moves(x) /\ Same(x)
    BY <1>2 DEF RelayInd, Moves
  <2>2. Descends(x)'
    BY <1>3, <2>1, DescendsStays
  <2>3. CASE frame'[x].todo = frame[x].todo /\ (frame[x].at = "wait" => frame'[x].at = "wait")
    <3>1. OneTarget(x)'
      BY <2>1, <2>3, OneTargetStays
    <3> QED BY <2>2, <2>3, <3>1 DEF Sent
  <2>4. CASE frame[x].todo # <<>> /\ frame'[x].todo = Tail(frame[x].todo)
    <3>1. OneTarget(x)' /\ (frame[x].cmd = "key" => frame'[x].todo = <<>>)
      BY <2>1, <2>4, OneTargetRelayed
    <3> QED BY <2>2, <3>1 DEF Sent, IsKey
  <2> QED BY <2>1, <2>3, <2>4 DEF Moves
<1> QED BY <1>2, <1>3, <1>4, <1>5

\* Nothing is sent: message i of a connection was message i, or i + 1.
LEMMA OnceStays ==
    ASSUME RelayInd, made' = made, breaks' \in 0 .. MaxBreaks, breaks <= breaks',
           \A x \in Frames : Moves(x), NEW sh \in [Slots -> Nat],
           \A s \in Slots, i \in Nat, r \in 1 .. made : Carries(s, i, r)' => Carries(s, i + sh[s], r)
    PROVE  RelayedOnce'
<1>1. /\ 1 .. made \subseteq Frames
      /\ \A x \in 1 .. made : IsKey(x) /\ Sent(x) => Sent(x)'
  BY FramesMove
<1>2. \A x \in 1 .. made : /\ IsKey(x)' = IsKey(x) /\ frame'[x].root = frame[x].root
                           /\ frame'[x].node = frame[x].node
  BY <1>1 DEF Moves, Same, IsKey
<1>3. \A x, y \in 1 .. made : Served(x, y)' => Served(x, y)
  BY <1>2 DEF Served
<1>4. \A s \in Slots, i \in Nat : i + sh[s] \in Nat
  OBVIOUS
<1>5. RelayedOnce
  BY DEF RelayInd
<1>6. ASSUME NEW r \in 1 .. made, NEW s \in Slots, NEW i \in Nat, IsKey(r), Carries(s, i, r)'
      PROVE  /\ frame'[r].root = r /\ Sent(r)' /\ s[1] = frame'[r].node
             /\ \A f \in 1 .. made : ~Served(f, r)'
             /\ \A t \in Slots, j \in Nat : Carries(t, j, r)' => t = s /\ j = i
  <2>1. Carries(s, i + sh[s], r) /\ i + sh[s] \in Nat
    BY <1>4, <1>6
  <2>2. frame[r].root = r /\ Sent(r) /\ s[1] = frame[r].node
    BY <1>5, <1>6, <2>1 DEF RelayedOnce
  <2>3. \A f \in 1 .. made : ~Served(f, r)
    BY <1>5, <1>6, <2>1 DEF RelayedOnce
  <2>4. ASSUME NEW t \in Slots, NEW j \in Nat, Carries(t, j, r)'
        PROVE  t = s /\ j = i
    <3>1. Carries(t, j + sh[t], r) /\ j + sh[t] \in Nat
      BY <1>4, <2>4
    <3>2. t = s /\ j + sh[t] = i + sh[s]
      BY <1>5, <1>6, <2>1, <3>1 DEF RelayedOnce
    <3> QED BY <3>2
  <2> QED BY <1>1, <1>2, <1>3, <1>6, <2>2, <2>3, <2>4
<1>7. ASSUME NEW r \in 1 .. made, NEW f \in 1 .. made, IsKey(r), Served(f, r)'
      PROVE  /\ Sent(r)' /\ frame'[f].node # frame'[r].node
             /\ \A g \in 1 .. made : Served(g, r)' => f = g
  <2>1. Served(f, r)
    BY <1>3, <1>7
  <2>2. Sent(r) /\ frame[f].node # frame[r].node
    BY <1>5, <1>7, <2>1 DEF RelayedOnce
  <2>3. \A g \in 1 .. made : Served(g, r) => f = g
    BY <1>5, <1>7, <2>1 DEF RelayedOnce
  <2> QED BY <1>1, <1>2, <1>3, <1>7, <2>2, <2>3
<1>8. \A r \in 1 .. made : IsKey(r)' => IsKey(r)
  BY <1>2
<1> QED BY <1>6, <1>7, <1>8 DEF RelayedOnce
-----------------------------------------------------------------------------
(* The actions, one by one                                                 *)

LEMMA Alive ==
    ASSUME RelayInd, NEW x \in Frames, frame[x].at # "unborn"
    PROVE  x \in 1 .. made
<1>1. ~(x > made) /\ made \in 0 .. MaxFrames
  BY DEF RelayInd, Living, Types
<1> QED BY <1>1, BoundsAssumption DEF Frames

LEMMA OneHolder ==
    ASSUME RelayInd, NEW f \in Frames, NEW g \in Frames, frame[f].at \in Holding,
           frame[g].at \in Holding, frame[f].slot = frame[g].slot
    PROVE  f = g
  BY DEF RelayInd, Lent

\* A frame that a step leaves alone, with the connection it holds.
LEMMA ReadyQuiet ==
    ASSUME RelayInd, Later, NEW x \in Frames, frame'[x] = frame[x],
           frame[x].at = "selected" =>
               /\ inbox'[frame[x].slot] = inbox[frame[x].slot]
               /\ session'[frame[x].slot] = session[frame[x].slot]
    PROVE  Ready(x)'
<1>1. CASE frame[x].at # "selected"
  BY <1>1 DEF Ready
<1>2. CASE frame[x].at = "selected"
  <2>1. x \in 1 .. made /\ Ready(x)
    BY <1>2, Alive DEF RelayInd
  <2> QED BY <1>2, <2>1, ReadyStays
<1> QED BY <1>1, <1>2

\* Nothing is in the connections that was not.
LEMMA OnceQuiet ==
    ASSUME RelayInd, made' = made, breaks' = breaks, \A x \in Frames : Moves(x),
           \A s \in Slots, i \in Nat, r \in 1 .. made : Carries(s, i, r)' => Carries(s, i, r)
    PROVE  RelayedOnce'
<1> DEFINE sh == [s \in Slots |-> 0]
<1>1. sh \in [Slots -> Nat]
  OBVIOUS
<1>2. breaks' \in 0 .. MaxBreaks /\ breaks <= breaks'
  BY BoundsAssumption DEF RelayInd, Types
<1>3. \A s \in Slots, i \in Nat : i + sh[s] = i
  OBVIOUS
<1> HIDE DEF sh
<1>4. \A s \in Slots, i \in Nat, r \in 1 .. made : Carries(s, i, r)' => Carries(s, i + sh[s], r)
  BY <1>3
<1> QED BY <1>1, <1>2, <1>4, OnceStays

\* The messages behind the first move up by one.
LEMMA CarriesTail ==
    ASSUME NEW s, NEW i \in Nat, NEW r, inbox[s] \in Seq(Messages), inbox[s] # <<>>,
           inbox'[s] = Tail(inbox[s]), Carries(s, i, r)'
    PROVE  Carries(s, i + 1, r)
<1> DEFINE t == Tail(inbox[s])
<1>1. /\ Len(inbox[s]) \in Nat /\ Len(t) = Len(inbox[s]) - 1
      /\ \A j \in 1 .. Len(t) : t[j] = inbox[s][j + 1]
  <2>1. Len(inbox[s]) # 0
    OBVIOUS
  <2> QED BY <2>1, HeadTailProperties
<1>2. i \in 1 .. Len(t) /\ ~t[i].select /\ t[i].arg = r
  BY DEF Carries
<1> HIDE DEF t
<1>3. t[i] = inbox[s][i + 1] /\ i + 1 \in 1 .. Len(inbox[s])
  BY <1>1, <1>2
<1> QED BY <1>2, <1>3 DEF Carries

\* A relay that needs no connection, or gets none.
LEMMA ExecHereStep ==
    ASSUME RelayInd, NEW f \in Frames, ExecHere(f) \/ BorrowFails(f)
    PROVE  RelayInd'
<1>1. /\ frame[f].at = "next" /\ frame[f].todo # <<>> /\ frame' = Relayed(f)
      /\ made' = made /\ requests' = requests /\ breaks' = breaks
      /\ user' = user /\ inbox' = inbox /\ session' = session /\ serving' = serving
  BY DEF ExecHere, BorrowFails, conns
<1>2. Types
  BY DEF RelayInd
<1>3. /\ frame' \in [Frames -> FrameType] /\ Others(f) /\ \A x \in Frames : Same(x)
      /\ frame'[f].at = "next" /\ frame'[f].todo = Tail(frame[f].todo)
  BY <1>1, <1>2, RelayedFacts
<1>4. \A x \in Frames : Moves(x)
  BY <1>1, <1>3 DEF Moves, Others
<1>5. Types'
  BY <1>1, <1>2, <1>3 DEF Types
<1>6. breaks' \in 0 .. MaxBreaks /\ breaks <= breaks'
  BY <1>1, <1>2, BoundsAssumption DEF Types
<1>7. Later /\ Living' /\ \A x \in 1 .. made' : Descends(x)' /\ OneTarget(x)'
  BY <1>1, <1>4, <1>6, FramesMove
<1>8. ASSUME NEW x \in Frames
      PROVE  Lent(x)' /\ Ready(x)'
  <2>1. CASE x = f
    BY <1>3, <2>1 DEF Lent, Ready, Holding
  <2>2. CASE x # f
    <3>1. frame'[x] = frame[x] /\ Lent(x)
      BY <1>3, <2>2 DEF Others, RelayInd
    <3> QED BY <1>1, <1>7, <3>1, ReadyQuiet DEF Lent
  <2> QED BY <2>1, <2>2
<1>9. ASSUME NEW s \in Slots
      PROVE  Lender(s)' /\ Prepared(s)'
  <2>1. Lender(s) /\ Prepared(s) /\ user[s] \in Frames \cup {NoFrame}
    BY <1>2 DEF RelayInd, Types
  <2>2. user[s] # f
    BY <1>1, <2>1 DEF Lender, Holding, NoFrame, Frames
  <2>3. Lender(s)'
    BY <1>1, <1>3, <2>1, <2>2 DEF Lender, Others
  <2> QED BY <1>1, <1>7, <2>1, <2>3, PreparedStays
<1>10. RelayedOnce'
  <2>1. \A s \in Slots, i \in Nat, r \in 1 .. made : Carries(s, i, r)' => Carries(s, i, r)
    BY <1>1 DEF Carries
  <2> QED BY <1>1, <1>4, <2>1, OnceQuiet
<1> QED BY <1>5, <1>7, <1>8, <1>9, <1>10 DEF RelayInd

LEMMA TimeoutStep ==
    ASSUME RelayInd, NEW f \in Frames, Timeout(f)
    PROVE  RelayInd'
<1> DEFINE c == frame[f].slot
<1>1. /\ frame[f].at = "wait" /\ frame' = Relayed(f)
      /\ made' = made /\ requests' = requests /\ breaks' = breaks
      /\ user' = [user EXCEPT ![c] = NoFrame] /\ inbox' = inbox /\ session' = session
      /\ serving' = serving
  BY DEF Timeout
<1>2. Types /\ user \in [Slots -> Frames \cup {NoFrame}]
  BY DEF RelayInd, Types
<1>3. frame[f].todo # <<>> /\ c \in Slots /\ user[c] = f
  BY <1>1 DEF RelayInd, Lent, Holding
<1> HIDE DEF c
<1>4. /\ frame' \in [Frames -> FrameType] /\ Others(f) /\ \A x \in Frames : Same(x)
      /\ frame'[f].at = "next" /\ frame'[f].todo = Tail(frame[f].todo)
  BY <1>1, <1>2, <1>3, RelayedFacts
<1>5. \A x \in Frames : Moves(x)
  BY <1>1, <1>3, <1>4 DEF Moves, Others
<1>6. user' \in [Slots -> Frames \cup {NoFrame}] /\ user'[c] = NoFrame
      /\ \A s \in Slots : s # c => user'[s] = user[s]
  BY <1>1, <1>2, <1>3
<1>7. Types'
  BY <1>1, <1>2, <1>4, <1>6 DEF Types
<1>8. breaks' \in 0 .. MaxBreaks /\ breaks <= breaks'
  BY <1>1, <1>2, BoundsAssumption DEF Types
<1>9. Later /\ Living' /\ \A x \in 1 .. made' : Descends(x)' /\ OneTarget(x)'
  BY <1>1, <1>5, <1>8, FramesMove
<1>10. ASSUME NEW x \in Frames
       PROVE  Lent(x)' /\ Ready(x)'
  <2>1. CASE x = f
    BY <1>4, <2>1 DEF Lent, Ready, Holding
  <2>2. CASE x # f
    <3>1. frame'[x] = frame[x] /\ Lent(x)
      BY <1>4, <2>2 DEF Others, RelayInd
    <3>2. Lent(x)'
      BY <1>3, <1>6, <2>2, <3>1 DEF Lent
    <3> QED BY <1>1, <1>9, <3>1, <3>2, ReadyQuiet
  <2> QED BY <2>1, <2>2
<1>11. ASSUME NEW s \in Slots
       PROVE  Lender(s)' /\ Prepared(s)'
  <2>1. Lender(s) /\ Prepared(s) /\ user[s] \in Frames \cup {NoFrame}
    BY <1>2 DEF RelayInd
  <2>2. Lender(s)'
    <3>1. CASE s = c
      BY <1>6, <3>1 DEF Lender
    <3>2. CASE s # c
      <4>1. user'[s] = user[s] /\ user[s] # f
        BY <1>6, <2>1, <3>2 DEF Lender, c, NoFrame, Frames
      <4> QED BY <1>4, <2>1, <4>1 DEF Lender, Others
    <3> QED BY <3>1, <3>2
  <2> QED BY <1>1, <1>9, <2>1, <2>2, PreparedStays
<1>12. RelayedOnce'
  <2>1. \A s \in Slots, i \in Nat, r \in 1 .. made : Carries(s, i, r)' => Carries(s, i, r)
    BY <1>1 DEF Carries
  <2> QED BY <1>1, <1>5, <2>1, OnceQuiet
<1> QED BY <1>7, <1>9, <1>10, <1>11, <1>12 DEF RelayInd
LEMMA BorrowStep ==
    ASSUME RelayInd, NEW f \in Frames, Borrow(f)
    PROVE  RelayInd'
<1>1. PICK c \in Pool(frame[f].node, Head(frame[f].todo)) :
          /\ user[c] = NoFrame
          /\ user' = [user EXCEPT ![c] = f]
          /\ frame' = [frame EXCEPT ![f].at = "borrowed", ![f].slot = c]
  BY DEF Borrow
<1>2. /\ frame[f].at = "next" /\ frame[f].todo # <<>>
      /\ made' = made /\ requests' = requests /\ breaks' = breaks
      /\ inbox' = inbox /\ session' = session /\ serving' = serving
  BY DEF Borrow
<1>3. c \in Slots /\ c[1] = frame[f].node /\ c[2] = Head(frame[f].todo)
  BY DEF Pool
<1>4. Types /\ user \in [Slots -> Frames \cup {NoFrame}]
  BY DEF RelayInd, Types
<1>5. /\ frame' \in [Frames -> FrameType] /\ Others(f) /\ \A x \in Frames : Same(x)
      /\ frame'[f].at = "borrowed" /\ frame'[f].todo = frame[f].todo /\ frame'[f].slot = c
  BY <1>1, <1>3, <1>4, BorrowFacts
<1>6. \A x \in Frames : Moves(x)
  BY <1>2, <1>5 DEF Moves, Others
<1>7. user' \in [Slots -> Frames \cup {NoFrame}] /\ user'[c] = f
      /\ \A s \in Slots : s # c => user'[s] = user[s]
  BY <1>1, <1>3, <1>4
<1>8. Types'
  BY <1>2, <1>4, <1>5, <1>7 DEF Types
<1>9. breaks' \in 0 .. MaxBreaks /\ breaks <= breaks'
  BY <1>2, <1>4, BoundsAssumption DEF Types
<1>10. Later /\ Living' /\ \A x \in 1 .. made' : Descends(x)' /\ OneTarget(x)'
  BY <1>2, <1>6, <1>9, FramesMove
<1>11. ASSUME NEW x \in Frames
       PROVE  Lent(x)' /\ Ready(x)'
  <2>1. CASE x = f
    <3>1. frame'[f].node = frame[f].node
      BY <1>5 DEF Same
    <3> QED BY <1>2, <1>3, <1>5, <1>7, <2>1, <3>1 DEF Lent, Ready
  <2>2. CASE x # f
    <3>1. frame'[x] = frame[x] /\ Lent(x)
      BY <1>5, <2>2 DEF Others, RelayInd
    <3>2. x # NoFrame
      BY DEF Frames, NoFrame
    <3>3. Lent(x)'
      BY <1>1, <1>7, <3>1, <3>2 DEF Lent
    <3> QED BY <1>2, <1>10, <3>1, <3>3, ReadyQuiet
  <2> QED BY <2>1, <2>2
<1>12. ASSUME NEW s \in Slots
       PROVE  Lender(s)' /\ Prepared(s)'
  <2>1. Lender(s) /\ Prepared(s) /\ user[s] \in Frames \cup {NoFrame}
    BY <1>4 DEF RelayInd
  <2>2. Lender(s)'
    <3>1. CASE s = c
      BY <1>5, <1>7, <3>1 DEF Lender, Holding
    <3>2. CASE s # c
      <4>1. user'[s] = user[s] /\ user[s] # f
        BY <1>2, <1>7, <2>1, <3>2 DEF Lender, Holding, NoFrame, Frames
      <4> QED BY <1>5, <2>1, <4>1 DEF Lender, Others
    <3> QED BY <3>1, <3>2
  <2> QED BY <1>2, <1>10, <2>1, <2>2, PreparedStays
<1>13. RelayedOnce'
  <2>1. \A s \in Slots, i \in Nat, r \in 1 .. made : Carries(s, i, r)' => Carries(s, i, r)
    BY <1>2 DEF Carries
  <2> QED BY <1>2, <1>6, <2>1, OnceQuiet
<1> QED BY <1>8, <1>10, <1>11, <1>12, <1>13 DEF RelayInd

\* What is common to SELECT and the command: message m is sent over the
\* connection that frame f holds.
LEMMA SendFacts ==
    ASSUME RelayInd, NEW f \in Frames, frame[f].at \in Holding, NEW a \in Holding, NEW m \in Messages,
           frame[f].at = "wait" => a = "wait", frame' = Advance(f, a),
           inbox' = [inbox EXCEPT ![frame[f].slot] = Append(@, m)],
           made' = made, requests' = requests, breaks' = breaks, user' = user,
           session' = session, serving' = serving
    PROVE  LET c == frame[f].slot IN
           /\ c \in Slots /\ c[1] = frame[f].node
           /\ Types' /\ Later /\ Living' /\ \A x \in Frames : Moves(x)
           /\ \A x \in 1 .. made' : Descends(x)' /\ OneTarget(x)'
           /\ \A x \in 1 .. made : IsKey(x) /\ Sent(x) => Sent(x)'
           /\ Others(f) /\ Same(f) /\ frame'[f].at = a /\ frame'[f].slot = c
           /\ inbox[c] \in Seq(Messages) /\ inbox'[c] = Append(inbox[c], m)
           /\ \A s \in Slots : s # c => inbox'[s] = inbox[s]
           /\ \A x \in Frames : Lent(x)'
           /\ \A x \in Frames : x # f => Ready(x)'
           /\ \A s \in Slots : Lender(s)'
           /\ \A s \in Slots : s # c => Prepared(s)'
<1> DEFINE c == frame[f].slot
<1>1. Types /\ inbox \in [Slots -> Seq(Messages)] /\ breaks \in 0 .. MaxBreaks /\ MaxBreaks \in Nat
  BY BoundsAssumption DEF RelayInd, Types
<1>2. Lent(f) /\ c \in Slots /\ c[1] = frame[f].node /\ frame[f].at # "unborn"
  BY DEF RelayInd, Lent, Holding
<1>3. /\ frame' \in [Frames -> FrameType] /\ Others(f) /\ \A x \in Frames : Same(x)
      /\ frame'[f].at = a /\ frame'[f].todo = frame[f].todo /\ frame'[f].slot = c
  BY <1>1, AdvanceFacts
<1> HIDE DEF c
<1>4. \A x \in Frames : Moves(x)
  BY <1>2, <1>3 DEF Moves, Others, Holding
<1>5. breaks' \in 0 .. MaxBreaks /\ breaks <= breaks'
  BY <1>1
<1>6. /\ Later /\ Living' /\ \A x \in 1 .. made' : Descends(x)' /\ OneTarget(x)'
      /\ \A x \in 1 .. made : IsKey(x) /\ Sent(x) => Sent(x)'
  BY <1>4, <1>5, FramesMove
<1>7. inbox' = [inbox EXCEPT ![c] = Append(inbox[c], m)]
  BY DEF c
<1>8. inbox[c] \in Seq(Messages) /\ Append(inbox[c], m) \in Seq(Messages)
  BY <1>1, <1>2
<1>9. /\ inbox' \in [Slots -> Seq(Messages)] /\ inbox'[c] = Append(inbox[c], m)
      /\ \A s \in Slots : s # c => inbox'[s] = inbox[s]
  BY <1>1, <1>2, <1>7, <1>8
<1>10. Types'
  BY <1>1, <1>3, <1>9 DEF Types
<1>11. ASSUME NEW x \in Frames
       PROVE  Lent(x)'
  <2>1. Lent(x) /\ Same(x) /\ frame'[x].slot = frame[x].slot /\ frame'[x].todo = frame[x].todo
    BY <1>3 DEF RelayInd, Others, c
  <2>2. frame'[x].at \in Holding => frame[x].at \in Holding
    BY <1>3 DEF Others
  <2> QED BY <2>1, <2>2 DEF Lent, Same
<1>12. ASSUME NEW x \in Frames, x # f
       PROVE  Ready(x)'
  <2>1. frame[x].at = "selected" => frame[x].slot \in Slots /\ frame[x].slot # c
    <3>1. frame[x].at = "selected" => frame[x].at \in Holding
      BY DEF Holding
    <3>2. frame[x].at = "selected" => frame[x].slot \in Slots
      BY <3>1 DEF RelayInd, Lent
    <3> QED BY <1>12, <3>1, <3>2, OneHolder DEF c
  <2>2. frame'[x] = frame[x]
    BY <1>3, <1>12 DEF Others
  <2> QED BY <1>6, <1>9, <2>1, <2>2, ReadyQuiet
<1>13. ASSUME NEW s \in Slots
       PROVE  Lender(s)' /\ (s # c => Prepared(s)')
  <2>1. Lender(s) /\ Prepared(s) /\ user[s] \in Frames \cup {NoFrame}
    BY <1>1 DEF RelayInd, Types
  <2>2. \A x \in Frames : /\ frame[x].at \in Holding => frame'[x].at \in Holding
                          /\ frame'[x].slot = frame[x].slot
    BY <1>3 DEF Others, c
  <2>3. Lender(s)'
    BY <2>1, <2>2 DEF Lender
  <2>4. ASSUME s # c PROVE Prepared(s)'
    BY <1>6, <1>9, <2>1, <2>4, PreparedStays
  <2> QED BY <2>3, <2>4
<1> QED BY <1>2, <1>3, <1>4, <1>6, <1>8, <1>9, <1>10, <1>11, <1>12, <1>13 DEF c

LEMMA SendSelectStep ==
    ASSUME RelayInd, NEW f \in Frames, SendSelect(f)
    PROVE  RelayInd'
<1> DEFINE c == frame[f].slot
           m == [select |-> TRUE, arg |-> frame[f].db]
<1>1. /\ frame[f].at = "borrowed" /\ frame[f].at \in Holding /\ "selected" \in Holding
      /\ frame' = Advance(f, "selected") /\ inbox' = [inbox EXCEPT ![c] = Append(@, m)]
      /\ made' = made /\ requests' = requests /\ breaks' = breaks
      /\ user' = user /\ session' = session /\ serving' = serving
  BY DEF SendSelect, Holding
<1>2. m \in Messages
  BY DEF RelayInd, Types, FrameType, Messages
<1>3. m.select
  OBVIOUS
<1> HIDE DEF m
<1>4. /\ c \in Slots /\ c[1] = frame[f].node
      /\ Types' /\ Later /\ Living' /\ \A x \in Frames : Moves(x)
      /\ \A x \in 1 .. made' : Descends(x)' /\ OneTarget(x)'
      /\ Others(f) /\ Same(f) /\ frame'[f].at = "selected" /\ frame'[f].slot = c
      /\ inbox[c] \in Seq(Messages) /\ inbox'[c] = Append(inbox[c], m)
      /\ \A s \in Slots : s # c => inbox'[s] = inbox[s]
      /\ \A x \in Frames : Lent(x)'
      /\ \A x \in Frames : x # f => Ready(x)'
      /\ \A s \in Slots : Lender(s)'
      /\ \A s \in Slots : s # c => Prepared(s)'
  BY <1>1, <1>2, SendFacts, ZenonT(60)
<1>5. Ready(f)'
  <2>1. frame'[f].db = frame[f].db
    BY <1>4 DEF Same
  <2> QED BY <1>4, <2>1, ReadySelect DEF m
<1>6. Prepared(c)'
  <2>1. Prepared(c) /\ session'[c] = session[c]
    BY <1>1, <1>4 DEF RelayInd
  <2> QED BY <1>3, <1>4, <2>1, PreparedSent
<1>7. RelayedOnce'
  <2>1. ASSUME NEW s \in Slots, NEW i \in Nat, NEW r \in 1 .. made, Carries(s, i, r)'
        PROVE  Carries(s, i, r)
    <3>1. CASE s # c
      BY <1>4, <2>1, <3>1 DEF Carries
    <3>2. CASE s = c
      <4>1. /\ Len(inbox[c]) \in Nat /\ Len(inbox'[c]) = Len(inbox[c]) + 1
            /\ inbox'[c][Len(inbox[c]) + 1] = m
            /\ \A j \in 1 .. Len(inbox[c]) : inbox'[c][j] = inbox[c][j]
        BY <1>4
      <4>2. i \in 1 .. Len(inbox'[c]) /\ ~inbox'[c][i].select /\ inbox'[c][i].arg = r
        BY <2>1, <3>2 DEF Carries
      <4>3. i # Len(inbox[c]) + 1
        BY <1>3, <4>1, <4>2
      <4>4. i \in 1 .. Len(inbox[c])
        BY <4>1, <4>2, <4>3
      <4> QED BY <3>2, <4>1, <4>2, <4>4 DEF Carries
    <3> QED BY <3>1, <3>2
  <2> QED BY <1>1, <1>4, <2>1, OnceQuiet
<1> QED BY <1>4, <1>5, <1>6, <1>7 DEF RelayInd
\* A frame that has yet to send its command on a key is the client's own:
\* the frame of a relayed command never relays it again.
LEMMA OnlyRootsSend ==
    ASSUME RelayInd, NEW f \in Frames, frame[f].at = "selected", IsKey(f)
    PROVE  f \in 1 .. made /\ frame[f].root = f /\ ~Sent(f)
<1>1. f \in 1 .. made
  BY Alive
<1>2. /\ frame[f].slot \in Slots /\ frame[f].todo # <<>>
      /\ frame[f].slot[1] = frame[f].node /\ frame[f].slot[2] = Head(frame[f].todo)
  BY DEF RelayInd, Lent, Holding
<1>3. OneTarget(f)
  BY <1>1 DEF RelayInd
<1>4. PICK n \in NodeSet : frame[f].todo = <<n>> /\ (frame[f].root # f => n = frame[f].node)
  BY <1>2, <1>3 DEF OneTarget, IsKey
<1>5. Head(frame[f].todo) = n
  BY <1>4
<1>6. frame[f].slot[1] # frame[f].slot[2]
  BY <1>2 DEF Slots
<1> QED BY <1>1, <1>2, <1>4, <1>5, <1>6 DEF Sent

LEMMA SendCommandStep ==
    ASSUME RelayInd, NEW f \in Frames, SendCommand(f)
    PROVE  RelayInd'
<1>0. PICK c : c = frame[f].slot
  OBVIOUS
<1> DEFINE m == [select |-> FALSE, arg |-> f]
<1>1. /\ frame[f].at = "selected" /\ frame[f].at \in Holding /\ "wait" \in Holding
      /\ frame' = Advance(f, "wait") /\ inbox' = [inbox EXCEPT ![frame[f].slot] = Append(@, m)]
      /\ made' = made /\ requests' = requests /\ breaks' = breaks
      /\ user' = user /\ session' = session /\ serving' = serving
  BY <1>0 DEF SendCommand, Holding
<1>2. m \in Messages
  BY DEF Messages
<1>3. m.arg = f
  OBVIOUS
<1> HIDE DEF m
<1>4. /\ c \in Slots /\ c[1] = frame[f].node
      /\ Types' /\ Later /\ Living' /\ \A x \in Frames : Moves(x)
      /\ \A x \in 1 .. made' : Descends(x)' /\ OneTarget(x)'
      /\ \A x \in 1 .. made : IsKey(x) /\ Sent(x) => Sent(x)'
      /\ Others(f) /\ Same(f) /\ frame'[f].at = "wait" /\ frame'[f].slot = c
      /\ inbox[c] \in Seq(Messages) /\ inbox'[c] = Append(inbox[c], m)
      /\ \A s \in Slots : s # c => inbox'[s] = inbox[s]
      /\ \A x \in Frames : Lent(x)'
      /\ \A x \in Frames : x # f => Ready(x)'
      /\ \A s \in Slots : Lender(s)'
      /\ \A s \in Slots : s # c => Prepared(s)'
  <2> DEFINE d == frame[f].slot
  <2>1. /\ d \in Slots /\ d[1] = frame[f].node
        /\ Types' /\ Later /\ Living' /\ \A x \in Frames : Moves(x)
        /\ \A x \in 1 .. made' : Descends(x)' /\ OneTarget(x)'
        /\ \A x \in 1 .. made : IsKey(x) /\ Sent(x) => Sent(x)'
        /\ Others(f) /\ Same(f) /\ frame'[f].at = "wait" /\ frame'[f].slot = d
        /\ inbox[d] \in Seq(Messages) /\ inbox'[d] = Append(inbox[d], m)
        /\ \A s \in Slots : s # d => inbox'[s] = inbox[s]
        /\ \A x \in Frames : Lent(x)'
        /\ \A x \in Frames : x # f => Ready(x)'
        /\ \A s \in Slots : Lender(s)'
        /\ \A s \in Slots : s # d => Prepared(s)'
    BY <1>1, <1>2, SendFacts
  <2> HIDE DEF d
  <2>2. d = c
    BY <1>0 DEF d
  <2> QED BY <2>1, <2>2
<1>5. Ready(f)'
  BY <1>4 DEF Ready
<1>6. f \in 1 .. made
  BY <1>1, Alive
<1>7. Prepared(c)'
  <2>1. Prepared(c) /\ session'[c] = session[c] /\ Ready(f)
    BY <1>1, <1>4 DEF RelayInd
  <2>2. IF Len(inbox[c]) = 0 THEN Fitting(session[c], f)
        ELSE inbox[c][Len(inbox[c])].select /\ inbox[c][Len(inbox[c])].arg = frame[f].db
    BY <1>0, <1>1, <2>1 DEF Ready
  <2>3. ~m.select =>
            /\ m.arg \in 1 .. made
            /\ IF Len(inbox[c]) = 0 THEN Fitting(session[c], m.arg)
               ELSE inbox[c][Len(inbox[c])].select /\ inbox[c][Len(inbox[c])].arg = frame[m.arg].db
    BY <1>3, <1>6, <2>2
  <2> QED BY <1>4, <2>1, <2>3, PreparedSent
<1>8. ASSUME NEW s \in Slots, NEW i \in Nat, NEW r \in 1 .. made, Carries(s, i, r)'
      PROVE  Carries(s, i, r) \/ (r = f /\ s = c /\ i = Len(inbox[c]) + 1)
  <2>1. CASE s # c
    BY <1>4, <1>8, <2>1 DEF Carries
  <2>2. CASE s = c
    <3>1. /\ Len(inbox[c]) \in Nat /\ Len(inbox'[c]) = Len(inbox[c]) + 1
          /\ inbox'[c][Len(inbox[c]) + 1] = m
          /\ \A j \in 1 .. Len(inbox[c]) : inbox'[c][j] = inbox[c][j]
      BY <1>4
    <3>2. i \in 1 .. Len(inbox'[c]) /\ ~inbox'[c][i].select /\ inbox'[c][i].arg = r
      BY <1>8, <2>2 DEF Carries
    <3>3. CASE i = Len(inbox[c]) + 1
      BY <1>3, <2>2, <3>1, <3>2, <3>3
    <3>4. CASE i # Len(inbox[c]) + 1
      <4>1. i \in 1 .. Len(inbox[c])
        BY <3>1, <3>2, <3>4
      <4> QED BY <2>2, <3>1, <3>2, <4>1 DEF Carries
    <3> QED BY <3>3, <3>4
  <2> QED BY <2>1, <2>2
<1>9. RelayedOnce'
  <2>1. \A x \in 1 .. made : x \in Frames
    <3>1. made \in 0 .. MaxFrames
      BY DEF RelayInd, Types
    <3> QED BY <3>1, BoundsAssumption DEF Frames
  <2>2. \A x \in 1 .. made : /\ IsKey(x)' = IsKey(x) /\ frame'[x].root = frame[x].root
                             /\ frame'[x].node = frame[x].node
    BY <1>4, <2>1 DEF Moves, Same, IsKey
  <2>3. \A x, y \in 1 .. made : Served(x, y)' => Served(x, y)
    BY <1>1, <2>2 DEF Served
  <2>4. RelayedOnce
    BY DEF RelayInd
  <2>5. IsKey(f) => frame[f].root = f /\ ~Sent(f)
    BY <1>1, OnlyRootsSend
  <2>6. ASSUME NEW r \in 1 .. made, NEW s \in Slots, NEW i \in Nat, IsKey(r), Carries(s, i, r)'
        PROVE  /\ frame'[r].root = r /\ Sent(r)' /\ s[1] = frame'[r].node
               /\ \A g \in 1 .. made : ~Served(g, r)'
               /\ \A t \in Slots, j \in Nat : Carries(t, j, r)' => t = s /\ j = i
    <3>1. CASE r = f
      <4>1. \A t \in Slots, j \in Nat : ~Carries(t, j, f)
        BY <2>4, <2>5, <2>6, <3>1 DEF RelayedOnce
      <4>2. \A g \in 1 .. made : ~Served(g, f)
        BY <2>4, <2>5, <2>6, <3>1 DEF RelayedOnce
      <4>3. \A t \in Slots, j \in Nat : Carries(t, j, f)' => t = c /\ j = Len(inbox[c]) + 1
        BY <1>6, <1>8, <4>1
      <4>4. s = c /\ i = Len(inbox[c]) + 1
        BY <2>6, <3>1, <4>3
      <4>5. Sent(f)'
        BY <1>4 DEF Sent
      <4> QED BY <1>4, <2>2, <2>3, <2>5, <2>6, <3>1, <4>2, <4>3, <4>4, <4>5
    <3>2. CASE r # f
      <4>1. \A t \in Slots, j \in Nat : Carries(t, j, r)' => Carries(t, j, r)
        BY <1>8, <3>2
      <4>2. Carries(s, i, r)
        BY <2>6, <4>1
      <4>3. frame[r].root = r /\ Sent(r) /\ s[1] = frame[r].node
        BY <2>4, <2>6, <4>2 DEF RelayedOnce
      <4>4. \A g \in 1 .. made : ~Served(g, r)
        BY <2>4, <2>6, <4>2 DEF RelayedOnce
      <4>5. \A t \in Slots, j \in Nat : Carries(t, j, r) => t = s /\ j = i
        BY <2>4, <2>6, <4>2 DEF RelayedOnce
      <4> QED BY <1>4, <2>2, <2>3, <2>6, <4>1, <4>3, <4>4, <4>5
    <3> QED BY <3>1, <3>2
  <2>7. ASSUME NEW r \in 1 .. made, NEW x \in 1 .. made, IsKey(r), Served(x, r)'
        PROVE  /\ Sent(r)' /\ frame'[x].node # frame'[r].node
               /\ \A g \in 1 .. made : Served(g, r)' => x = g
    <3>1. Served(x, r)
      BY <2>3, <2>7
    <3>2. Sent(r) /\ frame[x].node # frame[r].node
      BY <2>4, <2>7, <3>1 DEF RelayedOnce
    <3>3. \A g \in 1 .. made : Served(g, r) => x = g
      BY <2>4, <2>7, <3>1 DEF RelayedOnce
    <3> QED BY <1>4, <2>2, <2>3, <2>7, <3>2, <3>3
  <2>8. \A r \in 1 .. made : IsKey(r)' => IsKey(r)
    BY <2>2
  <2> QED BY <1>1, <2>6, <2>7, <2>8 DEF RelayedOnce
<1>10. \A x \in Frames : Lent(x)' /\ Ready(x)'
  BY <1>4, <1>5
<1>11. \A s \in Slots : Lender(s)' /\ Prepared(s)'
  BY <1>4, <1>7
<1> QED BY <1>4, <1>9, <1>10, <1>11 DEF RelayInd

LEMMA ServeSelectStep ==
    ASSUME RelayInd, NEW c \in Slots, ServeSelect(c)
    PROVE  RelayInd'
<1> DEFINE h == Head(inbox[c]).arg
<1>1. /\ inbox[c] # <<>> /\ Head(inbox[c]).select
      /\ session' = [session EXCEPT ![c] = h] /\ inbox' = [inbox EXCEPT ![c] = Tail(inbox[c])]
      /\ frame' = frame /\ made' = made /\ requests' = requests /\ breaks' = breaks
      /\ user' = user /\ serving' = serving
  BY DEF ServeSelect
<1>2. /\ Types /\ inbox \in [Slots -> Seq(Messages)] /\ session \in [Slots -> DBs]
      /\ breaks \in 0 .. MaxBreaks /\ MaxBreaks \in Nat
  BY BoundsAssumption DEF RelayInd, Types
<1>3. inbox[c] \in Seq(Messages) /\ Head(inbox[c]) \in Messages /\ Tail(inbox[c]) \in Seq(Messages)
  BY <1>1, <1>2
<1>4. h \in DBs
  BY <1>1, <1>3 DEF Messages
<1>5. /\ inbox' \in [Slots -> Seq(Messages)] /\ inbox'[c] = Tail(inbox[c])
      /\ \A s \in Slots : s # c => inbox'[s] = inbox[s]
  BY <1>1, <1>2, <1>3
<1>6. /\ session' \in [Slots -> DBs] /\ session'[c] = h
      /\ \A s \in Slots : s # c => session'[s] = session[s]
  BY <1>1, <1>2, <1>4
<1>7. session'[c] = IF Head(inbox[c]).select THEN Head(inbox[c]).arg ELSE session[c]
  BY <1>1, <1>6
<1> HIDE DEF h
<1>8. \A x \in Frames : Moves(x)
  BY <1>1 DEF Moves, Same
<1>9. Types'
  BY <1>1, <1>2, <1>5, <1>6 DEF Types
<1>10. breaks' \in 0 .. MaxBreaks /\ breaks <= breaks'
  BY <1>1, <1>2
<1>11. Later /\ Living' /\ \A x \in 1 .. made' : Descends(x)' /\ OneTarget(x)'
  BY <1>1, <1>8, <1>10, FramesMove
<1>12. ASSUME NEW x \in Frames
       PROVE  Lent(x)' /\ Ready(x)'
  <2>1. Lent(x) /\ Ready(x) /\ frame'[x] = frame[x]
    BY <1>1 DEF RelayInd
  <2>2. Lent(x)'
    BY <1>1, <2>1 DEF Lent
  <2>3. CASE frame[x].at = "selected" /\ frame[x].slot = c
    <3>1. x \in 1 .. made
      BY <2>3, Alive
    <3> QED BY <1>1, <1>3, <1>5, <1>7, <1>11, <2>1, <2>2, <2>3, <3>1, ReadyServed
  <2>4. CASE ~(frame[x].at = "selected" /\ frame[x].slot = c)
    <3>1. frame[x].at = "selected" => frame[x].slot \in Slots /\ frame[x].slot # c
      BY <2>1, <2>4 DEF Lent, Holding
    <3> QED BY <1>5, <1>6, <1>11, <2>1, <2>2, <3>1, ReadyQuiet
  <2> QED BY <2>3, <2>4
<1>13. ASSUME NEW s \in Slots
       PROVE  Lender(s)' /\ Prepared(s)'
  <2>1. Lender(s) /\ Prepared(s)
    BY DEF RelayInd
  <2>2. Lender(s)'
    BY <1>1, <2>1 DEF Lender
  <2>3. CASE s = c
    BY <1>1, <1>3, <1>5, <1>7, <1>11, <2>1, <2>2, <2>3, PreparedServed
  <2>4. CASE s # c
    BY <1>5, <1>6, <1>11, <2>1, <2>2, <2>4, PreparedStays
  <2> QED BY <2>3, <2>4
<1>14. RelayedOnce'
  <2> DEFINE sh == [s \in Slots |-> IF s = c THEN 1 ELSE 0]
  <2>1. sh \in [Slots -> Nat] /\ sh[c] = 1 /\ \A s \in Slots : s # c => sh[s] = 0
    OBVIOUS
  <2> HIDE DEF sh
  <2>2. ASSUME NEW s \in Slots, NEW i \in Nat, NEW r \in 1 .. made, Carries(s, i, r)'
        PROVE  Carries(s, i + sh[s], r)
    <3>1. CASE s # c
      <4>1. Carries(s, i, r)
        BY <1>5, <2>2, <3>1 DEF Carries
      <4>2. i + sh[s] = i
        BY <2>1, <3>1
      <4> QED BY <4>1, <4>2
    <3>2. CASE s = c
      BY <1>1, <1>3, <1>5, <2>1, <2>2, <3>2, CarriesTail
    <3> QED BY <3>1, <3>2
  <2> QED BY <1>1, <1>8, <1>10, <2>1, <2>2, OnceStays
<1> QED BY <1>9, <1>11, <1>12, <1>13, <1>14 DEF RelayInd
LEMMA BreakStep ==
    ASSUME RelayInd, NEW c \in Slots, Break(c)
    PROVE  RelayInd'
<1>1. /\ breaks < MaxBreaks /\ breaks' = breaks + 1
      /\ inbox' = [inbox EXCEPT ![c] = <<>>] /\ session' = [session EXCEPT ![c] = 0]
      /\ serving' = [serving EXCEPT ![c] = NoFrame]
      /\ frame' = frame /\ made' = made /\ requests' = requests /\ user' = user
  BY DEF Break
<1>2. /\ Types /\ inbox \in [Slots -> Seq(Messages)] /\ session \in [Slots -> DBs]
      /\ breaks \in 0 .. MaxBreaks /\ MaxBreaks \in Nat
  BY BoundsAssumption DEF RelayInd, Types
<1>3. /\ inbox' \in [Slots -> Seq(Messages)] /\ inbox'[c] = <<>>
      /\ \A s \in Slots : s # c => inbox'[s] = inbox[s]
  <2>1. <<>> \in Seq(Messages)
    OBVIOUS
  <2> QED BY <1>1, <1>2, <2>1
<1>4. /\ session' \in [Slots -> DBs] /\ session'[c] = 0
      /\ \A s \in Slots : s # c => session'[s] = session[s]
  BY <1>1, <1>2, DBsAssumption
<1>5. serving' = [s \in Slots |-> serving'[s]]
  BY <1>1, <1>2 DEF Types
<1>6. breaks' \in 0 .. MaxBreaks /\ breaks <= breaks' /\ breaks' > 0
  BY <1>1, <1>2
<1>7. Types'
  BY <1>1, <1>2, <1>3, <1>4, <1>5, <1>6 DEF Types
<1>8. \A x \in Frames : Moves(x)
  BY <1>1 DEF Moves, Same
<1>9. Later /\ Living' /\ \A x \in 1 .. made' : Descends(x)' /\ OneTarget(x)'
  BY <1>1, <1>6, <1>8, FramesMove
<1>10. ASSUME NEW x \in Frames
       PROVE  Lent(x)' /\ Ready(x)'
  <2>1. Lent(x) /\ Ready(x) /\ frame'[x] = frame[x]
    BY <1>1 DEF RelayInd
  <2>2. Lent(x)'
    BY <1>1, <2>1 DEF Lent
  <2>3. CASE frame[x].slot = c
    BY <1>3, <1>4, <1>6, <2>1, <2>2, <2>3, ReadyLost
  <2>4. CASE frame[x].slot # c
    <3>1. frame[x].at = "selected" => frame[x].slot \in Slots
      BY <2>1 DEF Lent, Holding
    <3> QED BY <1>3, <1>4, <1>9, <2>1, <2>2, <2>4, <3>1, ReadyQuiet
  <2> QED BY <2>3, <2>4
<1>11. ASSUME NEW s \in Slots
       PROVE  Lender(s)' /\ Prepared(s)'
  <2>1. Lender(s) /\ Prepared(s)
    BY DEF RelayInd
  <2>2. Lender(s)'
    BY <1>1, <2>1 DEF Lender
  <2>3. CASE s = c
    <3>1. 1 .. Len(inbox'[s]) = {}
      BY <1>3, <2>3
    <3>2. Prepared(s)'
      BY <3>1 DEF Prepared
    <3> QED BY <2>2, <3>2
  <2>4. CASE s # c
    BY <1>3, <1>4, <1>9, <2>1, <2>2, <2>4, PreparedStays
  <2> QED BY <2>3, <2>4
<1>12. RelayedOnce'
  <2> DEFINE sh == [s \in Slots |-> 0]
  <2>1. sh \in [Slots -> Nat] /\ \A s \in Slots : sh[s] = 0
    OBVIOUS
  <2> HIDE DEF sh
  <2>2. ASSUME NEW s \in Slots, NEW i \in Nat, NEW r \in 1 .. made, Carries(s, i, r)'
        PROVE  Carries(s, i + sh[s], r)
    <3>1. i + sh[s] = i
      BY <2>1
    <3>2. s # c
      BY <1>3, <2>2 DEF Carries
    <3> QED BY <1>3, <2>2, <3>1, <3>2 DEF Carries
  <2> QED BY <1>1, <1>6, <1>8, <2>1, <2>2, OnceStays
<1> QED BY <1>7, <1>9, <1>10, <1>11, <1>12 DEF RelayInd

\* A frame ends and nobody waits for it, or nobody takes the reply.
LEMMA DoneStep ==
    ASSUME RelayInd, NEW f \in Frames, frame[f].at = "next", frame' = Advance(f, "done"),
           user' = user, serving' = [s \in Slots |-> serving'[s]], made' = made,
           requests' = requests, breaks' = breaks, inbox' = inbox, session' = session
    PROVE  RelayInd'
<1>1. Types
  BY DEF RelayInd
<1>2. /\ frame' \in [Frames -> FrameType] /\ Others(f) /\ \A x \in Frames : Same(x)
      /\ frame'[f].at = "done" /\ frame'[f].todo = frame[f].todo
  BY <1>1, AdvanceFacts
<1>3. \A x \in Frames : Moves(x)
  BY <1>2 DEF Moves, Others
<1>4. Types'
  BY <1>1, <1>2 DEF Types
<1>5. breaks' \in 0 .. MaxBreaks /\ breaks <= breaks'
  BY <1>1, BoundsAssumption DEF Types
<1>6. Later /\ Living' /\ \A x \in 1 .. made' : Descends(x)' /\ OneTarget(x)'
  BY <1>3, <1>5, FramesMove
<1>7. ASSUME NEW x \in Frames
      PROVE  Lent(x)' /\ Ready(x)'
  <2>1. CASE x = f
    BY <1>2, <2>1 DEF Lent, Ready, Holding
  <2>2. CASE x # f
    <3>1. frame'[x] = frame[x] /\ Lent(x)
      BY <1>2, <2>2 DEF Others, RelayInd
    <3> QED BY <1>6, <3>1, ReadyQuiet DEF Lent
  <2> QED BY <2>1, <2>2
<1>8. ASSUME NEW s \in Slots
      PROVE  Lender(s)' /\ Prepared(s)'
  <2>1. Lender(s) /\ Prepared(s) /\ user[s] \in Frames \cup {NoFrame}
    BY <1>1 DEF RelayInd, Types
  <2>2. user[s] # f
    BY <2>1 DEF Lender, Holding, NoFrame, Frames
  <2>3. Lender(s)'
    BY <1>2, <2>1, <2>2 DEF Lender, Others
  <2> QED BY <1>6, <2>1, <2>3, PreparedStays
<1>9. RelayedOnce'
  <2>1. \A s \in Slots, i \in Nat, r \in 1 .. made : Carries(s, i, r)' => Carries(s, i, r)
    BY DEF Carries
  <2> QED BY <1>3, <2>1, OnceQuiet
<1> QED BY <1>4, <1>6, <1>7, <1>8, <1>9 DEF RelayInd

\* The reply of frame f reaches frame g, which waits for it.
LEMMA RepliedStep ==
    ASSUME RelayInd, NEW f \in Frames, NEW c \in Slots, NEW g \in Frames, g = user[c],
           frame[f].at = "next", frame[g].at = "wait",
           frame' = [frame EXCEPT ![g].at = "next", ![g].todo = Tail(@), ![f].at = "done"],
           user' = [user EXCEPT ![c] = NoFrame], serving' = [s \in Slots |-> serving'[s]],
           made' = made, requests' = requests, breaks' = breaks, inbox' = inbox, session' = session
    PROVE  RelayInd'
<1>1. /\ Types /\ user \in [Slots -> Frames \cup {NoFrame}] /\ frame \in [Frames -> FrameType]
  BY DEF RelayInd, Types
<1>2. g # f /\ g # NoFrame
  BY DEF NoFrame, Frames
<1>3. frame[g].todo # <<>> /\ frame[g].slot = c
  <2>1. Lender(c) /\ Lent(g)
    BY DEF RelayInd
  <2> QED BY <1>2, <2>1 DEF Lender, Lent, Holding
<1>4. /\ frame' \in [Frames -> FrameType]
      /\ \A x \in Frames : x # f /\ x # g => frame'[x] = frame[x]
      /\ \A x \in Frames : Same(x)
      /\ frame'[f].at = "done" /\ frame'[f].todo = frame[f].todo
      /\ frame'[g].at = "next" /\ frame'[g].todo = Tail(frame[g].todo)
  <2>1. Tail(frame[g].todo) \in Seq(NodeSet)
    BY <1>1, <1>3 DEF FrameType
  <2>2. /\ frame'[f] = [frame[f] EXCEPT !.at = "done"]
        /\ frame'[g] = [frame[g] EXCEPT !.at = "next", !.todo = Tail(frame[g].todo)]
        /\ \A x \in Frames : x # f /\ x # g => frame'[x] = frame[x]
        /\ frame' = [x \in Frames |-> frame'[x]]
    BY <1>1, <1>2
  <2>3. /\ frame'[f] \in FrameType /\ Same(f)
        /\ frame'[f].at = "done" /\ frame'[f].todo = frame[f].todo
    <3>1. frame[f] \in FrameType /\ frame'[f] = [frame[f] EXCEPT !.at = "done"]
      BY <1>1, <2>2
    <3> QED BY ONLY <3>1 DEF FrameType, Same
  <2>4. /\ frame'[g] \in FrameType /\ Same(g)
        /\ frame'[g].at = "next" /\ frame'[g].todo = Tail(frame[g].todo)
    <3>1. /\ frame[g] \in FrameType
          /\ frame'[g] = [frame[g] EXCEPT !.at = "next", !.todo = Tail(frame[g].todo)]
      BY <1>1, <2>2
    <3> QED BY ONLY <2>1, <3>1 DEF FrameType, Same
  <2>5. \A x \in Frames : frame'[x] \in FrameType /\ Same(x)
    BY <1>1, <2>2, <2>3, <2>4, ZenonT(60) DEF Same
  <2>6. frame' \in [Frames -> FrameType]
    BY <2>2, <2>5
  <2> QED BY <2>2, <2>3, <2>4, <2>5, <2>6
<1>5. \A x \in Frames : Moves(x)
  BY <1>3, <1>4 DEF Moves
<1>6. /\ user' \in [Slots -> Frames \cup {NoFrame}] /\ user'[c] = NoFrame
      /\ \A s \in Slots : s # c => user'[s] = user[s]
  BY <1>1
<1>7. Types'
  BY <1>1, <1>4, <1>6 DEF Types
<1>8. breaks' \in 0 .. MaxBreaks /\ breaks <= breaks'
  BY <1>1, BoundsAssumption DEF Types
<1>9. Later /\ Living' /\ \A x \in 1 .. made' : Descends(x)' /\ OneTarget(x)'
  BY <1>5, <1>8, FramesMove
<1>10. ASSUME NEW x \in Frames
       PROVE  Lent(x)' /\ Ready(x)'
  <2>1. CASE x = f \/ x = g
    BY <1>4, <2>1 DEF Lent, Ready, Holding
  <2>2. CASE x # f /\ x # g
    <3>1. frame'[x] = frame[x] /\ Lent(x)
      BY <1>4, <2>2 DEF RelayInd
    <3>2. Lent(x)'
      BY <1>6, <2>2, <3>1 DEF Lent
    <3> QED BY <1>9, <3>1, <3>2, ReadyQuiet
  <2> QED BY <2>1, <2>2
<1>11. ASSUME NEW s \in Slots
       PROVE  Lender(s)' /\ Prepared(s)'
  <2>1. Lender(s) /\ Prepared(s) /\ user[s] \in Frames \cup {NoFrame}
    BY <1>1 DEF RelayInd
  <2>2. Lender(s)'
    <3>1. CASE s = c
      BY <1>6, <3>1 DEF Lender
    <3>2. CASE s # c
      <4>1. user'[s] = user[s]
        BY <1>6, <3>2
      <4>2. user[s] # NoFrame => user[s] # f /\ user[s] # g
        BY <1>3, <2>1, <3>2 DEF Lender, Holding
      <4> QED BY <1>4, <2>1, <4>1, <4>2 DEF Lender
    <3> QED BY <3>1, <3>2
  <2> QED BY <1>9, <2>1, <2>2, PreparedStays
<1>12. RelayedOnce'
  <2>1. \A s \in Slots, i \in Nat, r \in 1 .. made : Carries(s, i, r)' => Carries(s, i, r)
    BY DEF Carries
  <2> QED BY <1>5, <2>1, OnceQuiet
<1> QED BY <1>7, <1>9, <1>10, <1>11, <1>12 DEF RelayInd

LEMMA FinishStep ==
    ASSUME RelayInd, NEW f \in Frames, Finish(f)
    PROVE  RelayInd'
<1>1. /\ frame[f].at = "next"
      /\ made' = made /\ requests' = requests /\ inbox' = inbox /\ session' = session
      /\ breaks' = breaks
  BY DEF Finish
<1>2. serving = [s \in Slots |-> serving[s]] /\ user \in [Slots -> Frames \cup {NoFrame}]
  BY DEF RelayInd, Types
<1>3. CASE frame' = Advance(f, "done") /\ user' = user /\ serving' = serving
  BY <1>1, <1>2, <1>3, DoneStep
<1>4. ASSUME NEW c \in Slots, Reply(f, c)
      PROVE  RelayInd'
  <2> DEFINE g == user[c]
  <2>1. serving' = [serving EXCEPT ![c] = NoFrame]
    BY <1>4 DEF Reply
  <2>2. serving' = [s \in Slots |-> serving'[s]]
    BY <1>2, <2>1
  <2>3. CASE g # NoFrame /\ frame[g].at = "wait" /\ inbox[c] = <<>>
    <3>1. /\ frame' = [frame EXCEPT ![g].at = "next", ![g].todo = Tail(@), ![f].at = "done"]
          /\ user' = [user EXCEPT ![c] = NoFrame]
      BY <1>4, <2>3 DEF Reply
    <3>2. g \in Frames
      BY <1>2, <2>3
    <3> QED BY <1>1, <2>2, <2>3, <3>1, <3>2, RepliedStep
  <2>4. CASE ~(g # NoFrame /\ frame[g].at = "wait" /\ inbox[c] = <<>>)
    <3>1. frame' = Advance(f, "done") /\ user' = user
      BY <1>4, <2>4 DEF Reply
    <3> QED BY <1>1, <2>2, <3>1, DoneStep
  <2> QED BY <2>3, <2>4
<1> QED BY <1>3, <1>4 DEF Finish
-----------------------------------------------------------------------------
(* A new frame                                                             *)

\* What is common to a client's request and a command that the peer serves.
LEMMA BeginStep ==
    ASSUME RelayInd, NEW n \in NodeSet, NEW cmd \in {"key", "flush"}, NEW db \in DBs,
           NEW todo \in Seq(NodeSet), NEW root \in Frames, NEW want \in DBs,
           Begin(made + 1, n, cmd, db, todo, root, want), breaks' = breaks, user' = user,
           \/ root = made + 1
           \/ root \in 1 .. made /\ frame[root].root = root /\ cmd = frame[root].cmd,
           db # want => db = 0 /\ breaks > 0,
           cmd = "key" => \E k \in NodeSet : todo = <<k>> /\ (root # made + 1 => k = n)
    PROVE  LET f == made + 1 IN
           /\ f \in Frames /\ made \in Nat /\ made' = f /\ made' \in 0 .. MaxFrames
           /\ 1 .. made \subseteq Frames /\ 1 .. made' = (1 .. made) \cup {f} /\ f \notin 1 .. made
           /\ frame' \in [Frames -> FrameType]
           /\ \A x \in Frames : x # f => frame'[x] = frame[x]
           /\ frame'[f].at = "next" /\ frame'[f].root = root /\ frame'[f].node = n
           /\ Later /\ Living'
           /\ \A x \in 1 .. made' : Descends(x)' /\ OneTarget(x)'
           /\ \A x \in Frames : Lent(x)'
           /\ \A s \in Slots : Lender(s)'
<1>0. PICK f : f = made + 1
  OBVIOUS
<1>1. /\ Types /\ user \in [Slots -> Frames \cup {NoFrame}] /\ made \in 0 .. MaxFrames
      /\ MaxFrames \in Nat /\ breaks \in 0 .. MaxBreaks /\ MaxBreaks \in Nat
  BY BoundsAssumption DEF RelayInd, Types
<1>2. /\ f \in Frames /\ made \in Nat /\ made' = f /\ made' \in 0 .. MaxFrames
      /\ frame' \in [Frames -> FrameType] /\ Others(f)
      /\ frame'[f].at = "next" /\ frame'[f].node = n /\ frame'[f].cmd = cmd
      /\ frame'[f].db = db /\ frame'[f].todo = todo /\ frame'[f].root = root
      /\ frame'[f].want = want
  BY <1>0, <1>1, BeginFacts
<1>3. 1 .. made \subseteq Frames /\ 1 .. made' = (1 .. made) \cup {f} /\ f \notin 1 .. made
  BY <1>0, <1>1, <1>2 DEF Frames
<1>4. \A x \in Frames : x # f => frame'[x] = frame[x]
  BY <1>2 DEF Others
<1>5. frame[f].at = "unborn"
  <2>1. f > made
    BY <1>0, <1>2
  <2> QED BY <1>2, <2>1 DEF RelayInd, Living
<1>6. Later
  <2>1. \A x \in 1 .. made : Same(x)
    BY <1>3, <1>4 DEF Same
  <2> QED BY <1>0, <1>1, <1>2, <2>1 DEF Later
<1>7. Living'
  <2> SUFFICES ASSUME NEW x \in Frames
               PROVE  frame'[x].at = "unborn" <=> x > made'
    BY DEF Living
  <2>1. CASE x = f
    BY <1>2, <2>1
  <2>2. CASE x # f
    <3>1. x > made' <=> x > made
      BY <1>0, <1>2, <2>2 DEF Frames
    <3> QED BY <1>4, <2>2, <3>1 DEF RelayInd, Living
  <2> QED BY <2>1, <2>2
<1>8. ASSUME NEW x \in 1 .. made
      PROVE  Descends(x)' /\ OneTarget(x)'
  <2>1. Descends(x) /\ OneTarget(x) /\ frame'[x] = frame[x] /\ Same(x)
    BY <1>3, <1>4, <1>6 DEF RelayInd, Later
  <2> QED BY <1>6, <2>1, DescendsStays, OneTargetStays
<1>9. Descends(f)'
  <2>1. CASE root = f
    BY <1>0, <1>2, <2>1 DEF Descends
  <2>2. CASE root # f
    <3>1. root \in 1 .. made /\ frame[root].root = root /\ cmd = frame[root].cmd
      BY <1>0, <2>2
    <3>2. frame'[root] = frame[root] /\ root \in 1 .. f
      BY <1>0, <1>2, <1>3, <1>4, <3>1
    <3> QED BY <1>2, <3>1, <3>2 DEF Descends
  <2> QED BY <2>1, <2>2
<1>10. OneTarget(f)'
  BY <1>0, <1>2 DEF OneTarget
<1>11. ASSUME NEW x \in Frames
       PROVE  Lent(x)'
  <2>1. CASE x = f
    BY <1>2, <2>1 DEF Lent, Holding
  <2>2. CASE x # f
    BY <1>4, <2>2 DEF RelayInd, Lent
  <2> QED BY <2>1, <2>2
<1>12. ASSUME NEW s \in Slots
       PROVE  Lender(s)'
  <2>1. Lender(s)
    BY DEF RelayInd
  <2>2. user[s] # NoFrame => user[s] # f /\ user[s] \in Frames
    BY <1>1, <1>5, <2>1 DEF Lender, Holding
  <2> QED BY <1>4, <2>1, <2>2 DEF Lender
<1>13. \A x \in 1 .. made' : Descends(x)' /\ OneTarget(x)'
  BY <1>3, <1>8, <1>9, <1>10
<1> QED BY <1>0, <1>2, <1>3, <1>4, <1>6, <1>7, <1>11, <1>12, <1>13

\* The new frame is that of a client, or serves a command on a key that has
\* left its connection and that nobody else serves.
LEMMA OnceGrows ==
    ASSUME RelayInd, NEW f \in Frames, made \in Nat, f = made + 1, made' = f,
           \A x \in Frames : x # f => frame'[x] = frame[x],
           NEW sh \in [Slots -> Nat],
           \A s \in Slots, i \in Nat, r \in Frames : Carries(s, i, r)' => Carries(s, i + sh[s], r),
           NEW q, frame'[f].root = q,
           q # f /\ q \in 1 .. made /\ IsKey(q) =>
               /\ Sent(q) /\ frame'[f].node # frame[q].node
               /\ \A s \in Slots, i \in Nat : ~Carries(s, i, q)'
               /\ \A g \in 1 .. made : ~Served(g, q)
    PROVE  RelayedOnce'
<1>1. 1 .. made \subseteq Frames /\ 1 .. made' = (1 .. made) \cup {f} /\ f \notin 1 .. made
  BY BoundsAssumption DEF Frames
<1>2. \A x \in 1 .. made : frame'[x] = frame[x]
  BY <1>1
<1>3. \A x \in 1 .. made : (IsKey(x)' <=> IsKey(x)) /\ (Sent(x)' <=> Sent(x))
  BY <1>2 DEF IsKey, Sent
<1>4. \A s \in Slots, i \in Nat : i + sh[s] \in Nat
  OBVIOUS
<1>5. RelayedOnce
  BY DEF RelayInd
<1>6. ASSUME NEW s \in Slots, NEW i \in Nat
      PROVE  ~Carries(s, i, f)'
  <2>1. ASSUME Carries(s, i, f)' PROVE FALSE
    <3>1. Carries(s, i + sh[s], f)
      BY <2>1
    <3>2. Prepared(s)
      BY DEF RelayInd
    <3>3. f \in 1 .. made
      BY <3>1, <3>2 DEF Carries, Prepared
    <3> QED BY <1>1, <3>3
  <2> QED BY <2>1
<1>7. ASSUME NEW x \in 1 .. made'
      PROVE  ~Served(x, f)'
  <2>1. CASE x = f
    BY <2>1 DEF Served
  <2>2. CASE x # f
    <3>1. x \in 1 .. made /\ frame'[x] = frame[x] /\ Descends(x)
      BY <1>1, <1>2, <2>2 DEF RelayInd
    <3>2. frame[x].root \in 1 .. x
      BY <3>1 DEF Descends
    <3>3. frame[x].root # f
      BY <3>1, <3>2
    <3> QED BY <3>1, <3>3 DEF Served
  <2> QED BY <2>1, <2>2
<1>8. ASSUME NEW x \in 1 .. made', NEW r \in 1 .. made, Served(x, r)'
      PROVE  (x \in 1 .. made /\ Served(x, r)) \/ (x = f /\ q = r)
  BY <1>1, <1>2, <1>8 DEF Served
<1>9. ASSUME NEW r \in 1 .. made, NEW s \in Slots, NEW i \in Nat, IsKey(r), Carries(s, i, r)'
      PROVE  /\ frame'[r].root = r /\ Sent(r)' /\ s[1] = frame'[r].node
             /\ \A x \in 1 .. made' : ~Served(x, r)'
             /\ \A t \in Slots, j \in Nat : Carries(t, j, r)' => t = s /\ j = i
  <2>1. Carries(s, i + sh[s], r) /\ i + sh[s] \in Nat
    BY <1>1, <1>4, <1>9
  <2>2. frame[r].root = r /\ Sent(r) /\ s[1] = frame[r].node
    BY <1>5, <1>9, <2>1 DEF RelayedOnce
  <2>3. \A x \in 1 .. made : ~Served(x, r)
    BY <1>5, <1>9, <2>1 DEF RelayedOnce
  <2>4. r # q
    BY <1>1, <1>9
  <2>5. \A x \in 1 .. made' : ~Served(x, r)'
    BY <1>8, <2>3, <2>4
  <2>6. ASSUME NEW t \in Slots, NEW j \in Nat, Carries(t, j, r)'
        PROVE  t = s /\ j = i
    <3>1. Carries(t, j + sh[t], r) /\ j + sh[t] \in Nat
      BY <1>1, <1>4, <2>6
    <3>2. t = s /\ j + sh[t] = i + sh[s]
      BY <1>5, <1>9, <2>1, <3>1 DEF RelayedOnce
    <3> QED BY <3>2
  <2> QED BY <1>2, <1>3, <2>2, <2>5, <2>6
<1>10. ASSUME NEW r \in 1 .. made, NEW x \in 1 .. made', IsKey(r), Served(x, r)'
       PROVE  /\ Sent(r)' /\ frame'[x].node # frame'[r].node
              /\ \A g \in 1 .. made' : Served(g, r)' => x = g
  <2>1. CASE q = r
    <3>1. /\ Sent(r) /\ frame'[f].node # frame[r].node
          /\ \A g \in 1 .. made : ~Served(g, r)
      BY <1>1, <1>10, <2>1
    <3>2. \A g \in 1 .. made' : Served(g, r)' => g = f
      BY <1>8, <3>1
    <3> QED BY <1>2, <1>3, <1>10, <3>1, <3>2
  <2>2. CASE q # r
    <3>1. \A g \in 1 .. made' : Served(g, r)' => g \in 1 .. made /\ Served(g, r)
      BY <1>8, <2>2
    <3>2. x \in 1 .. made /\ Served(x, r)
      BY <1>10, <3>1
    <3>3. Sent(r) /\ frame[x].node # frame[r].node
      BY <1>5, <1>10, <3>2 DEF RelayedOnce
    <3>4. \A g \in 1 .. made : Served(g, r) => x = g
      BY <1>5, <1>10, <3>2 DEF RelayedOnce
    <3> QED BY <1>2, <1>3, <3>1, <3>2, <3>3, <3>4
  <2> QED BY <2>1, <2>2
<1>11. \A r \in 1 .. made' : r = f \/ (r \in 1 .. made /\ (IsKey(r)' <=> IsKey(r)))
  BY <1>1, <1>3
<1>12. /\ \A r \in 1 .. made', s \in Slots, i \in Nat : IsKey(r)' /\ Carries(s, i, r)' =>
              /\ frame'[r].root = r /\ Sent(r)' /\ s[1] = frame'[r].node
              /\ \A x \in 1 .. made' : ~Served(x, r)'
              /\ \A t \in Slots, j \in Nat : Carries(t, j, r)' => t = s /\ j = i
       /\ \A r \in 1 .. made', x \in 1 .. made' : IsKey(r)' /\ Served(x, r)' =>
              /\ Sent(r)' /\ frame'[x].node # frame'[r].node
              /\ \A g \in 1 .. made' : Served(g, r)' => x = g
  BY <1>6, <1>7, <1>9, <1>10, <1>11
<1> QED BY <1>12 DEF RelayedOnce

LEMMA RequestStep ==
    ASSUME RelayInd, Request
    PROVE  RelayInd'
<1>1. PICK n \in Entry, picked \in NodeSet, input \in Inputs :
          /\ requests < MaxRequests /\ requests' = requests + 1
          /\ Begin(made + 1, n, input[1], input[2], Targets(input[1], picked), made + 1, input[2])
          /\ UNCHANGED <<conns, breaks>>
  BY DEF Request
<1>2. user' = user /\ inbox' = inbox /\ session' = session /\ serving' = serving /\ breaks' = breaks
  BY <1>1 DEF conns
<1> DEFINE cmd == input[1]
           db == input[2]
           todo == Targets(cmd, picked)
<1>3. n \in NodeSet /\ cmd \in {"key", "flush"} /\ db \in DBs
  BY EntryAssumption, InputsAssumption
<1>4. todo \in Seq(NodeSet) /\ (cmd = "key" => todo = <<picked>>)
  BY NodesAssumption DEF Targets
<1>5. /\ Types /\ requests \in 0 .. MaxRequests /\ MaxRequests \in Nat
      /\ made \in 0 .. MaxFrames /\ MaxFrames \in Nat
  BY BoundsAssumption DEF RelayInd, Types
<1>6. requests' \in 0 .. MaxRequests
  BY <1>1, <1>5
<1>7. Begin(made + 1, n, cmd, db, todo, made + 1, db)
  BY <1>1
<1>8. PICK f : f = made + 1
  OBVIOUS
<1>9. f \in Frames
  BY <1>5, <1>7, <1>8 DEF Begin, Frames
<1> HIDE DEF cmd, db, todo
<1>10. /\ made \in Nat /\ made' = f /\ made' \in 0 .. MaxFrames
       /\ frame' \in [Frames -> FrameType]
       /\ \A x \in Frames : x # f => frame'[x] = frame[x]
       /\ frame'[f].at = "next" /\ frame'[f].root = f
       /\ Later /\ Living'
       /\ \A x \in 1 .. made' : Descends(x)' /\ OneTarget(x)'
       /\ \A x \in Frames : Lent(x)'
       /\ \A s \in Slots : Lender(s)'
  <2>1. Begin(made + 1, n, cmd, db, todo, f, db)
    BY <1>7, <1>8
  <2>2. cmd = "key" => \E k \in NodeSet : todo = <<k>> /\ (f # made + 1 => k = n)
    BY <1>4, <1>8
  <2> QED BY <1>2, <1>3, <1>4, <1>8, <1>9, <2>1, <2>2, BeginStep
<1>11. Types'
  BY <1>2, <1>5, <1>6, <1>10 DEF Types
<1>12. ASSUME NEW x \in Frames
       PROVE  Ready(x)'
  <2>1. CASE x = f
    BY <1>10, <2>1 DEF Ready
  <2>2. CASE x # f
    BY <1>2, <1>10, <2>2, ReadyQuiet
  <2> QED BY <2>1, <2>2
<1>13. ASSUME NEW s \in Slots
       PROVE  Prepared(s)'
  <2>1. Prepared(s)
    BY DEF RelayInd
  <2> QED BY <1>2, <1>10, <2>1, PreparedStays
<1>14. RelayedOnce'
  <2> DEFINE sh == [s \in Slots |-> 0]
  <2>1. sh \in [Slots -> Nat] /\ \A s \in Slots : sh[s] = 0
    OBVIOUS
  <2> HIDE DEF sh
  <2>2. ASSUME NEW s \in Slots, NEW i \in Nat, NEW r \in Frames, Carries(s, i, r)'
        PROVE  Carries(s, i + sh[s], r)
    <3>1. i + sh[s] = i
      BY <2>1
    <3> QED BY <1>2, <2>2, <3>1 DEF Carries
  <2> QED BY <1>8, <1>9, <1>10, <2>1, <2>2, OnceGrows
<1> QED BY <1>10, <1>11, <1>12, <1>13, <1>14 DEF RelayInd
LEMMA ServeCommandStep ==
    ASSUME RelayInd, NEW c \in Slots, ServeCommand(c)
    PROVE  RelayInd'
<1>0. PICK h : h = Head(inbox[c]).arg
  OBVIOUS
<1>1. PICK f : f = made + 1
  OBVIOUS
<1>2. /\ inbox[c] # <<>> /\ ~Head(inbox[c]).select
      /\ Begin(made + 1, c[2], frame[h].cmd, session[c], Targets(frame[h].cmd, c[2]),
               frame[h].root, frame[h].want)
      /\ serving' = [serving EXCEPT ![c] = f]
      /\ inbox' = [inbox EXCEPT ![c] = Tail(inbox[c])]
      /\ requests' = requests /\ user' = user /\ session' = session /\ breaks' = breaks
  BY <1>0, <1>1 DEF ServeCommand
<1>3. /\ Types /\ inbox \in [Slots -> Seq(Messages)] /\ session \in [Slots -> DBs]
      /\ frame \in [Frames -> FrameType] /\ made \in 0 .. MaxFrames /\ MaxFrames \in Nat
  BY BoundsAssumption DEF RelayInd, Types
<1>4. inbox[c] \in Seq(Messages) /\ Tail(inbox[c]) \in Seq(Messages)
  BY <1>2, <1>3
<1>5. Len(inbox[c]) \in Nat /\ 1 \in 1 .. Len(inbox[c]) /\ Head(inbox[c]) = inbox[c][1]
  <2>1. Len(inbox[c]) # 0
    BY <1>2, <1>4
  <2>2. Len(inbox[c]) \in Nat
    BY <1>4
  <2> QED BY <1>4, <2>1, <2>2, HeadTailProperties
<1>6. Carries(c, 1, h)
  BY <1>0, <1>2, <1>5 DEF Carries
<1>7. h \in 1 .. made /\ Fitting(session[c], h)
  <2>1. Prepared(c)
    BY DEF RelayInd
  <2> QED BY <1>5, <1>6, <2>1 DEF Prepared, Carries
<1>8. h \in Frames /\ f \in Frames
  BY <1>1, <1>2, <1>3, <1>7 DEF Begin, Frames
<1>9. /\ c[1] \in NodeSet /\ c[2] \in NodeSet /\ c[1] # c[2]
  BY DEF Slots
<1> DEFINE cmd == frame[h].cmd
           root == frame[h].root
           want == frame[h].want
           db == session[c]
           todo == Targets(cmd, c[2])
<1>10. cmd \in {"key", "flush"} /\ want \in DBs /\ db \in DBs
  BY <1>3, <1>8 DEF FrameType
<1>11. todo \in Seq(NodeSet) /\ (cmd = "key" => todo = <<c[2]>>)
  BY <1>9, <1>10, NodesAssumption DEF Targets
<1>12. /\ root \in 1 .. h /\ frame[root].root = root /\ cmd = frame[root].cmd
       /\ db # want => db = 0 /\ breaks > 0
  <2>1. Descends(h)
    BY <1>7 DEF RelayInd
  <2> QED BY <1>7, <2>1 DEF Descends, Fitting
<1>13. root \in 1 .. made /\ root \in Frames /\ root # f
  BY <1>1, <1>3, <1>7, <1>12 DEF Frames
<1>14. Begin(made + 1, c[2], cmd, db, todo, root, want)
  BY <1>2
<1>15. PICK q : q = root
  OBVIOUS
<1> HIDE DEF cmd, root, want, db, todo
<1>16. /\ made \in Nat /\ made' = f /\ made' \in 0 .. MaxFrames
       /\ frame' \in [Frames -> FrameType]
       /\ \A x \in Frames : x # f => frame'[x] = frame[x]
       /\ frame'[f].at = "next" /\ frame'[f].root = root /\ frame'[f].node = c[2]
       /\ Later /\ Living'
       /\ \A x \in 1 .. made' : Descends(x)' /\ OneTarget(x)'
       /\ \A x \in Frames : Lent(x)'
       /\ \A s \in Slots : Lender(s)'
  <2>1. cmd = "key" => \E k \in NodeSet : todo = <<k>> /\ (root # made + 1 => k = c[2])
    BY <1>9, <1>11
  <2> QED BY <1>1, <1>2, <1>9, <1>10, <1>11, <1>12, <1>13, <1>14, <2>1, BeginStep
<1>17. /\ inbox' \in [Slots -> Seq(Messages)] /\ inbox'[c] = Tail(inbox[c])
       /\ \A s \in Slots : s # c => inbox'[s] = inbox[s]
  BY <1>2, <1>3, <1>4
<1>18. session'[c] = IF Head(inbox[c]).select THEN Head(inbox[c]).arg ELSE session[c]
  BY <1>2
<1>19. Types'
  <2>1. serving' = [s \in Slots |-> serving'[s]]
    BY <1>2, <1>3 DEF Types
  <2> QED BY <1>2, <1>3, <1>16, <1>17, <2>1 DEF Types
<1>20. ASSUME NEW x \in Frames
       PROVE  Ready(x)'
  <2>1. CASE x = f
    BY <1>16, <2>1 DEF Ready
  <2>2. CASE x # f
    <3>1. Lent(x) /\ Ready(x) /\ frame'[x] = frame[x]
      BY <1>16, <2>2 DEF RelayInd
    <3>2. CASE frame[x].at = "selected" /\ frame[x].slot = c
      <4>1. x \in 1 .. made
        BY <3>2, Alive
      <4> QED BY <1>2, <1>4, <1>16, <1>17, <1>18, <3>1, <3>2, <4>1, ReadyServed
    <3>3. CASE ~(frame[x].at = "selected" /\ frame[x].slot = c)
      <4>1. frame[x].at = "selected" => frame[x].slot \in Slots /\ frame[x].slot # c
        BY <3>1, <3>3 DEF Lent, Holding
      <4> QED BY <1>2, <1>16, <1>17, <3>1, <4>1, ReadyQuiet
    <3> QED BY <3>2, <3>3
  <2> QED BY <2>1, <2>2
<1>21. ASSUME NEW s \in Slots
       PROVE  Prepared(s)'
  <2>1. Prepared(s)
    BY DEF RelayInd
  <2>2. CASE s = c
    BY <1>2, <1>4, <1>16, <1>17, <1>18, <2>1, <2>2, PreparedServed
  <2>3. CASE s # c
    BY <1>2, <1>16, <1>17, <2>1, <2>3, PreparedStays
  <2> QED BY <2>2, <2>3
<1>22. RelayedOnce'
  <2> DEFINE sh == [s \in Slots |-> IF s = c THEN 1 ELSE 0]
  <2>1. sh \in [Slots -> Nat] /\ sh[c] = 1 /\ \A s \in Slots : s # c => sh[s] = 0
    OBVIOUS
  <2> HIDE DEF sh
  <2>2. ASSUME NEW s \in Slots, NEW i \in Nat, NEW r \in Frames, Carries(s, i, r)'
        PROVE  Carries(s, i + sh[s], r)
    <3>1. CASE s # c
      <4>1. Carries(s, i, r)
        BY <1>17, <2>2, <3>1 DEF Carries
      <4>2. i + sh[s] = i
        BY <2>1, <3>1
      <4> QED BY <4>1, <4>2
    <3>2. CASE s = c
      BY <1>2, <1>4, <1>17, <2>1, <2>2, <3>2, CarriesTail
    <3> QED BY <3>1, <3>2
  <2>3. ASSUME IsKey(q)
        PROVE  /\ Sent(q) /\ frame'[f].node # frame[q].node
               /\ \A s \in Slots, i \in Nat : ~Carries(s, i, q)'
               /\ \A g \in 1 .. made : ~Served(g, q)
    <3>1. RelayedOnce
      BY DEF RelayInd
    <3>2. IsKey(h)
      BY <1>12, <1>15, <2>3 DEF IsKey, cmd
    <3>3. frame[h].root = h /\ Sent(h) /\ c[1] = frame[h].node
      BY <1>6, <1>7, <3>1, <3>2 DEF RelayedOnce
    <3>4. q = h
      BY <1>15, <3>3 DEF root
    <3>5. \A g \in 1 .. made : ~Served(g, h)
      BY <1>6, <1>7, <3>1, <3>2 DEF RelayedOnce
    <3>6. ASSUME NEW s \in Slots, NEW i \in Nat, Carries(s, i, h)'
          PROVE  FALSE
      <4>1. Carries(s, i + sh[s], h) /\ i + sh[s] \in Nat
        BY <1>8, <2>1, <2>2, <3>6
      <4>2. s = c /\ i + sh[s] = 1
        BY <1>6, <1>7, <3>1, <3>2, <4>1 DEF RelayedOnce
      <4>3. i = 0
        BY <2>1, <4>2
      <4>4. i \in 1 .. Len(inbox'[s])
        BY <3>6 DEF Carries
      <4> QED BY <4>3, <4>4
    <3> QED BY <1>9, <1>16, <3>3, <3>4, <3>5, <3>6
  <2>4. frame'[f].root = q
    BY <1>15, <1>16
  <2> QED BY <1>1, <1>8, <1>16, <2>1, <2>2, <2>3, <2>4, OnceGrows
<1> QED BY <1>16, <1>19, <1>20, <1>21, <1>22 DEF RelayInd

-----------------------------------------------------------------------------
(* The theorem                                                             *)

LEMMA InitRelay ==
    ASSUME Init
    PROVE  RelayInd
<1>1. made = 0 /\ 1 .. made = {}
  BY DEF Init
<1>2. Unborn \in FrameType /\ Unborn.at = "unborn"
  <2>1. Nodes[1] \in NodeSet
    <3>1. Len(Nodes) \in Nat /\ Len(Nodes) # 0
      BY NodesAssumption
    <3> QED BY <3>1 DEF NodeSet
  <2> QED BY <2>1, DBsAssumption DEF Unborn, FrameType
<1>3. Types
  <2>1. <<>> \in Seq(Messages)
    OBVIOUS
  <2> QED BY <1>2, <2>1, DBsAssumption, BoundsAssumption DEF Init, Types
<1>4. Living
  BY <1>2, BoundsAssumption DEF Init, Living, Frames
<1>5. \A f \in Frames : frame[f].at = "unborn"
  BY <1>2 DEF Init
<1>6. \A f \in Frames : Lent(f) /\ Ready(f)
  BY <1>5 DEF Lent, Ready, Holding
<1>7. ASSUME NEW s \in Slots
      PROVE  Lender(s) /\ Prepared(s)
  <2>1. user[s] = NoFrame /\ inbox[s] = <<>>
    BY DEF Init
  <2>2. 1 .. Len(inbox[s]) = {}
    BY <2>1
  <2> QED BY <2>1, <2>2 DEF Lender, Prepared
<1>8. RelayedOnce
  BY <1>1 DEF RelayedOnce
<1> QED BY <1>1, <1>3, <1>4, <1>6, <1>7, <1>8 DEF RelayInd

\* What the invariant says of the properties of the model.
LEMMA RelayIndImplies ==
    ASSUME RelayInd
    PROVE  RelayInv
<1>1. /\ made \in 0 .. MaxFrames /\ requests \in 0 .. MaxRequests /\ breaks \in 0 .. MaxBreaks
      /\ frame \in [Frames -> FrameType] /\ user \in [Slots -> Frames \cup {NoFrame}]
      /\ session \in [Slots -> DBs]
  BY DEF RelayInd, Types
<1>2. TypeOK
  <2>1. ASSUME NEW f \in Frames
        PROVE  /\ frame[f].at \in {"unborn", "next", "borrowed", "selected", "wait", "done"}
               /\ frame[f].at = "unborn" <=> f > made
               /\ frame[f].at \in {"borrowed", "selected", "wait"} => user[frame[f].slot] = f
    <3>1. frame[f].at \in {"unborn", "next", "borrowed", "selected", "wait", "done"}
      BY <1>1 DEF FrameType, Holding
    <3>2. Lent(f) /\ (frame[f].at = "unborn" <=> f > made)
      BY DEF RelayInd, Living
    <3> QED BY <3>1, <3>2 DEF Lent, Holding
  <2>2. ASSUME NEW s \in Slots
        PROVE  /\ user[s] \in Frames \cup {NoFrame} /\ session[s] \in DBs
               /\ user[s] # NoFrame => frame[user[s]].slot = s
    BY <1>1 DEF RelayInd, Lender
  <2> QED BY <1>1, <2>1, <2>2 DEF TypeOK
<1>3. OwnDBOrZero
  BY DEF RelayInd, Descends, OwnDBOrZero
<1>4. OnceUnlessFlush
  <2> SUFFICES ASSUME NEW f \in 1 .. made, NEW g \in 1 .. made, frame[f].cmd = "key",
                      frame[f].root = frame[g].root, frame[f].node = frame[g].node
               PROVE  f = g
    BY DEF OnceUnlessFlush
  <2>1. PICK r : r = frame[f].root
    OBVIOUS
  <2>2. r \in 1 .. f /\ frame[f].cmd = frame[r].cmd
    BY <2>1 DEF RelayInd, Descends
  <2>3. r \in 1 .. made /\ IsKey(r)
    BY <1>1, <2>2, BoundsAssumption DEF IsKey
  <2>4. RelayedOnce
    BY DEF RelayInd
  <2>5. (f = r \/ Served(f, r)) /\ (g = r \/ Served(g, r))
    BY <2>1 DEF Served
  <2>6. \A x \in 1 .. made : Served(x, r) => frame[x].node # frame[r].node
    BY <2>3, <2>4 DEF RelayedOnce
  <2>7. Served(f, r) /\ Served(g, r) => f = g
    BY <2>3, <2>4 DEF RelayedOnce
  <2> QED BY <2>5, <2>6, <2>7
<1> QED BY <1>2, <1>3, <1>4 DEF RelayInv

LEMMA RelayStep ==
    ASSUME RelayInd, [Next]_vars
    PROVE  RelayInd'
<1>1. CASE Request
  BY <1>1, RequestStep
<1>2. ASSUME NEW f \in Frames, Run(f) \/ Borrow(f) \/ BorrowFails(f) \/ Timeout(f)
      PROVE  RelayInd'
  BY <1>2, ExecHereStep, SendSelectStep, SendCommandStep, FinishStep, BorrowStep, TimeoutStep DEF Run
<1>3. ASSUME NEW s \in Slots, Serve(s) \/ Break(s)
      PROVE  RelayInd'
  BY <1>3, ServeSelectStep, ServeCommandStep, BreakStep DEF Serve
<1>4. CASE UNCHANGED vars
  <2>1. /\ frame' = frame /\ made' = made /\ requests' = requests /\ breaks' = breaks
        /\ user' = user /\ inbox' = inbox /\ session' = session /\ serving' = serving
    BY <1>4 DEF vars, conns
  <2>2. Types' /\ Living'
    BY <2>1 DEF RelayInd, Types, Living
  <2>3. \A f \in 1 .. made' : Descends(f)' /\ OneTarget(f)'
    BY <2>1 DEF RelayInd, Descends, OneTarget
  <2>4. \A f \in Frames : Lent(f)' /\ Ready(f)'
    BY <2>1 DEF RelayInd, Lent, Ready, Fitting
  <2>5. \A s \in Slots : Lender(s)' /\ Prepared(s)'
    BY <2>1 DEF RelayInd, Lender, Prepared, Fitting
  <2>6. RelayedOnce'
    <3>1. \A x \in Frames : Moves(x)
      BY <2>1 DEF Moves, Same
    <3>2. \A s \in Slots, i \in Nat, r \in 1 .. made : Carries(s, i, r)' => Carries(s, i, r)
      BY <2>1 DEF Carries
    <3> QED BY <2>1, <3>1, <3>2, OnceQuiet
  <2> QED BY <2>2, <2>3, <2>4, <2>5, <2>6 DEF RelayInd
<1> QED BY <1>1, <1>2, <1>3, <1>4 DEF Next

\* For any nodes, databases, pools and clients: a pooled connection has one
\* user at a time, a relayed command runs in the database its client selected
\* or, after a break, in database 0, and a command on a key runs at most once
\* on a node, whatever times out or breaks (relayExec of com.go).
THEOREM RelayCorrect == Spec => []RelayInv
<1>1. Init => RelayInd
  BY InitRelay
<1>2. RelayInd /\ [Next]_vars => RelayInd'
  BY RelayStep
<1>3. RelayInd => RelayInv
  BY RelayIndImplies
<1> QED BY <1>1, <1>2, <1>3, PTL DEF Spec
=============================================================================
