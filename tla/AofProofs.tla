----------------------------- MODULE AofProofs ------------------------------
(***************************************************************************)
(* Proofs about the append-only file, for any number of databases, any     *)
(* channel capacity and any number of commands, failed writes and crashes. *)
(***************************************************************************)
EXTENDS Aof, TLAPS

-----------------------------------------------------------------------------
(* Types                                                                   *)

LEMMA Zero == 0 \in DBs
  BY DatabasesAssumption DEF DBs

LEMMA EntryTypes ==
    /\ \A d \in DBs : Select(d) \in Entries
    /\ \A p \in Payloads, b \in BOOLEAN : Command(p, b) \in Entries
  BY DEF Select, Command, Entries, Payloads

\* handleAof has a payload in its hand while it writes.
LEMMA InHand ==
    ASSUME TypeOK, todo # "receive"
    PROVE  Len(hand) = 1 /\ hand[1] \in Payloads
<1>1. Len(hand) = 1 /\ hand \in Seq(Payloads)
  BY DEF TypeOK
<1> QED BY <1>1

LEMMA TypeInit == Init => TypeOK
<1> SUFFICES ASSUME Init PROVE TypeOK
  OBVIOUS
<1>1. up \in BOOLEAN /\ skewed \in BOOLEAN
  BY DEF Init
<1>2. aofChan \in Seq(Payloads) /\ hand \in Seq(Payloads) /\ file \in Seq(Entries) /\ Len(hand) = 0
  BY DEF Init
<1>3. sent \in 0 .. MaxCmds /\ errors \in 0 .. MaxErrors /\ restarts \in 0 .. MaxRestarts
  BY BoundsAssumption DEF Init
<1> QED BY <1>1, <1>2, <1>3, Zero DEF Init, TypeOK

LEMMA TypeNext ==
    ASSUME TypeOK, [Next]_vars
    PROVE  TypeOK'
<1> USE DEF TypeOK
<1>1. CASE UNCHANGED vars
  BY <1>1 DEF vars
<1>2. ASSUME NEW d \in DBs, AddAof(d) PROVE TypeOK'
  <2>1. sent + 1 \in Ids /\ sent' \in 0 .. MaxCmds
    BY <1>2, BoundsAssumption DEF AddAof, Ids
  <2>2. Payload(d, sent + 1) \in Payloads
    BY <2>1 DEF Payload, Payloads
  <2>3. aofChan' \in Seq(Payloads)
    BY <1>2, <2>2 DEF AddAof
  <2> QED BY <1>2, <2>1, <2>3 DEF AddAof
<1>3. CASE Receive
  <2>1. Head(aofChan) \in Payloads /\ Tail(aofChan) \in Seq(Payloads)
    BY <1>3 DEF Receive
  <2>2. Head(aofChan).db \in DBs
    BY <2>1 DEF Payloads
  <2>3. hand' \in Seq(Payloads) /\ Len(hand') = 1
    BY <1>3, <2>1 DEF Receive
  <2> QED BY <1>3, <2>1, <2>2, <2>3 DEF Receive
<1>4. CASE WriteSelect
  <2>1. hand[1] \in Payloads
    BY <1>4, InHand DEF WriteSelect
  <2>2. Select(hand[1].db) \in Entries
    BY <2>1, EntryTypes DEF Payloads
  <2>3. file' \in Seq(Entries)
    BY <1>4, <2>2 DEF WriteSelect
  <2>4. skewed' \in BOOLEAN
    BY <1>4 DEF WriteSelect
  <2> QED BY <1>4, <2>3, <2>4 DEF WriteSelect
<1>5. CASE WriteCmd
  <2>1. hand[1] \in Payloads
    BY <1>5, InHand DEF WriteCmd
  <2>2. Command(hand[1], skewed) \in Entries
    BY <2>1, EntryTypes, Zero
  <2>3. file' \in Seq(Entries) /\ hand' \in Seq(Payloads) /\ Len(hand') = 0
    BY <1>5, <2>2 DEF WriteCmd
  <2> QED BY <1>5, <2>3 DEF WriteCmd
<1>6. CASE WriteFails
  <2>1. hand[1] \in Payloads
    BY <1>6, InHand DEF WriteFails
  <2>2. dropped' \subseteq Ids
    BY <1>6, <2>1 DEF WriteFails, Payloads
  <2>3. skewed' \in BOOLEAN
    BY <1>6 DEF WriteFails
  <2>4. errors' \in 0 .. MaxErrors /\ hand' \in Seq(Payloads) /\ Len(hand') = 0
    BY <1>6, BoundsAssumption DEF WriteFails
  <2> QED BY <1>6, <2>2, <2>3, <2>4 DEF WriteFails
<1>7. CASE Crash
  <2>1. InFlight \subseteq Ids
    <3>1. \A q \in Seq(Payloads) : \A i \in 1 .. Len(q) : q[i] \in Payloads
      OBVIOUS
    <3>2. \A p \in Payloads : p.id \in Ids
      BY DEF Payloads
    <3> QED BY <3>1, <3>2 DEF InFlight
  <2>2. up' \in BOOLEAN /\ skewed' \in BOOLEAN
    BY <1>7 DEF Crash
  <2>3. restarts' \in 0 .. MaxRestarts /\ crashed' \subseteq Ids
    BY <1>7, <2>1, BoundsAssumption DEF Crash
  <2>4. aofChan' \in Seq(Payloads) /\ hand' \in Seq(Payloads) /\ Len(hand') = 0
    BY <1>7 DEF Crash
  <2> QED BY <1>7, <2>2, <2>3, <2>4, Zero DEF Crash
<1>8. CASE LoadAof
  <2>1. up' \in BOOLEAN /\ skewed' \in BOOLEAN
    BY <1>8 DEF LoadAof
  <2>2. currentDB' \in DBs
    BY <1>8 DEF LoadAof
  <2>3. file' \in Seq(Entries)
    <3>1. Select(0) \in Entries
      BY EntryTypes, Zero
    <3>2. file' = file \/ file' = Append(file, Select(0))
      BY <1>8 DEF LoadAof
    <3>3. CASE file' = Append(file, Select(0))
      BY <3>1, <3>3
    <3> QED BY <3>2, <3>3
  <2>4. errors' \in 0 .. MaxErrors
    BY <1>8, BoundsAssumption DEF LoadAof
  <2> QED BY <1>8, <2>1, <2>2, <2>3, <2>4 DEF LoadAof
<1> QED BY <1>1, <1>2, <1>3, <1>4, <1>5, <1>6, <1>7, <1>8 DEF Next, HandleAof

\* Every variable keeps its type.
THEOREM TypeCorrect == Spec => []TypeOK
  BY TypeInit, TypeNext, PTL DEF Spec

-----------------------------------------------------------------------------
(* What a replay has selected                                              *)

\* Appending an entry does not change what earlier entries select.
LEMMA SelectsBefore ==
    ASSUME NEW f \in Seq(Entries), NEW e \in Entries, NEW n \in 0 .. Len(f), NEW d
    PROVE  Selects(Append(f, e), n, d) <=> Selects(f, n, d)
<1>1. \A i \in 1 .. n : Append(f, e)[i] = f[i]
  OBVIOUS
<1> QED BY <1>1 DEF Selects

\* A SELECT entry selects its database, a command leaves it as it is.
LEMMA SelectsAppend ==
    ASSUME NEW f \in Seq(Entries), NEW e \in Entries, NEW d,
           \/ e.kind = "select" /\ e.db = d
           \/ e.kind = "cmd" /\ Selects(f, Len(f), d)
    PROVE  Selects(Append(f, e), Len(f) + 1, d)
<1> DEFINE g == Append(f, e)
<1>1. Len(f) \in Nat /\ g[Len(f) + 1] = e /\ \A i \in 1 .. Len(f) : g[i] = f[i]
  OBVIOUS
<1>2. CASE e.kind = "select" /\ e.db = d
  <2>1. \A j \in (Len(f) + 1) + 1 .. Len(f) + 1 : g[j].kind # "select"
    BY <1>1
  <2> QED BY <1>1, <1>2, <2>1 DEF Selects
<1>3. CASE e.kind = "cmd" /\ Selects(f, Len(f), d)
  <2>1. CASE d = 0 /\ \A i \in 1 .. Len(f) : f[i].kind # "select"
    <3>1. \A i \in 1 .. Len(f) + 1 : g[i].kind # "select"
      BY <1>1, <1>3, <2>1
    <3> QED BY <2>1, <3>1 DEF Selects
  <2>2. ASSUME NEW i \in 1 .. Len(f), f[i].kind = "select", f[i].db = d,
               \A j \in i + 1 .. Len(f) : f[j].kind # "select"
        PROVE  Selects(g, Len(f) + 1, d)
    <3>1. \A j \in i + 1 .. Len(f) + 1 : g[j].kind # "select"
      BY <1>1, <1>3, <2>2
    <3> QED BY <1>1, <2>2, <3>1, SMTT(30) DEF Selects
  <2> QED BY <1>3, <2>1, <2>2 DEF Selects
<1> QED BY <1>2, <1>3

-----------------------------------------------------------------------------
(* Commands are replayed in their own database                             *)

\* While the process is up and nothing has put the two out of step, the file
\* as it stands selects h.currentDB, except between the assignment to it and
\* the write of the SELECT.
InStep ==
    /\ todo # "receive" => hand[1].db = currentDB
    /\ ~up => todo = "receive" /\ ~skewed
    /\ up /\ ~skewed /\ todo # "select" => Selects(file, Len(file), currentDB)

OwnDBInv == TypeOK /\ InStep /\ MisfiledOnlyWhileSkewed

LEMMA OwnDBInit == Init => InStep /\ MisfiledOnlyWhileSkewed
  BY DEF Init, InStep, MisfiledOnlyWhileSkewed, Selects

\* Appending an entry that is filed right, or marked, keeps the file good.
LEMMA MisfiledAppend ==
    ASSUME TypeOK, MisfiledOnlyWhileSkewed, NEW e \in Entries, file' = Append(file, e),
           e.kind = "cmd" /\ ~Selects(file, Len(file), e.db) => e.skewed
    PROVE  MisfiledOnlyWhileSkewed'
<1> file \in Seq(Entries)
  BY DEF TypeOK
<1> SUFFICES ASSUME NEW i \in 1 .. Len(file) + 1, Misfiled(i)' PROVE file'[i].skewed
  BY DEF MisfiledOnlyWhileSkewed
<1>1. CASE i \in 1 .. Len(file)
  <2>1. file'[i] = file[i] /\ i - 1 \in 0 .. Len(file)
    BY <1>1
  <2>2. Misfiled(i)
    BY <2>1, SelectsBefore DEF Misfiled
  <2> QED BY <1>1, <2>1, <2>2 DEF MisfiledOnlyWhileSkewed
<1>2. CASE i = Len(file) + 1
  <2>1. file'[i] = e /\ i - 1 = Len(file) /\ Len(file) \in 0 .. Len(file)
    BY <1>2
  <2>2. e.kind = "cmd" /\ ~Selects(file, Len(file), e.db)
    BY <2>1, SelectsBefore DEF Misfiled
  <2> QED BY <2>1, <2>2
<1> QED BY <1>1, <1>2

LEMMA OwnDBNext ==
    ASSUME TypeOK, TypeOK', InStep, MisfiledOnlyWhileSkewed, [Next]_vars
    PROVE  (InStep /\ MisfiledOnlyWhileSkewed)'
<1> file \in Seq(Entries)
  BY DEF TypeOK
<1>0. ASSUME UNCHANGED file PROVE MisfiledOnlyWhileSkewed'
  BY <1>0 DEF MisfiledOnlyWhileSkewed, Misfiled
<1>1. CASE UNCHANGED vars
  BY <1>0, <1>1 DEF vars, InStep
<1>2. ASSUME NEW d \in DBs, AddAof(d) PROVE (InStep /\ MisfiledOnlyWhileSkewed)'
  BY <1>0, <1>2 DEF AddAof, InStep
<1>3. CASE Receive
  <2>1. hand'[1] = Head(aofChan) /\ currentDB' = Head(aofChan).db /\ up /\ UNCHANGED <<file, up, skewed>>
    BY <1>3 DEF Receive
  <2>2. todo' # "select" => currentDB' = currentDB
    BY <1>3 DEF Receive
  <2>3. todo # "select"
    BY <1>3 DEF Receive
  <2> QED BY <1>0, <2>1, <2>2, <2>3 DEF InStep
<1>4. CASE WriteSelect
  <2> DEFINE e == Select(hand[1].db)
  <2>1. e \in Entries /\ e.kind = "select" /\ e.db = hand[1].db
    BY <1>4, InHand, EntryTypes DEF WriteSelect, Select, Payloads
  <2>2. /\ file' = Append(file, e) /\ up' = up /\ up /\ todo = "select" /\ todo' = "cmd"
        /\ hand' = hand /\ currentDB' = currentDB
    BY <1>4 DEF WriteSelect
  <2>3. Selects(file', Len(file'), currentDB')
    BY <2>1, <2>2, SelectsAppend DEF InStep
  <2>4. MisfiledOnlyWhileSkewed'
    BY <2>1, <2>2, MisfiledAppend
  <2> QED BY <2>2, <2>3, <2>4 DEF InStep
<1>5. CASE WriteCmd
  <2> DEFINE e == Command(hand[1], skewed)
  <2>1. e \in Entries /\ e.kind = "cmd" /\ e.db = hand[1].db /\ e.skewed = skewed
    BY <1>5, InHand, EntryTypes DEF WriteCmd, Command, TypeOK
  <2>2. /\ file' = Append(file, e) /\ up' = up /\ up /\ todo = "cmd" /\ todo' = "receive"
        /\ currentDB' = currentDB /\ skewed' = skewed
    BY <1>5 DEF WriteCmd
  <2>3. ~skewed => Selects(file, Len(file), hand[1].db)
    BY <2>2 DEF InStep
  <2>4. ~skewed => Selects(file', Len(file'), currentDB')
    BY <2>1, <2>2, <2>3, SelectsAppend DEF InStep
  <2>5. MisfiledOnlyWhileSkewed'
    BY <2>1, <2>2, <2>3, MisfiledAppend
  <2> QED BY <2>2, <2>4, <2>5 DEF InStep
<1>6. CASE WriteFails
  <2>1. /\ up /\ up' = up /\ todo' = "receive" /\ UNCHANGED <<file, currentDB>>
        /\ ~skewed' => ~skewed /\ todo # "select"
    BY <1>6 DEF WriteFails
  <2> QED BY <1>0, <2>1 DEF InStep
<1>7. CASE Crash
  <2>1. ~up' /\ ~skewed' /\ todo' = "receive" /\ file' = file
    BY <1>7 DEF Crash
  <2> QED BY <1>0, <2>1 DEF InStep
<1>8. CASE LoadAof
  <2>1. todo' = "receive" /\ up' /\ Selects(file, Len(file), currentDB')
    BY <1>8 DEF LoadAof, InStep
  <2>2. CASE UNCHANGED file
    BY <1>0, <2>1, <2>2 DEF InStep
  <2>3. CASE file' = Append(file, Select(0)) /\ skewed'
    <3>1. Select(0) \in Entries /\ Select(0).kind = "select"
      BY EntryTypes, Zero DEF Select
    <3> QED BY <2>1, <2>3, <3>1, MisfiledAppend DEF InStep
  <2> QED BY <1>8, <2>2, <2>3 DEF LoadAof
<1> QED BY <1>1, <1>2, <1>3, <1>4, <1>5, <1>6, <1>7, <1>8 DEF Next, HandleAof

\* A replay runs a command in a wrong database only if it was written while
\* h.currentDB was out of step with the file.
THEOREM MisfilesAreSkewed == Spec => []MisfiledOnlyWhileSkewed
<1>1. Init => OwnDBInv
  BY TypeInit, OwnDBInit DEF OwnDBInv
<1>2. OwnDBInv /\ [Next]_vars => OwnDBInv'
  BY TypeNext, OwnDBNext DEF OwnDBInv
<1>3. OwnDBInv => MisfiledOnlyWhileSkewed
  BY DEF OwnDBInv
<1> QED BY <1>1, <1>2, <1>3, PTL DEF Spec

-----------------------------------------------------------------------------
(* Order and loss                                                          *)

\* The number of the last command that is no longer in memory.
Settled == sent - Len(aofChan) - Len(hand)

\* The commands in memory are the last ones sent, in order, and the file has
\* only older ones.
Numbered ==
    /\ Len(aofChan) <= aofBufferSize
    /\ Settled >= 0
    /\ \A i \in 1 .. Len(aofChan) : aofChan[i].id = sent - Len(aofChan) + i
    /\ \A i \in 1 .. Len(hand) : hand[i].id = sent - Len(aofChan)
    /\ \A i \in 1 .. Len(file) : file[i].kind = "cmd" => file[i].id <= Settled

OrderInv == TypeOK /\ Numbered /\ FileInSendingOrder

LEMMA OrderInit == Init => Numbered /\ FileInSendingOrder
  BY BufferAssumption DEF Init, Numbered, Settled, FileInSendingOrder

\* Appending a SELECT, or a command with a higher number than any before,
\* keeps the file in order.
LEMMA OrderAppend ==
    ASSUME TypeOK, FileInSendingOrder, NEW e \in Entries, file' = Append(file, e),
           e.kind = "cmd" => \A i \in 1 .. Len(file) : file[i].kind = "cmd" => file[i].id < e.id
    PROVE  FileInSendingOrder'
<1> file \in Seq(Entries)
  BY DEF TypeOK
<1>1. Len(file') = Len(file) + 1 /\ file'[Len(file) + 1] = e /\ \A i \in 1 .. Len(file) : file'[i] = file[i]
  OBVIOUS
<1> SUFFICES ASSUME NEW i \in 1 .. Len(file) + 1, NEW j \in 1 .. Len(file) + 1, i < j,
                    file'[i].kind = "cmd", file'[j].kind = "cmd"
             PROVE  file'[i].id < file'[j].id
  BY <1>1 DEF FileInSendingOrder
<1>2. i \in 1 .. Len(file)
  OBVIOUS
<1>3. CASE j \in 1 .. Len(file)
  BY <1>1, <1>2, <1>3 DEF FileInSendingOrder
<1>4. CASE j = Len(file) + 1
  BY <1>1, <1>2, <1>4
<1> QED BY <1>3, <1>4

LEMMA OrderNext ==
    ASSUME TypeOK, TypeOK', Numbered, FileInSendingOrder, [Next]_vars
    PROVE  (Numbered /\ FileInSendingOrder)'
<1> /\ file \in Seq(Entries) /\ aofChan \in Seq(Payloads) /\ hand \in Seq(Payloads)
    /\ sent \in Nat
  BY BoundsAssumption DEF TypeOK
<1>0. ASSUME UNCHANGED file PROVE FileInSendingOrder'
  BY <1>0 DEF FileInSendingOrder
<1>1. CASE UNCHANGED vars
  BY <1>0, <1>1 DEF vars, Numbered, Settled
<1>2. ASSUME NEW d \in DBs, AddAof(d) PROVE (Numbered /\ FileInSendingOrder)'
  <2>1. /\ aofChan' = Append(aofChan, Payload(d, sent + 1)) /\ sent' = sent + 1
        /\ Len(aofChan) < aofBufferSize /\ UNCHANGED <<hand, file>>
    BY <1>2 DEF AddAof
  <2>2. Len(aofChan') = Len(aofChan) + 1 /\ Settled' = Settled
    BY <2>1 DEF Settled
  <2>3. \A i \in 1 .. Len(aofChan') : aofChan'[i].id = sent' - Len(aofChan') + i
    BY <2>1, <2>2 DEF Numbered, Payload
  <2> QED BY <1>0, <2>1, <2>2, <2>3, BufferAssumption DEF Numbered
<1>3. CASE Receive
  <2>1. /\ aofChan # <<>> /\ hand' = <<Head(aofChan)>> /\ aofChan' = Tail(aofChan)
        /\ UNCHANGED <<sent, file>>
    BY <1>3 DEF Receive
  <2>2. Len(hand) = 0
    BY <1>3 DEF Receive, TypeOK
  <2>3. /\ Len(aofChan') = Len(aofChan) - 1 /\ Len(hand') = 1 /\ hand'[1] = aofChan[1]
        /\ \A i \in 1 .. Len(aofChan') : aofChan'[i] = aofChan[i + 1]
    BY <2>1
  <2>4. Settled' = Settled /\ Len(aofChan) \in Nat /\ 1 \in 1 .. Len(aofChan)
    BY <2>1, <2>2, <2>3 DEF Settled
  <2>5. \A i \in 1 .. Len(aofChan') : aofChan'[i].id = sent' - Len(aofChan') + i
    BY <2>1, <2>3, <2>4 DEF Numbered
  <2>6. \A i \in 1 .. Len(hand') : hand'[i].id = sent' - Len(aofChan')
    BY <2>1, <2>3, <2>4 DEF Numbered
  <2> QED BY <1>0, <2>1, <2>3, <2>4, <2>5, <2>6, BufferAssumption DEF Numbered
<1>4. CASE WriteSelect
  <2>1. /\ Select(hand[1].db) \in Entries /\ Select(hand[1].db).kind = "select"
        /\ file' = Append(file, Select(hand[1].db)) /\ UNCHANGED <<sent, aofChan, hand>>
    BY <1>4, InHand, EntryTypes DEF WriteSelect, Select, Payloads
  <2>2. FileInSendingOrder'
    BY <2>1, OrderAppend
  <2>3. \A i \in 1 .. Len(file') : file'[i].kind = "cmd" => file'[i].id <= Settled
    BY <2>1 DEF Numbered
  <2> QED BY <2>1, <2>2, <2>3 DEF Numbered, Settled
<1>5. CASE WriteCmd
  <2> DEFINE e == Command(hand[1], skewed)
  <2>1. /\ e \in Entries /\ e.kind = "cmd" /\ e.id = hand[1].id
        /\ file' = Append(file, e) /\ UNCHANGED <<sent, aofChan>> /\ hand' = <<>>
    BY <1>5, InHand, EntryTypes DEF WriteCmd, Command, TypeOK
  <2>2. Len(hand) = 1 /\ Len(hand') = 0
    BY <1>5, InHand DEF WriteCmd
  <2>3. e.id = sent - Len(aofChan) /\ Settled = e.id - 1 /\ Settled' = e.id
    BY <2>1, <2>2 DEF Numbered, Settled
  <2>4. \A i \in 1 .. Len(file) : file[i].kind = "cmd" => file[i].id < e.id
    <3>1. \A i \in 1 .. Len(file) : file[i].id \in Int
      <4>1. \A x \in Entries : x.id \in Int
        BY DEF Entries, Ids
      <4> QED BY <4>1
    <3>2. e.id \in Int
      BY <2>3
    <3> QED BY <2>3, <3>1, <3>2 DEF Numbered
  <2>5. FileInSendingOrder'
    BY <2>1, <2>4, OrderAppend
  <2>6. \A i \in 1 .. Len(file') : file'[i].kind = "cmd" => file'[i].id <= Settled'
    <3>1. e.id \in Int
      BY <2>3
    <3>2. \A i \in 1 .. Len(file) : file'[i] = file[i]
      BY <2>1
    <3>3. Len(file') = Len(file) + 1 /\ file'[Len(file) + 1] = e
      BY <2>1
    <3>4. \A i \in 1 .. Len(file) : file[i].id \in Int
      <4>1. \A x \in Entries : x.id \in Int
        BY DEF Entries, Ids
      <4> QED BY <4>1
    <3>5. ASSUME NEW i \in 1 .. Len(file), file[i].kind = "cmd" PROVE file[i].id <= e.id
      <4> HIDE DEF e
      <4> QED BY <2>4, <3>1, <3>4, <3>5
    <3>6. ASSUME NEW i \in 1 .. Len(file'), file'[i].kind = "cmd" PROVE file'[i].id <= e.id
      <4> HIDE DEF e
      <4>1. CASE i \in 1 .. Len(file)
        BY <3>2, <3>5, <3>6, <4>1
      <4>2. CASE i = Len(file) + 1
        BY <3>1, <3>3, <4>2
      <4> QED BY <3>3, <4>1, <4>2
    <3> QED BY <2>3, <3>6
  <2> QED BY <2>1, <2>2, <2>3, <2>5, <2>6 DEF Numbered
<1>6. CASE WriteFails
  <2>1. hand' = <<>> /\ UNCHANGED <<sent, aofChan, file>> /\ Len(hand) = 1
    BY <1>6, InHand DEF WriteFails
  <2>2. Len(hand') = 0 /\ Settled' = Settled + 1 /\ Settled \in Int
    BY <2>1 DEF Settled
  <2>3. \A i \in 1 .. Len(file) : file[i].kind = "cmd" => file[i].id <= Settled'
    <3>1. \A x \in Entries : x.id \in Int
      BY DEF Entries, Ids
    <3> QED BY <2>2, <3>1 DEF Numbered
  <2> QED BY <1>0, <2>1, <2>2, <2>3 DEF Numbered
<1>7. CASE Crash
  <2>1. hand' = <<>> /\ aofChan' = <<>> /\ UNCHANGED <<sent, file>>
    BY <1>7 DEF Crash
  <2>2. Len(hand') = 0 /\ Len(aofChan') = 0 /\ Settled' = sent /\ Settled \in Int /\ Settled <= sent
    BY <2>1 DEF Settled
  <2>3. \A i \in 1 .. Len(file) : file[i].kind = "cmd" => file[i].id <= Settled'
    <3>1. \A x \in Entries : x.id \in Int
      BY DEF Entries, Ids
    <3> QED BY <2>2, <3>1 DEF Numbered
  <2> QED BY <1>0, <2>1, <2>2, <2>3, BufferAssumption DEF Numbered
<1>8. CASE LoadAof
  <2>1. UNCHANGED <<sent, aofChan, hand>> /\ (file' = file \/ file' = Append(file, Select(0)))
    BY <1>8 DEF LoadAof
  <2>2. CASE file' = file
    BY <1>0, <2>1, <2>2 DEF Numbered, Settled
  <2>3. CASE file' = Append(file, Select(0))
    <3>1. Select(0) \in Entries /\ Select(0).kind = "select"
      BY EntryTypes, Zero DEF Select
    <3>2. FileInSendingOrder'
      BY <2>3, <3>1, OrderAppend
    <3>3. \A i \in 1 .. Len(file') : file'[i].kind = "cmd" => file'[i].id <= Settled
      BY <2>3, <3>1 DEF Numbered
    <3> QED BY <2>1, <3>2, <3>3 DEF Numbered, Settled
  <2> QED BY <2>1, <2>2, <2>3
<1> QED BY <1>1, <1>2, <1>3, <1>4, <1>5, <1>6, <1>7, <1>8 DEF Next, HandleAof

LEMMA OrderInvHolds == Spec => []OrderInv
<1>1. Init => OrderInv
  BY TypeInit, OrderInit DEF OrderInv
<1>2. OrderInv /\ [Next]_vars => OrderInv'
  BY TypeNext, OrderNext DEF OrderInv
<1> QED BY <1>1, <1>2, PTL DEF Spec

\* The file has the commands in the order in which they were sent.
THEOREM FileOrdered == Spec => []FileInSendingOrder
<1>1. OrderInv => FileInSendingOrder
  BY DEF OrderInv
<1> QED BY <1>1, OrderInvHolds, PTL

-----------------------------------------------------------------------------
(* LossWindow: every number up to Settled is in the file, was dropped or was *)
(* lost in a crash, and the numbers above it are the ones in memory.         *)

Accounted == FileIds \cup dropped \cup crashed = 1 .. Settled

LossInv == OrderInv /\ Accounted

LEMMA InFlightWindow ==
    ASSUME TypeOK, Numbered
    PROVE  InFlight = (Settled + 1) .. sent
<1> /\ aofChan \in Seq(Payloads) /\ hand \in Seq(Payloads) /\ sent \in Nat
    /\ Len(hand) \in {0, 1} /\ Len(aofChan) \in Nat
  BY BoundsAssumption DEF TypeOK
<1>1. ASSUME NEW n \in InFlight PROVE n \in (Settled + 1) .. sent
  BY <1>1 DEF InFlight, Numbered, Settled
<1>2. ASSUME NEW n \in (Settled + 1) .. sent PROVE n \in InFlight
  <2> n \in Int /\ n >= Settled + 1 /\ n <= sent
    BY DEF Settled
  <2>1. CASE n > sent - Len(aofChan)
    <3> DEFINE i == n - (sent - Len(aofChan))
    <3>1. i \in 1 .. Len(aofChan) /\ sent - Len(aofChan) + i = n
      BY <2>1
    <3>2. aofChan[i].id = n
      BY <3>1 DEF Numbered
    <3> QED BY <3>1, <3>2 DEF InFlight
  <2>2. CASE n <= sent - Len(aofChan)
    <3>1. n = sent - Len(aofChan) /\ Len(hand) = 1
      BY <2>2, SMTT(30) DEF Settled
    <3>2. 1 \in 1 .. Len(hand) /\ hand[1].id = n
      BY <3>1 DEF Numbered
    <3> QED BY <3>2 DEF InFlight
  <2> QED BY <2>1, <2>2
<1> QED BY <1>1, <1>2

LEMMA AppendIds ==
    ASSUME TypeOK, NEW e \in Entries, file' = Append(file, e)
    PROVE  FileIds' = IF e.kind = "cmd" THEN FileIds \cup {e.id} ELSE FileIds
<1> file \in Seq(Entries)
  BY DEF TypeOK
<1>1. Len(file') = Len(file) + 1 /\ file'[Len(file) + 1] = e /\ \A i \in 1 .. Len(file) : file'[i] = file[i]
  OBVIOUS
<1>2. Len(file) \in Nat
  OBVIOUS
<1>3. ASSUME NEW n \in FileIds' PROVE n \in FileIds \/ (e.kind = "cmd" /\ n = e.id)
  <2>1. PICK i \in 1 .. Len(file') : file'[i].kind = "cmd" /\ n = file'[i].id
    BY <1>3 DEF FileIds
  <2>2. CASE i \in 1 .. Len(file)
    BY <1>1, <2>1, <2>2 DEF FileIds
  <2>3. CASE i = Len(file) + 1
    BY <1>1, <2>1, <2>3
  <2> QED BY <1>1, <1>2, <2>2, <2>3
<1>4. ASSUME NEW n \in FileIds PROVE n \in FileIds'
  <2>1. PICK i \in 1 .. Len(file) : file[i].kind = "cmd" /\ n = file[i].id
    BY <1>4 DEF FileIds
  <2>2. i \in 1 .. Len(file') /\ file'[i] = file[i]
    BY <1>1, <1>2
  <2> QED BY <2>1, <2>2 DEF FileIds
<1>5. ASSUME e.kind = "cmd" PROVE e.id \in FileIds'
  <2>1. Len(file) + 1 \in 1 .. Len(file')
    BY <1>1, <1>2
  <2> QED BY <1>1, <1>5, <2>1 DEF FileIds
<1> QED BY <1>3, <1>4, <1>5

LEMMA AccountedNext ==
    ASSUME TypeOK, TypeOK', Numbered, Accounted, [Next]_vars
    PROVE  Accounted'
<1> /\ aofChan \in Seq(Payloads) /\ hand \in Seq(Payloads) /\ sent \in Nat
    /\ Len(aofChan) \in Nat /\ Len(hand) \in Nat /\ Settled \in Nat
  BY BoundsAssumption DEF TypeOK, Numbered, Settled
<1>0. ASSUME UNCHANGED <<file, dropped, crashed>>, Settled' = Settled PROVE Accounted'
  BY <1>0 DEF Accounted, FileIds
<1>1. CASE UNCHANGED vars
  BY <1>0, <1>1 DEF vars, Settled
<1>2. ASSUME NEW d \in DBs, AddAof(d) PROVE Accounted'
  <2>1. Settled' = Settled
    BY <1>2 DEF AddAof, Settled
  <2> QED BY <1>0, <1>2, <2>1 DEF AddAof
<1>3. CASE Receive
  <2>1. aofChan # <<>> /\ hand' = <<Head(aofChan)>> /\ aofChan' = Tail(aofChan) /\ sent' = sent
    BY <1>3 DEF Receive
  <2>2. Len(hand) = 0
    BY <1>3 DEF Receive, TypeOK
  <2>3. Len(aofChan') = Len(aofChan) - 1 /\ Len(hand') = 1
    BY <2>1
  <2>4. Settled' = Settled
    BY <2>1, <2>2, <2>3 DEF Settled
  <2> QED BY <1>0, <1>3, <2>4 DEF Receive
<1>4. CASE WriteSelect
  <2>1. /\ Select(hand[1].db) \in Entries /\ Select(hand[1].db).kind # "cmd"
        /\ file' = Append(file, Select(hand[1].db))
        /\ UNCHANGED <<sent, aofChan, hand, dropped, crashed>>
    BY <1>4, InHand, EntryTypes DEF WriteSelect, Select, Payloads
  <2>2. FileIds' = FileIds
    BY <2>1, AppendIds
  <2> QED BY <2>1, <2>2 DEF Accounted, Settled
<1>5. CASE WriteCmd
  <2> DEFINE e == Command(hand[1], skewed)
  <2>1. /\ e \in Entries /\ e.kind = "cmd" /\ e.id = hand[1].id
        /\ file' = Append(file, e) /\ hand' = <<>> /\ Len(hand) = 1
        /\ UNCHANGED <<sent, aofChan, dropped, crashed>>
    BY <1>5, InHand, EntryTypes DEF WriteCmd, Command, TypeOK
  <2>2. Settled' = Settled + 1 /\ e.id = Settled + 1
    BY <2>1 DEF Numbered, Settled
  <2>3. FileIds' = FileIds \cup {Settled + 1}
    BY <2>1, <2>2, AppendIds
  <2>4. 1 .. Settled + 1 = (1 .. Settled) \cup {Settled + 1}
    OBVIOUS
  <2> QED BY <2>1, <2>2, <2>3, <2>4 DEF Accounted
<1>6. CASE WriteFails
  <2>1. /\ hand' = <<>> /\ UNCHANGED <<sent, aofChan, file, crashed>> /\ Len(hand) = 1
        /\ dropped' = dropped \cup {hand[1].id}
    BY <1>6, InHand DEF WriteFails
  <2>2. Settled' = Settled + 1 /\ hand[1].id = Settled + 1
    BY <2>1 DEF Numbered, Settled
  <2>3. FileIds' = FileIds
    BY <2>1 DEF FileIds
  <2>4. 1 .. Settled + 1 = (1 .. Settled) \cup {Settled + 1}
    OBVIOUS
  <2> QED BY <2>1, <2>2, <2>3, <2>4 DEF Accounted
<1>7. CASE Crash
  <2>1. /\ hand' = <<>> /\ aofChan' = <<>> /\ UNCHANGED <<sent, file, dropped>>
        /\ crashed' = crashed \cup InFlight
    BY <1>7 DEF Crash
  <2>2. Settled' = sent /\ Settled <= sent
    BY <2>1 DEF Settled
  <2>3. FileIds' = FileIds
    BY <2>1 DEF FileIds
  <2>4. 1 .. sent = (1 .. Settled) \cup ((Settled + 1) .. sent)
    BY <2>2
  <2> QED BY <2>1, <2>2, <2>3, <2>4, InFlightWindow DEF Accounted
<1>8. CASE LoadAof
  <2>1. /\ UNCHANGED <<sent, aofChan, hand, dropped, crashed>>
        /\ file' = file \/ file' = Append(file, Select(0))
    BY <1>8 DEF LoadAof
  <2>2. Select(0) \in Entries /\ Select(0).kind # "cmd"
    BY EntryTypes, Zero DEF Select
  <2>3. FileIds' = FileIds
    BY <2>1, <2>2, AppendIds DEF FileIds
  <2> QED BY <2>1, <2>3 DEF Accounted, Settled
<1> QED BY <1>1, <1>2, <1>3, <1>4, <1>5, <1>6, <1>7, <1>8 DEF Next, HandleAof

LEMMA LossInvHolds == Spec => []LossInv
<1>1. Init => Accounted
  BY DEF Init, Accounted, Settled, FileIds
<1>2. LossInv /\ [Next]_vars => LossInv'
  BY TypeNext, OrderNext, AccountedNext DEF LossInv, OrderInv
<1>3. Init => LossInv
  BY <1>1, TypeInit, OrderInit DEF LossInv, OrderInv
<1> QED BY <1>2, <1>3, PTL DEF Spec

\* A crash loses at most the last aofBufferSize + 1 commands sent, and every
\* other command is in the file unless its own write failed.
THEOREM BoundedLoss == Spec => []LossWindow
<1>1. ASSUME LossInv PROVE LossWindow
  <2> TypeOK /\ Numbered /\ Accounted
    BY <1>1 DEF LossInv, OrderInv
  <2>1. /\ sent \in Nat /\ Len(aofChan) \in Nat /\ Len(hand) \in {0, 1}
        /\ Len(aofChan) <= aofBufferSize
    BY BoundsAssumption DEF TypeOK, Numbered
  <2>2. Settled \in Nat /\ Settled + 1 >= sent - aofBufferSize /\ Settled <= sent
    BY <2>1, BufferAssumption DEF Settled, Numbered
  <2>3. InFlight = (Settled + 1) .. sent
    BY InFlightWindow
  <2>4. InFlight \subseteq (sent - aofBufferSize) .. sent
    BY <2>1, <2>2, <2>3, BufferAssumption
  <2>5. 1 .. sent = (1 .. Settled) \cup ((Settled + 1) .. sent)
    BY <2>1, <2>2
  <2> QED BY <2>3, <2>4, <2>5 DEF LossWindow, Accounted
<1> QED BY <1>1, LossInvHolds, PTL
=============================================================================
