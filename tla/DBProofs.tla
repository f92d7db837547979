------------------------------ MODULE DBProofs ------------------------------
(***************************************************************************)
(* Proofs about one database with its append-only file, for any clients,   *)
(* keys, values, shards, command lines and size of the AOF channel.  First *)
(* what every string, key and list command keeps to: it writes only the    *)
(* keys it names, it looks only at those, and, four commands excepted,     *)
(* prepare locks for writing what it writes.  The theorems that need the   *)
(* locks leave those four commands out (Guarded); OnlyGetSetPoisons,       *)
(* KeyCommands and ListCommands hold with every command.  The locks are    *)
(* used through what module ConcurrentDictProofs proves of them.           *)
(***************************************************************************)
EXTENDS CommandLaws, FiniteSetTheorems, SequenceTheorems, WellFoundedInduction, TLAPS

Names == {"GET", "SET", "SETNX", "GETSET", "STRLEN", "DEL", "EXIST", "TYPE", "FLUSHDB", "RENAME",
          "RENAMENX", "LPUSH", "RPUSH", "LPOP", "RPOP", "LRANGE", "LLEN", "LINDEX", "LSET", "PING"}

-----------------------------------------------------------------------------
(* Numbers and sets of positions                                           *)

\* A nonempty set of natural numbers has a least member.
LEMMA LeastMember ==
    ASSUME NEW T \in SUBSET Nat, T # {}
    PROVE  \E x \in T : \A y \in T : x <= y
<1> DEFINE R == OpToRel(<, Nat)
<1>1. IsWellFoundedOn(R, Nat)
  BY NatLessThanWellFounded
<1> HIDE DEF R
<1>2. PICK x \in T : \A y \in T : ~ (<<y, x>> \in R)
  BY <1>1, WFMin
<1>3. \A y \in T : ~ (y < x)
  BY <1>2 DEF R, OpToRel
<1> QED BY <1>3

\* Every set of positions has an ascending enumeration.
LEMMA AscendingExists ==
    ASSUME NEW m \in Nat, NEW S \in SUBSET (1 .. m)
    PROVE  \E s \in [1 .. Cardinality(S) -> S] : \A i, j \in 1 .. Cardinality(S) : i < j => s[i] < s[j]
<1> DEFINE Enumerated(T) ==
             \E s \in [1 .. Cardinality(T) -> T] : \A i, j \in 1 .. Cardinality(T) : i < j => s[i] < s[j]
           Bad == {n \in Nat : ~ \A T \in SUBSET (1 .. n) : Enumerated(T)}
<1>1. SUFFICES ASSUME Bad # {} PROVE FALSE
  BY <1>1
<1>2. PICK n \in Bad : \A k \in Bad : n <= k
  <2> HIDE DEF Bad
  <2>1. Bad \in SUBSET Nat
    BY DEF Bad
  <2> QED BY <1>1, <2>1, LeastMember
<1>3. PICK T \in SUBSET (1 .. n) : ~ Enumerated(T)
  OBVIOUS
<1>4. n # 0
  <2> SUFFICES ASSUME n = 0 PROVE FALSE
    OBVIOUS
  <2>1. T = {}
    <3>1. \A i \in 1 .. n : FALSE
      OBVIOUS
    <3> QED BY <1>3, <3>1
  <2>2. Cardinality(T) = 0
    BY <2>1, FS_EmptySet
  <2>3. [i \in 1 .. 0 |-> 0] \in [1 .. 0 -> {}]
    OBVIOUS
  <2> QED BY <1>3, <2>1, <2>2, <2>3, ZenonT(60)
<1>5. \A U \in SUBSET (1 .. n - 1) : Enumerated(U)
  <2>1. n - 1 \in Nat /\ ~ (n <= n - 1)
    BY <1>4
  <2> HIDE DEF Enumerated
  <2> QED BY <1>2, <2>1
<1>6. n \in T
  BY <1>3, <1>5
<1> DEFINE U == T \ {n}
<1>7. U \in SUBSET (1 .. n - 1) /\ IsFiniteSet(U) /\ n \notin U /\ T = U \cup {n}
  <2>1. U \in SUBSET (1 .. n - 1)
    BY <1>4
  <2>2. IsFiniteSet(1 .. n - 1)
    BY FS_Interval
  <2> QED BY <1>6, <2>1, <2>2, FS_Subset
<1>8. Cardinality(T) = Cardinality(U) + 1 /\ Cardinality(U) \in Nat
  BY <1>7, FS_AddElement, FS_CardinalityType
<1> DEFINE c == Cardinality(U)
<1>9. PICK s \in [1 .. c -> U] : \A i, j \in 1 .. c : i < j => s[i] < s[j]
  BY <1>5, <1>7
<1> HIDE DEF U, c
<1> DEFINE t == [i \in 1 .. c + 1 |-> IF i = c + 1 THEN n ELSE s[i]]
<1>10. \A i \in 1 .. c + 1 : i = c + 1 \/ i \in 1 .. c
  BY <1>8 DEF c
<1>11. \A x \in U : x < n /\ x \in Nat
  BY <1>7
<1>12. t \in [1 .. c + 1 -> T]
  BY <1>6, <1>7, <1>9, <1>10
<1>13. \A i, j \in 1 .. c + 1 : i < j => t[i] < t[j]
  <2> SUFFICES ASSUME NEW i \in 1 .. c + 1, NEW j \in 1 .. c + 1, i < j PROVE t[i] < t[j]
    OBVIOUS
  <2>1. i \in 1 .. c /\ t[i] = s[i]
    BY <1>8, <1>10 DEF c
  <2>2. CASE j = c + 1
    BY <1>9, <1>11, <2>1, <2>2
  <2>3. CASE j \in 1 .. c
    <3>1. t[j] = s[j]
      BY <1>8, <2>3 DEF c
    <3> QED BY <1>9, <2>1, <2>3, <3>1
  <2> QED BY <1>10, <2>2, <2>3
<1> HIDE DEF t
<1> QED BY <1>3, <1>8, <1>12, <1>13 DEF c

LEMMA AscendingFacts ==
    ASSUME NEW m \in Nat, NEW S \in SUBSET (1 .. m)
    PROVE  /\ Cardinality(S) \in Nat
           /\ Ascending(S) \in [1 .. Cardinality(S) -> S]
<1>1. Cardinality(S) \in Nat
  <2>1. IsFiniteSet(1 .. m)
    BY FS_Interval
  <2>2. IsFiniteSet(S)
    BY <2>1, FS_Subset
  <2> QED BY <2>2, FS_CardinalityType
<1> QED BY <1>1, AscendingExists DEF Ascending

-----------------------------------------------------------------------------
(* The arguments of a command that is accepted                             *)

OfOneKey == {"GET", "SET", "SETNX", "GETSET", "STRLEN", "TYPE", "LPUSH", "RPUSH", "LPOP", "RPOP",
             "LRANGE", "LLEN", "LINDEX", "LSET"}
OfTwoKeys == {"RENAME", "RENAMENX"}
OfManyKeys == {"DEL", "EXIST", "FLUSHDB"}

LEMMA TableDomain == DOMAIN cmdTable = Names
  BY DEF cmdTable, Names

LEMMA TablePrepare ==
    ASSUME NEW op \in Names
    PROVE  /\ op \in OfOneKey => cmdTable[op].prepare \in {"readFirstKey", "writeFirstKey"}
           /\ op \in OfTwoKeys => cmdTable[op].prepare = "prepareRename"
           /\ op \in OfManyKeys => cmdTable[op].prepare \in {"readAllKeys", "writeAllKeys"}
  BY DEF cmdTable, Entry, OfOneKey, OfTwoKeys, OfManyKeys, Names

LEMMA TableArity ==
    ASSUME NEW op \in Names
    PROVE  /\ op \in {"SET", "SETNX", "GETSET"} => cmdTable[op].arity = 3
           /\ op = "LSET" => cmdTable[op].arity = 4
           /\ op \in {"FLUSHDB", "PING"} => cmdTable[op].arity = 1
  BY DEF cmdTable, Entry

\* An accepted command of fixed arity has that many words.
LEMMA WordCount ==
    ASSUME NEW line, Accepted(line), NEW n \in Nat, cmdTable[line.op].arity = n
    PROVE  ArgCount(line) = n
  BY DEF Accepted, ValidateArity

LEMMA Addends ==
    ASSUME NEW a \in Nat, NEW b \in Nat, NEW c \in Nat
    PROVE  /\ 1 + a + b + c = 1 => a = 0
           /\ 1 + a + b + c = 3 /\ a = 1 /\ c = 0 => b = 1
           /\ 1 + a + b + c = 4 /\ a = 1 /\ c = 1 => b = 1
  OBVIOUS

\* How many arguments of each kind a command has, and that the keys are keys.
LEMMA LineFacts ==
    ASSUME NEW line \in CmdLineType, Accepted(line), WellFormed(line)
    PROVE  /\ line.op \in Names
           /\ KeySet(line) \subseteq Keys
           /\ line.op \in OfOneKey => Len(line.keys) = 1 /\ KeySet(line) = {Key(line)}
           /\ line.op \in OfTwoKeys => Len(line.keys) = 2 /\ KeySet(line) = {line.keys[1], line.keys[2]}
           /\ line.op \in {"FLUSHDB", "PING"} => KeySet(line) = {}
           /\ line.op \in {"SET", "SETNX", "GETSET", "LSET"} => line.vals[1] \in Values
<1>1. /\ line.keys \in Seq(Keys) /\ line.vals \in Seq(Values) /\ line.nums \in Seq(Int \cup {NotInt})
      /\ line.op \in STRING
  BY DEF CmdLineType
<1>2. line.op \in Names
  BY TableDomain DEF Accepted
<1>3. Len(line.keys) \in Nat /\ Len(line.vals) \in Nat /\ Len(line.nums) \in Nat
  BY <1>1
<1>4. line.op \in OfOneKey => Len(line.keys) = 1
  BY <1>2, TablePrepare DEF WellFormed
<1>5. line.op \in OfTwoKeys => Len(line.keys) = 2
  BY <1>2, TablePrepare DEF WellFormed
<1>6. line.op \in {"FLUSHDB", "PING"} => Len(line.keys) = 0
  <2> SUFFICES ASSUME line.op \in {"FLUSHDB", "PING"} PROVE Len(line.keys) = 0
    OBVIOUS
  <2>1. cmdTable[line.op].arity = 1
    BY <1>2, TableArity
  <2>2. ArgCount(line) = 1
    BY <2>1, WordCount
  <2> QED BY <1>3, <2>2, Addends DEF ArgCount
<1>7. line.op \in {"SET", "SETNX", "GETSET", "LSET"} => Len(line.vals) = 1
  <2> SUFFICES ASSUME line.op \in {"SET", "SETNX", "GETSET", "LSET"} PROVE Len(line.vals) = 1
    OBVIOUS
  <2>1. Len(line.keys) = 1
    BY <1>4 DEF OfOneKey
  <2>2. CASE line.op = "LSET"
    <3>1. cmdTable[line.op].arity = 4 /\ Len(line.nums) = 1
      BY <1>2, <2>2, TableArity DEF WellFormed, NumArgs
    <3>2. ArgCount(line) = 4
      BY <3>1, WordCount
    <3> QED BY <1>3, <2>1, <3>1, <3>2, Addends DEF ArgCount
  <2>3. CASE line.op # "LSET"
    <3>1. cmdTable[line.op].arity = 3 /\ Len(line.nums) = 0
      BY <1>2, <2>3, TableArity DEF WellFormed, NumArgs
    <3>2. ArgCount(line) = 3
      BY <3>1, WordCount
    <3> QED BY <1>3, <2>1, <3>1, <3>2, Addends DEF ArgCount
  <2> QED BY <2>2, <2>3
<1>8. \A i \in 1 .. Len(line.keys) : line.keys[i] \in Keys
  BY <1>1
<1>9. Len(line.keys) = 1 => KeySet(line) = {Key(line)}
  BY DEF KeySet, Key
<1>10. Len(line.keys) = 2 => KeySet(line) = {line.keys[1], line.keys[2]}
  <2>1. 1 .. 2 = {1, 2}
    OBVIOUS
  <2> QED BY <2>1 DEF KeySet
<1>11. Len(line.keys) = 0 => KeySet(line) = {}
  BY DEF KeySet
<1>12. KeySet(line) \subseteq Keys
  BY <1>8 DEF KeySet
<1>13. Len(line.vals) = 1 => line.vals[1] \in Values
  BY <1>1
<1> QED BY <1>2, <1>4, <1>5, <1>6, <1>7, <1>9, <1>10, <1>11, <1>12, <1>13

-----------------------------------------------------------------------------
(* The table, command by command                                           *)

LEMMA ExecIs ==
    ASSUME NEW db, NEW line
    PROVE  /\ line.op = "GET" => exec(db, line) = execGet(db, line)
           /\ line.op = "SET" => exec(db, line) = execSet(db, line)
           /\ line.op = "SETNX" => exec(db, line) = execSetNX(db, line)
           /\ line.op = "GETSET" => exec(db, line) = execGetSet(db, line)
           /\ line.op = "STRLEN" => exec(db, line) = execStrlen(db, line)
           /\ line.op = "DEL" => exec(db, line) = execDel(db, line)
           /\ line.op = "EXIST" => exec(db, line) = execExist(db, line)
           /\ line.op = "TYPE" => exec(db, line) = execType(db, line)
           /\ line.op = "FLUSHDB" => exec(db, line) = execFlushDB(db, line)
           /\ line.op = "RENAME" => exec(db, line) = execRename(db, line)
           /\ line.op = "RENAMENX" => exec(db, line) = execRenameNX(db, line)
           /\ line.op = "LPUSH" => exec(db, line) = execLPush(db, line)
           /\ line.op = "RPUSH" => exec(db, line) = execRPush(db, line)
           /\ line.op = "LPOP" => exec(db, line) = execLPop(db, line)
           /\ line.op = "RPOP" => exec(db, line) = execRPop(db, line)
           /\ line.op = "LRANGE" => exec(db, line) = execLRange(db, line)
           /\ line.op = "LLEN" => exec(db, line) = execLLen(db, line)
           /\ line.op = "LINDEX" => exec(db, line) = execLIndex(db, line)
           /\ line.op = "LSET" => exec(db, line) = execLSet(db, line)
           /\ line.op = "PING" => exec(db, line) = Ping(db, line)
  BY DEF exec

Unguarded == {"GETSET", "RENAME", "RENAMENX", "FLUSHDB"}
Reading == {"GET", "STRLEN", "TYPE", "EXIST", "LRANGE", "LLEN", "LINDEX", "PING"}

\* prepare asks for a lock on every key of the command, and for writing unless
\* the command only reads or is one of the four.
LEMMA PrepareFacts ==
    ASSUME NEW line \in CmdLineType, Accepted(line), WellFormed(line)
    PROVE  /\ prepare(line) \in [write : SUBSET Keys, read : SUBSET Keys]
           /\ KeySet(line) = prepare(line).write \cup prepare(line).read
           /\ line.op \notin Unguarded \cup Reading => KeySet(line) \subseteq prepare(line).write
<1> DEFINE f == cmdTable[line.op].prepare
<1>1. /\ line.op \in Names /\ KeySet(line) \subseteq Keys
      /\ line.op \in OfOneKey => KeySet(line) = {Key(line)}
      /\ line.op \in OfTwoKeys => KeySet(line) = {line.keys[1], line.keys[2]}
      /\ line.op \in {"FLUSHDB", "PING"} => KeySet(line) = {}
  BY LineFacts
<1>2. /\ line.op \in {"GET", "GETSET", "STRLEN", "TYPE", "LRANGE", "LLEN", "LINDEX"} => f = "readFirstKey"
      /\ line.op \in {"SET", "SETNX", "LPUSH", "RPUSH", "LPOP", "RPOP", "LSET"} => f = "writeFirstKey"
      /\ line.op \in {"DEL", "FLUSHDB"} => f = "writeAllKeys"
      /\ line.op = "EXIST" => f = "readAllKeys"
      /\ line.op \in OfTwoKeys => f = "prepareRename"
      /\ line.op = "PING" => f = "noPrepare"
  BY <1>1 DEF cmdTable, Entry, OfTwoKeys, Names
<1>3. /\ f = "readFirstKey" => prepare(line) = [write |-> {}, read |-> {Key(line)}]
      /\ f = "writeFirstKey" => prepare(line) = [write |-> {Key(line)}, read |-> {}]
      /\ f = "writeAllKeys" => prepare(line) = [write |-> KeySet(line), read |-> {}]
      /\ f = "readAllKeys" => prepare(line) = [write |-> {}, read |-> KeySet(line)]
      /\ f = "prepareRename" => prepare(line) = [write |-> {line.keys[2]}, read |-> {line.keys[1]}]
      /\ f = "noPrepare" => prepare(line) = [write |-> {}, read |-> {}]
  BY DEF prepare
<1> HIDE DEF f
<1>4. CASE line.op \in {"GET", "GETSET", "STRLEN", "TYPE", "LRANGE", "LLEN", "LINDEX"}
  <2>1. KeySet(line) = {Key(line)}
    BY <1>1, <1>4 DEF OfOneKey
  <2> QED BY <1>1, <1>2, <1>3, <1>4, <2>1 DEF Unguarded, Reading
<1>5. CASE line.op \in {"SET", "SETNX", "LPUSH", "RPUSH", "LPOP", "RPOP", "LSET"}
  <2>1. KeySet(line) = {Key(line)}
    BY <1>1, <1>5 DEF OfOneKey
  <2> QED BY <1>1, <1>2, <1>3, <1>5, <2>1
<1>6. CASE line.op \in {"DEL", "FLUSHDB"}
  BY <1>1, <1>2, <1>3, <1>6
<1>7. CASE line.op = "EXIST"
  BY <1>1, <1>2, <1>3, <1>7 DEF Reading
<1>8. CASE line.op \in OfTwoKeys
  <2>1. KeySet(line) = {line.keys[1], line.keys[2]}
    BY <1>1, <1>8
  <2> QED BY <1>1, <1>2, <1>3, <1>8, <2>1 DEF Unguarded, OfTwoKeys
<1>9. CASE line.op = "PING"
  BY <1>1, <1>2, <1>3, <1>9 DEF Reading
<1> QED BY <1>1, <1>4, <1>5, <1>6, <1>7, <1>8, <1>9 DEF Names, OfTwoKeys

-----------------------------------------------------------------------------
(* Every command writes entities under keys it names, and logs it          *)

PutsOf(line) == [key : KeySet(line), entity : Entities]

IsResult(r) ==
    /\ r = [f \in DOMAIN r |-> r[f]]
    /\ DOMAIN r = {"puts", "flush", "logged", "reply"}

Sound(line, r) ==
    /\ IsResult(r)
    /\ r.puts \in Seq(PutsOf(line))
    /\ r.logged \in BOOLEAN
    /\ line.op # "FLUSHDB" => r.flush = FALSE
    /\ r.logged = FALSE => r.puts = <<>> /\ r.flush = FALSE
    /\ line.op \in Reading => r.logged = FALSE

LEMMA ReadsSound ==
    ASSUME NEW line, NEW rep
    PROVE  Sound(line, Reads(rep))
<1>1. <<>> \in Seq(PutsOf(line))
  OBVIOUS
<1> QED BY <1>1 DEF Sound, IsResult, Reads

LEMMA WritesSound ==
    ASSUME NEW line, NEW rep, NEW puts \in Seq(PutsOf(line)), line.op \notin Reading
    PROVE  Sound(line, Writes(puts, rep))
  BY DEF Sound, IsResult, Writes

LEMMA OnePutSound ==
    ASSUME NEW line, NEW rep, NEW k \in KeySet(line), NEW e \in Entities, line.op \notin Reading
    PROVE  Sound(line, Writes(<<Put(k, e)>>, rep))
<1>1. Put(k, e) \in PutsOf(line)
  BY DEF Put, PutsOf
<1>2. <<Put(k, e)>> \in Seq(PutsOf(line))
  BY <1>1
<1> QED BY <1>2, WritesSound

LEMMA ResultExcept ==
    ASSUME NEW r, IsResult(r)
    PROVE  LET q == [r EXCEPT !.puts = Tail(@)] IN
           /\ IsResult(q) /\ q.puts = Tail(r.puts)
           /\ q.flush = r.flush /\ q.logged = r.logged /\ q.reply = r.reply
  BY DEF IsResult

LEMMA EntityFacts ==
    /\ Absent \in Entities
    /\ \A v \in Values : Str(v) \in Entities
    /\ \A l \in Seq(Values) : List(l) \in Entities
  BY DEF Absent, Str, List, Entities

LEMMA EntityVal ==
    ASSUME NEW e \in Entities
    PROVE  e.val \in Seq(Values)
<1>1. CASE e = Absent
  <2>1. e.val = <<>>
    BY <1>1 DEF Absent
  <2> QED BY <2>1
<1>2. CASE e \in [type : {"string", "list"}, val : Seq(Values)]
  BY <1>2
<1> QED BY <1>1, <1>2 DEF Entities

LEMMA PushFrontFacts ==
    ASSUME NEW vals \in Seq(Values), NEW l \in Seq(Values)
    PROVE  PushFront(vals, l) \in Seq(Values)
<1> DEFINE rev == [i \in 1 .. Len(vals) |-> vals[Len(vals) + 1 - i]]
<1>1. \A i \in 1 .. Len(vals) : Len(vals) + 1 - i \in 1 .. Len(vals)
  OBVIOUS
<1>2. rev \in Seq(Values)
  <2>1. \A i \in 1 .. Len(vals) : vals[Len(vals) + 1 - i] \in Values
    BY <1>1
  <2>2. Len(vals) \in Nat
    OBVIOUS
  <2> QED BY <2>1, <2>2, IsASeq
<1> HIDE DEF rev
<1>3. rev \o l \in Seq(Values)
  BY <1>2
<1> QED BY <1>3 DEF PushFront, rev

\* DEL removes each key it finds once.
LEMMA DelSound ==
    ASSUME NEW db, NEW line \in CmdLineType, line.op = "DEL"
    PROVE  Sound(line, execDel(db, line))
<1> DEFINE deleted == Removed(db, line)
           n == Cardinality(deleted)
           puts == [i \in 1 .. n |-> Put(line.keys[Ascending(deleted)[i]], Absent)]
<1>1. line.keys \in Seq(Keys) /\ Len(line.keys) \in Nat
  BY DEF CmdLineType
<1>2. deleted \in SUBSET (1 .. Len(line.keys))
  BY DEF Removed
<1>3. n \in Nat /\ Ascending(deleted) \in [1 .. n -> deleted]
  BY <1>1, <1>2, AscendingFacts
<1> HIDE DEF deleted, n
<1>4. ASSUME NEW i \in 1 .. n PROVE Put(line.keys[Ascending(deleted)[i]], Absent) \in PutsOf(line)
  <2>1. Ascending(deleted)[i] \in 1 .. Len(line.keys)
    BY <1>2, <1>3
  <2>2. line.keys[Ascending(deleted)[i]] \in KeySet(line)
    BY <2>1 DEF KeySet
  <2> QED BY <2>2, EntityFacts DEF Put, PutsOf
<1>5. puts \in Seq(PutsOf(line))
  BY <1>3, <1>4, IsASeq
<1>6. \A rep : Sound(line, Writes(puts, rep))
  BY <1>5, WritesSound DEF Reading
<1>7. execDel(db, line) = IF deleted = {} THEN Reads(IntReply(0)) ELSE Writes(puts, IntReply(n))
  BY DEF execDel, deleted, n
<1> QED BY <1>6, <1>7, ReadsSound

\* A rename writes both its keys.
LEMMA MoveSound ==
    ASSUME NEW db \in [Keys -> Entities], NEW line, NEW rep, line.op \notin Reading,
           KeySet(line) = {line.keys[1], line.keys[2]}, KeySet(line) \subseteq Keys
    PROVE  Sound(line, Writes(Move(db, line), rep))
<1>1. db[line.keys[1]] \in Entities
  OBVIOUS
<1>2. /\ Put(line.keys[2], db[line.keys[1]]) \in PutsOf(line)
      /\ Put(line.keys[1], Absent) \in PutsOf(line)
  BY <1>1, EntityFacts DEF Put, PutsOf
<1>3. Move(db, line) \in Seq(PutsOf(line))
  BY <1>2 DEF Move
<1> QED BY <1>3, WritesSound

\* Whatever the contents, a command that is accepted writes entities under
\* keys it names and nothing else, it logs what it writes, and the commands
\* that read write nothing.
LEMMA ExecSound ==
    ASSUME NEW db \in [Keys -> Entities], NEW line \in CmdLineType, Accepted(line), WellFormed(line)
    PROVE  Sound(line, execNormalCommand(db, line))
<1>1. execNormalCommand(db, line) = exec(db, line)
  BY DEF execNormalCommand, Accepted
<1>2. /\ line.op \in Names
      /\ KeySet(line) \subseteq Keys
      /\ line.op \in OfOneKey => KeySet(line) = {Key(line)}
      /\ line.op \in OfTwoKeys => KeySet(line) = {line.keys[1], line.keys[2]}
      /\ line.op \in {"SET", "SETNX", "GETSET", "LSET"} => line.vals[1] \in Values
  BY LineFacts
<1>3. line.vals \in Seq(Values)
  BY DEF CmdLineType
<1>4. line.op \in OfOneKey =>
        /\ Key(line) \in KeySet(line) /\ Listed(db, line) \in Seq(Values)
  <2> SUFFICES ASSUME line.op \in OfOneKey
               PROVE  Key(line) \in KeySet(line) /\ Listed(db, line) \in Seq(Values)
    OBVIOUS
  <2>1. Key(line) \in Keys
    BY <1>2
  <2>2. db[Key(line)] \in Entities
    BY <2>1
  <2>3. db[Key(line)].val \in Seq(Values)
    BY <2>2, EntityVal
  <2> QED BY <1>2, <2>3 DEF Listed
<1>5. CASE line.op \in {"GET", "STRLEN", "TYPE", "EXIST", "PING"}
  <2>1. \E rep : exec(db, line) = Reads(rep)
    BY <1>5, ExecIs DEF execGet, execStrlen, execType, execExist, Ping
  <2> QED BY <1>1, <2>1, ReadsSound
<1>6. CASE line.op \in {"LRANGE", "LLEN", "LINDEX"}
  <2>1. \E rep : exec(db, line) = Reads(rep)
    <3>1. CASE line.op = "LRANGE"
      BY <3>1, ExecIs DEF execLRange
    <3>2. CASE line.op = "LLEN"
      BY <3>2, ExecIs DEF execLLen
    <3>3. CASE line.op = "LINDEX"
      BY <3>3, ExecIs DEF execLIndex
    <3> QED BY <1>6, <3>1, <3>2, <3>3
  <2> QED BY <1>1, <2>1, ReadsSound
<1>7. CASE line.op \in {"SET", "SETNX", "GETSET"}
  <2>1. Key(line) \in KeySet(line) /\ Str(line.vals[1]) \in Entities /\ line.op \notin Reading
    BY <1>2, <1>4, <1>7, EntityFacts DEF OfOneKey, Reading
  <2>2. \A rep : /\ Sound(line, Writes(<<Put(Key(line), Str(line.vals[1]))>>, rep))
                 /\ Sound(line, Writes(<<>>, rep))
    <3>1. <<>> \in Seq(PutsOf(line))
      OBVIOUS
    <3> QED BY <2>1, <3>1, OnePutSound, WritesSound
  <2>3. \E rep : \/ exec(db, line) = Writes(<<Put(Key(line), Str(line.vals[1]))>>, rep)
                 \/ exec(db, line) = Writes(<<>>, rep)
    BY <1>7, ExecIs DEF execSet, execSetNX, execGetSet
  <2> QED BY <1>1, <2>2, <2>3
<1>8. CASE line.op = "DEL"
  BY <1>1, <1>8, ExecIs, DelSound
<1>9. CASE line.op = "FLUSHDB"
  <2>1. execNormalCommand(db, line) = [Writes(<<>>, Ok) EXCEPT !.flush = TRUE]
    BY <1>1, <1>9, ExecIs DEF execFlushDB
  <2>2. <<>> \in Seq(PutsOf(line))
    OBVIOUS
  <2> QED BY <1>9, <2>1, <2>2 DEF Sound, IsResult, Writes, Reading
<1>10. CASE line.op \in OfTwoKeys
  <2>1. line.op \notin Reading
    BY <1>10 DEF OfTwoKeys, Reading
  <2>2. \A rep : Sound(line, Writes(Move(db, line), rep))
    BY <1>2, <1>10, <2>1, MoveSound
  <2>3. \E rep : exec(db, line) = Writes(Move(db, line), rep) \/ exec(db, line) = Reads(rep)
    BY <1>10, ExecIs DEF execRename, execRenameNX, OfTwoKeys
  <2> QED BY <1>1, <2>2, <2>3, ReadsSound
<1>11. CASE line.op \in {"LPUSH", "RPUSH"}
  <2>1. Key(line) \in KeySet(line) /\ Listed(db, line) \in Seq(Values) /\ line.op \notin Reading
    BY <1>4, <1>11 DEF OfOneKey, Reading
  <2>2. PushFront(line.vals, Listed(db, line)) \in Seq(Values) /\ Listed(db, line) \o line.vals \in Seq(Values)
    BY <1>3, <2>1, PushFrontFacts
  <2>3. ASSUME NEW l \in Seq(Values) PROVE Sound(line, execPush(db, line, l))
    <3>1. List(l) \in Entities
      BY EntityFacts
    <3>2. Sound(line, Writes(<<Put(Key(line), List(l))>>, IntReply(Len(l))))
      BY <2>1, <3>1, OnePutSound
    <3> QED BY <3>2, ReadsSound DEF execPush
  <2> QED BY <1>1, <1>11, <2>2, <2>3, ExecIs DEF execLPush, execRPush
<1>12. CASE line.op \in {"LPOP", "RPOP"}
  <2> DEFINE l == Listed(db, line)
  <2>1. Key(line) \in KeySet(line) /\ l \in Seq(Values) /\ line.op \notin Reading
    BY <1>4, <1>12 DEF OfOneKey, Reading
  <2>2. l # <<>> => Tail(l) \in Seq(Values) /\ SubSeq(l, 1, Len(l) - 1) \in Seq(Values)
    BY <2>1
  <2>3. ASSUME NEW at, NEW rest, l # <<>> => rest \in Seq(Values)
        PROVE  Sound(line, execPop(db, line, at, rest))
    <3>1. CASE l = <<>>
      <4>1. \E rep : execPop(db, line, at, rest) = Reads(rep)
        BY <3>1 DEF execPop
      <4> QED BY <4>1, ReadsSound
    <3>2. CASE l # <<>>
      <4> DEFINE e == IF Len(l) = 1 THEN Absent ELSE List(rest)
      <4>1. e \in Entities
        BY <2>3, <3>2, EntityFacts
      <4> HIDE DEF e
      <4>2. \A rep : Sound(line, Writes(<<Put(Key(line), e)>>, rep))
        BY <2>1, <4>1, OnePutSound
      <4>3. \E rep : \/ execPop(db, line, at, rest) = Reads(rep)
                     \/ execPop(db, line, at, rest) = Writes(<<Put(Key(line), e)>>, rep)
        BY DEF execPop, e
      <4> QED BY <4>2, <4>3, ReadsSound
    <3> QED BY <3>1, <3>2
  <2>4. \/ exec(db, line) = execPop(db, line, 1, Tail(l))
        \/ exec(db, line) = execPop(db, line, Len(l), SubSeq(l, 1, Len(l) - 1))
    BY <1>12, ExecIs DEF execLPop, execRPop
  <2> HIDE DEF l
  <2> QED BY <1>1, <2>2, <2>3, <2>4
<1>13. CASE line.op = "LSET"
  <2> DEFINE l == Listed(db, line)
             at == Position(FromEnd(line.nums[1], Len(l)), Len(l))
             e == List([l EXCEPT ![at] = line.vals[1]])
  <2>1. Key(line) \in KeySet(line) /\ l \in Seq(Values) /\ line.op \notin Reading /\ line.vals[1] \in Values
    BY <1>2, <1>4, <1>13 DEF OfOneKey, Reading
  <2>2. e \in Entities
    <3> HIDE DEF l, at
    <3>1. l \in [1 .. Len(l) -> Values] /\ Len(l) \in Nat
      BY <2>1
    <3>2. [l EXCEPT ![at] = line.vals[1]] \in [1 .. Len(l) -> Values]
      BY <2>1, <3>1
    <3>3. [l EXCEPT ![at] = line.vals[1]] \in Seq(Values)
      BY <3>1, <3>2, SeqDef
    <3> QED BY <3>3, EntityFacts
  <2>3. Sound(line, Writes(<<Put(Key(line), e)>>, Ok))
    <3> HIDE DEF e
    <3> QED BY <2>1, <2>2, OnePutSound
  <2>4. (\E rep : exec(db, line) = Reads(rep)) \/ exec(db, line) = Writes(<<Put(Key(line), e)>>, Ok)
    BY <1>13, ExecIs DEF execLSet
  <2> HIDE DEF e
  <2> QED BY <1>1, <2>3, <2>4, ReadsSound
<1> QED BY <1>2, <1>5, <1>6, <1>7, <1>8, <1>9, <1>10, <1>11, <1>12, <1>13 DEF Names, OfTwoKeys

-----------------------------------------------------------------------------
(* Every command looks only at the keys it names                           *)

\* Two contents that agree on the keys of a command give it the same result.
LEMMA ExecLocal ==
    ASSUME NEW db, NEW eb, NEW line \in CmdLineType, Accepted(line), WellFormed(line),
           \A k \in KeySet(line) : db[k] = eb[k]
    PROVE  execNormalCommand(db, line) = execNormalCommand(eb, line)
<1>1. execNormalCommand(db, line) = exec(db, line) /\ execNormalCommand(eb, line) = exec(eb, line)
  BY DEF execNormalCommand, Accepted
<1> SUFFICES exec(db, line) = exec(eb, line)
  BY <1>1
<1>2. /\ line.op \in Names
      /\ line.op \in OfOneKey => KeySet(line) = {Key(line)}
      /\ line.op \in OfTwoKeys => KeySet(line) = {line.keys[1], line.keys[2]}
  BY LineFacts
<1>3. CASE line.op \in OfOneKey
  <2>1. db[Key(line)] = eb[Key(line)]
    BY <1>2, <1>3
  <2>2. /\ Exists(db, Key(line)) <=> Exists(eb, Key(line))
        /\ IsString(db, Key(line)) <=> IsString(eb, Key(line))
        /\ IsList(db, Key(line)) <=> IsList(eb, Key(line))
        /\ Listed(db, line) = Listed(eb, line)
    BY <2>1 DEF Exists, IsString, IsList, Listed
  <2>3. BadType(db, line) <=> BadType(eb, line)
    BY <2>2 DEF BadType
  <2>4. CASE line.op \in {"GET", "SET", "SETNX", "GETSET", "STRLEN", "TYPE"}
    <3>1. /\ execGet(db, line) = execGet(eb, line)
          /\ execSet(db, line) = execSet(eb, line)
          /\ execSetNX(db, line) = execSetNX(eb, line)
          /\ execGetSet(db, line) = execGetSet(eb, line)
          /\ execStrlen(db, line) = execStrlen(eb, line)
          /\ execType(db, line) = execType(eb, line)
      BY <2>2 DEF execGet, execSet, execSetNX, execGetSet, execStrlen, execType
    <3> QED BY <2>4, <3>1, ExecIs
  <2>5. CASE line.op \in {"LPUSH", "RPUSH"}
    <3>1. execLPush(db, line) = execLPush(eb, line) /\ execRPush(db, line) = execRPush(eb, line)
      BY <2>2, <2>3 DEF execLPush, execRPush, execPush
    <3> QED BY <2>5, <3>1, ExecIs
  <2>6. CASE line.op \in {"LPOP", "RPOP"}
    <3>1. execLPop(db, line) = execLPop(eb, line) /\ execRPop(db, line) = execRPop(eb, line)
      BY <2>2, <2>3 DEF execLPop, execRPop, execPop
    <3> QED BY <2>6, <3>1, ExecIs
  <2>7. CASE line.op \in {"LRANGE", "LLEN"}
    <3>1. execLRange(db, line) = execLRange(eb, line) /\ execLLen(db, line) = execLLen(eb, line)
      BY <2>2, <2>3 DEF execLRange, execLLen
    <3> QED BY <2>7, <3>1, ExecIs
  <2>8. CASE line.op \in {"LINDEX", "LSET"}
    <3>1. execLIndex(db, line) = execLIndex(eb, line) /\ execLSet(db, line) = execLSet(eb, line)
      BY <2>2, <2>3 DEF execLIndex, execLSet
    <3> QED BY <2>8, <3>1, ExecIs
  <2> QED BY <1>3, <2>4, <2>5, <2>6, <2>7, <2>8 DEF OfOneKey
<1>4. CASE line.op \in OfTwoKeys
  <2>1. db[line.keys[1]] = eb[line.keys[1]] /\ db[line.keys[2]] = eb[line.keys[2]]
    BY <1>2, <1>4
  <2>2. execRename(db, line) = execRename(eb, line) /\ execRenameNX(db, line) = execRenameNX(eb, line)
    BY <2>1 DEF execRename, execRenameNX, Move, Exists
  <2> QED BY <1>4, <2>2, ExecIs DEF OfTwoKeys
<1>5. CASE line.op \in {"DEL", "EXIST"}
  <2>1. \A i \in 1 .. Len(line.keys) : Exists(db, line.keys[i]) <=> Exists(eb, line.keys[i])
    BY DEF KeySet, Exists
  <2>2. Removed(db, line) = Removed(eb, line)
    BY <2>1 DEF Removed
  <2>3. {i \in 1 .. Len(line.keys) : Exists(db, line.keys[i])}
          = {i \in 1 .. Len(line.keys) : Exists(eb, line.keys[i])}
    BY <2>1
  <2>4. execDel(db, line) = execDel(eb, line) /\ execExist(db, line) = execExist(eb, line)
    BY <2>2, <2>3 DEF execDel, execExist
  <2> QED BY <1>5, <2>4, ExecIs
<1>6. CASE line.op \in {"FLUSHDB", "PING"}
  <2>1. execFlushDB(db, line) = execFlushDB(eb, line) /\ Ping(db, line) = Ping(eb, line)
    BY DEF execFlushDB, Ping
  <2> QED BY <1>6, <2>1, ExecIs
<1> QED BY <1>2, <1>3, <1>4, <1>5, <1>6 DEF Names, OfOneKey, OfTwoKeys

-----------------------------------------------------------------------------
(* What the writes of a command leave in the database                      *)

LastAt(puts, k) ==
    LET at == {i \in 1 .. Len(puts) : puts[i].key = k} IN CHOOSE i \in at : \A j \in at : j <= i

\* A key that is written has a last write.
LEMMA LastWrite ==
    ASSUME NEW line, NEW puts \in Seq(PutsOf(line)), NEW k,
           {i \in 1 .. Len(puts) : puts[i].key = k} # {}
    PROVE  /\ LastAt(puts, k) \in 1 .. Len(puts) /\ puts[LastAt(puts, k)].key = k
           /\ \A j \in 1 .. Len(puts) : puts[j].key = k => j <= LastAt(puts, k)
<1> DEFINE at == {i \in 1 .. Len(puts) : puts[i].key = k}
           n == Len(puts)
           up == {n - i : i \in at}
<1>1. n \in Nat /\ at \subseteq 1 .. n
  OBVIOUS
<1>2. up \in SUBSET Nat /\ up # {}
  <2> HIDE DEF n, at
  <2>1. \A i \in at : n - i \in Nat
    BY <1>1
  <2>2. at # {}
    BY DEF at
  <2> QED BY <2>1, <2>2
<1> HIDE DEF up
<1>3. PICK u \in up : \A v \in up : u <= v
  BY <1>2, LeastMember
<1>4. PICK i \in at : \A j \in at : n - i <= n - j
  <2>1. \A j \in at : n - j \in up
    BY DEF up
  <2> QED BY <1>3, <2>1 DEF up
<1>5. \A j \in at : j <= i
  <2> HIDE DEF n, at
  <2> QED BY <1>1, <1>4
<1>6. LastAt(puts, k) \in at /\ \A j \in at : j <= LastAt(puts, k)
  BY <1>4, <1>5 DEF LastAt
<1> QED BY <1>6

\* Stored, for a result that does not flush: a key without a write keeps what
\* it had, and of several writes the last one counts.
LEMMA StoredUntouched ==
    ASSUME NEW db, NEW r, ~r.flush, NEW k \in Keys,
           \A i \in 1 .. Len(r.puts) : r.puts[i].key # k
    PROVE  Stored(db, r)[k] = db[k]
  BY DEF Stored

LEMMA StoredLast ==
    ASSUME NEW db, NEW r, NEW k \in Keys, {i \in 1 .. Len(r.puts) : r.puts[i].key = k} # {}
    PROVE  Stored(db, r)[k] = r.puts[LastAt(r.puts, k)].entity
  BY DEF Stored, LastAt

LEMMA LastIs ==
    ASSUME NEW line, NEW puts \in Seq(PutsOf(line)), NEW k,
           NEW i \in 1 .. Len(puts), puts[i].key = k,
           \A j \in 1 .. Len(puts) : puts[j].key = k => j <= i
    PROVE  LastAt(puts, k) = i
<1>1. {j \in 1 .. Len(puts) : puts[j].key = k} # {}
  OBVIOUS
<1>2. /\ LastAt(puts, k) \in 1 .. Len(puts) /\ puts[LastAt(puts, k)].key = k
      /\ \A j \in 1 .. Len(puts) : puts[j].key = k => j <= LastAt(puts, k)
  BY <1>1, LastWrite
<1>3. LastAt(puts, k) <= i /\ i <= LastAt(puts, k) /\ i \in Nat /\ LastAt(puts, k) \in Nat
  BY <1>2
<1> QED BY <1>3

\* The contents keep their type, FLUSHDB included.
LEMMA StoredTyped ==
    ASSUME NEW db \in [Keys -> Entities], NEW line, NEW r, r.puts \in Seq(PutsOf(line))
    PROVE  Stored(db, r) \in [Keys -> Entities]
<1> DEFINE n == Len(r.puts)
<1>1. \A i \in 1 .. n : r.puts[i] \in PutsOf(line)
  OBVIOUS
<1>2. \A i \in 1 .. n : r.puts[i].entity \in Entities
  BY <1>1 DEF PutsOf
<1>3. ASSUME NEW k \in Keys PROVE Stored(db, r)[k] \in Entities
  <2>1. CASE {i \in 1 .. n : r.puts[i].key = k} = {}
    <3>1. Stored(db, r)[k] = IF r.flush THEN Absent ELSE db[k]
      BY <2>1 DEF Stored
    <3> QED BY <3>1, EntityFacts
  <2>2. CASE {i \in 1 .. n : r.puts[i].key = k} # {}
    <3>1. Stored(db, r)[k] = r.puts[LastAt(r.puts, k)].entity /\ LastAt(r.puts, k) \in 1 .. n
      BY <2>2, LastWrite, StoredLast
    <3> QED BY <1>2, <3>1
  <2> QED BY <2>1, <2>2
<1>4. Stored(db, r) = [k \in Keys |-> Stored(db, r)[k]]
  BY DEF Stored
<1> QED BY <1>3, <1>4

\* The keys that no write names keep what they had, and the contents keep
\* their type.
LEMMA StoredFacts ==
    ASSUME NEW db \in [Keys -> Entities], NEW line, NEW r, r.puts \in Seq(PutsOf(line)), ~r.flush
    PROVE  /\ Stored(db, r) \in [Keys -> Entities]
           /\ \A k \in Keys \ KeySet(line) : Stored(db, r)[k] = db[k]
           /\ r.puts = <<>> => Stored(db, r) = db
<1> DEFINE n == Len(r.puts)
<1>1. \A i \in 1 .. n : r.puts[i] \in PutsOf(line)
  OBVIOUS
<1>2. \A i \in 1 .. n : r.puts[i].key \in KeySet(line) /\ r.puts[i].entity \in Entities
  BY <1>1 DEF PutsOf
<1>4. ASSUME NEW k \in Keys \ KeySet(line) PROVE Stored(db, r)[k] = db[k]
  BY <1>2, StoredUntouched
<1>5. Stored(db, r) = [k \in Keys |-> Stored(db, r)[k]]
  BY DEF Stored
<1>6. Stored(db, r) \in [Keys -> Entities]
  BY StoredTyped
<1>7. ASSUME r.puts = <<>> PROVE Stored(db, r) = db
  <2>1. \A k \in Keys : Stored(db, r)[k] = db[k]
    BY <1>7, StoredUntouched
  <2> QED BY <1>5, <2>1
<1> QED BY <1>4, <1>6, <1>7

\* Contents that agree on a key agree on it after the same writes.
LEMMA StoredAgree ==
    ASSUME NEW db, NEW eb, NEW r, ~r.flush, NEW k \in Keys, db[k] = eb[k]
    PROVE  Stored(db, r)[k] = Stored(eb, r)[k]
<1>1. CASE {i \in 1 .. Len(r.puts) : r.puts[i].key = k} = {}
  <2>1. Stored(db, r)[k] = db[k] /\ Stored(eb, r)[k] = eb[k]
    BY <1>1, StoredUntouched
  <2> QED BY <2>1
<1>2. CASE {i \in 1 .. Len(r.puts) : r.puts[i].key = k} # {}
  <2>1. /\ Stored(db, r)[k] = r.puts[LastAt(r.puts, k)].entity
        /\ Stored(eb, r)[k] = r.puts[LastAt(r.puts, k)].entity
    BY <1>2, StoredLast
  <2> QED BY <2>1
<1> QED BY <1>1, <1>2

\* Making the first write and leaving the others for later makes no difference
\* to what the command leaves in the end.
LEMMA StoredStep ==
    ASSUME NEW db \in [Keys -> Entities], NEW line, NEW r, NEW q, KeySet(line) \subseteq Keys,
           r.puts \in Seq(PutsOf(line)), r.puts # <<>>, ~r.flush,
           q.puts = Tail(r.puts), ~q.flush
    PROVE  /\ [db EXCEPT ![Head(r.puts).key] = Head(r.puts).entity] \in [Keys -> Entities]
           /\ \A k \in Keys : Stored([db EXCEPT ![Head(r.puts).key] = Head(r.puts).entity], q)[k]
                                = Stored(db, r)[k]
<1> DEFINE p == Head(r.puts)
           eb == [db EXCEPT ![p.key] = p.entity]
           n == Len(r.puts)
<1>1. p \in PutsOf(line) /\ p = r.puts[1]
  OBVIOUS
<1>2. p.key \in Keys /\ p.key \in KeySet(line) /\ p.entity \in Entities
  BY <1>1 DEF PutsOf
<1>3. eb \in [Keys -> Entities]
  BY <1>2
<1>4. /\ n \in Nat /\ n >= 1 /\ Len(q.puts) = n - 1 /\ q.puts \in Seq(PutsOf(line))
      /\ \A i \in 1 .. n - 1 : q.puts[i] = r.puts[i + 1]
  <2>1. n \in Nat /\ n # 0
    OBVIOUS
  <2> QED BY <2>1, HeadTailProperties
<1>5. ASSUME NEW k \in Keys PROVE Stored(eb, q)[k] = Stored(db, r)[k]
  <2>1. eb[k] = IF k = p.key THEN p.entity ELSE db[k]
    BY <1>2
  <2> HIDE DEF eb, n
  <2>2. CASE {i \in 1 .. Len(q.puts) : q.puts[i].key = k} # {}
    <3> DEFINE l == LastAt(q.puts, k)
    <3>1. /\ l \in 1 .. Len(q.puts) /\ q.puts[l].key = k
          /\ \A j \in 1 .. Len(q.puts) : q.puts[j].key = k => j <= l
      BY <1>4, <2>2, LastWrite
    <3>2. Stored(eb, q)[k] = q.puts[l].entity
      BY <2>2, StoredLast
    <3> HIDE DEF l
    <3>3. l + 1 \in 1 .. n /\ r.puts[l + 1].key = k /\ q.puts[l] = r.puts[l + 1]
      BY <1>4, <3>1
    <3>4. ASSUME NEW j \in 1 .. n, r.puts[j].key = k PROVE j <= l + 1
      <4>1. CASE j = 1
        BY <1>4, <3>1, <4>1
      <4>2. CASE j # 1
        <5>1. j - 1 \in 1 .. n - 1 /\ q.puts[j - 1] = r.puts[j]
          BY <1>4, <4>2
        <5>2. j - 1 <= l
          BY <1>4, <3>1, <3>4, <5>1
        <5> QED BY <1>4, <3>1, <5>2
      <4> QED BY <4>1, <4>2
    <3>5. Stored(db, r)[k] = r.puts[l + 1].entity
      <4>1. LastAt(r.puts, k) = l + 1
        BY <3>3, <3>4, LastIs DEF n
      <4>2. {i \in 1 .. Len(r.puts) : r.puts[i].key = k} # {}
        BY <3>3 DEF n
      <4> QED BY <4>1, <4>2, StoredLast
    <3> QED BY <3>2, <3>3, <3>5
  <2>3. CASE {i \in 1 .. Len(q.puts) : q.puts[i].key = k} = {}
    <3>1. Stored(eb, q)[k] = eb[k]
      <4>1. \A i \in 1 .. Len(q.puts) : q.puts[i].key # k
        BY <2>3
      <4> QED BY <4>1, StoredUntouched
    <3>2. \A j \in 1 .. n : r.puts[j].key = k => j = 1
      <4> SUFFICES ASSUME NEW j \in 1 .. n, r.puts[j].key = k, j # 1 PROVE FALSE
        OBVIOUS
      <4>1. j - 1 \in 1 .. n - 1 /\ q.puts[j - 1] = r.puts[j]
        BY <1>4
      <4> QED BY <1>4, <2>3, <4>1
    <3>3. CASE k = p.key
      <4>1. 1 \in 1 .. n /\ r.puts[1].key = k /\ \A j \in 1 .. n : r.puts[j].key = k => j <= 1
        BY <1>1, <1>4, <3>2, <3>3
      <4>2. Stored(db, r)[k] = r.puts[1].entity
        <5>1. LastAt(r.puts, k) = 1
          BY <4>1, LastIs DEF n
        <5>2. {i \in 1 .. Len(r.puts) : r.puts[i].key = k} # {}
          BY <4>1 DEF n
        <5> QED BY <5>1, <5>2, StoredLast
      <4> QED BY <1>1, <2>1, <3>1, <3>3, <4>2
    <3>4. CASE k # p.key
      <4>1. \A j \in 1 .. n : r.puts[j].key # k
        BY <1>1, <3>2, <3>4
      <4>2. Stored(db, r)[k] = db[k]
        BY <4>1, StoredUntouched DEF n
      <4> QED BY <2>1, <3>1, <3>4, <4>2
    <3> QED BY <3>3, <3>4
  <2> QED BY <2>2, <2>3
<1> QED BY <1>3, <1>5

-----------------------------------------------------------------------------
(* Every command answers with a reply                                      *)

IsReply(rep) == DOMAIN rep = {"kind", "vals", "n"}

LEMMA RepliesAre ==
    /\ \A k : IsReply(Reply(k))
    /\ \A v : IsReply(Bulk(v)) /\ IsReply(MultiBulk(v)) /\ IsReply(IntReply(v))
    /\ IsReply(NullBulk) /\ IsReply(Ok) /\ IsReply(WrongType) /\ IsReply(Panic)
  BY DEF IsReply, Reply, Bulk, MultiBulk, IntReply, NullBulk, Ok, WrongType, Panic

LEMMA ResultReply ==
    ASSUME NEW rep
    PROVE  Reads(rep).reply = rep /\ \A puts : Writes(puts, rep).reply = rep
  BY DEF Reads, Writes

LEMMA ReplyFacts ==
    ASSUME NEW db, NEW line
    PROVE  IsReply(execNormalCommand(db, line).reply)
<1>1. CASE ~Accepted(line)
  <2>1. \E k : execNormalCommand(db, line) = Reads(Reply(k))
    BY <1>1 DEF execNormalCommand
  <2> QED BY <2>1, RepliesAre, ResultReply
<1>2. CASE Accepted(line)
  <2>1. line.op \in Names /\ execNormalCommand(db, line) = exec(db, line)
    BY <1>2, TableDomain DEF execNormalCommand, Accepted
  <2> DEFINE Answered(r) == \E rep : IsReply(rep) /\ (r = Reads(rep) \/ \E puts : r = Writes(puts, rep))
  <2>2. Answered(execGet(db, line)) /\ Answered(execStrlen(db, line)) /\ Answered(execType(db, line))
    BY RepliesAre DEF execGet, execStrlen, execType
  <2>3. Answered(execSet(db, line)) /\ Answered(execSetNX(db, line)) /\ Answered(execGetSet(db, line))
    BY RepliesAre DEF execSet, execSetNX, execGetSet
  <2>4. Answered(execDel(db, line)) /\ Answered(execExist(db, line)) /\ Answered(Ping(db, line))
    BY RepliesAre DEF execDel, execExist, Ping
  <2>5. Answered(execRename(db, line)) /\ Answered(execRenameNX(db, line))
    BY RepliesAre DEF execRename, execRenameNX
  <2>6. IsReply(execFlushDB(db, line).reply)
    <3>1. execFlushDB(db, line).reply = Ok
      BY DEF execFlushDB, Writes
    <3> QED BY <3>1, RepliesAre
  <2>7. ASSUME NEW l, NEW at
        PROVE  Answered(execPush(db, line, l)) /\ Answered(execPop(db, line, at, l))
    BY RepliesAre DEF execPush, execPop
  <2>8. /\ Answered(execLPush(db, line)) /\ Answered(execRPush(db, line))
        /\ Answered(execLPop(db, line)) /\ Answered(execRPop(db, line))
    <3> HIDE DEF Answered
    <3> QED BY <2>7 DEF execLPush, execRPush, execLPop, execRPop
  <2>9. Answered(execLRange(db, line)) /\ Answered(execLLen(db, line))
    BY RepliesAre DEF execLRange, execLLen
  <2>10. Answered(execLIndex(db, line)) /\ Answered(execLSet(db, line))
    BY RepliesAre DEF execLIndex, execLSet
  <2>11. ASSUME NEW r, Answered(r) PROVE IsReply(r.reply)
    BY <2>11, ResultReply
  <2> HIDE DEF Answered
  <2>12. Answered(exec(db, line)) \/ line.op = "FLUSHDB"
    BY <2>1, <2>2, <2>3, <2>4, <2>5, <2>8, <2>9, <2>10, ExecIs DEF Names
  <2>13. IsReply(exec(db, line).reply)
    BY <2>6, <2>11, <2>12, ExecIs
  <2> QED BY <2>1, <2>13
<1> QED BY <1>1, <1>2

-----------------------------------------------------------------------------
(* The commands that panic                                                 *)

LEMMA NotPanic ==
    /\ \A v : Bulk(v) # Panic /\ MultiBulk(v) # Panic /\ IntReply(v) # Panic
    /\ \A k : k # "panic" => Reply(k) # Panic
    /\ NullBulk # Panic /\ Ok # Panic /\ WrongType # Panic
<1>1. Panic.kind = "panic"
  BY DEF Panic, Reply
<1>2. \A v : Bulk(v).kind = "bulk" /\ MultiBulk(v).kind = "multi" /\ IntReply(v).kind = "int"
  BY DEF Bulk, MultiBulk, IntReply, Reply
<1>3. \A k : Reply(k).kind = k
  BY DEF Reply
<1> QED BY <1>1, <1>2, <1>3 DEF NullBulk, Ok, WrongType

\* Of the commands that are logged only GETSET can panic, on a list.
LEMMA PanicFacts ==
    ASSUME NEW db \in [Keys -> Entities], NEW line \in CmdLineType, Accepted(line), WellFormed(line),
           line.op \notin Reading, execNormalCommand(db, line).reply = Panic
    PROVE  line.op = "GETSET" /\ db[Key(line)].type = "list"
<1>1. execNormalCommand(db, line) = exec(db, line) /\ line.op \in Names
  BY LineFacts DEF execNormalCommand, Accepted
<1> DEFINE Calm(r) == \E rep : rep # Panic /\ (r = Reads(rep) \/ \E puts : r = Writes(puts, rep))
<1>2. ASSUME NEW r, Calm(r) PROVE r.reply # Panic
  BY <1>2, ResultReply
<1>3. Calm(execSet(db, line)) /\ Calm(execSetNX(db, line)) /\ Calm(execDel(db, line))
  BY NotPanic DEF execSet, execSetNX, execDel
<1>4. Calm(execRename(db, line)) /\ Calm(execRenameNX(db, line))
  BY NotPanic DEF execRename, execRenameNX
<1>5. ASSUME NEW l, NEW at PROVE Calm(execPush(db, line, l)) /\ Calm(execPop(db, line, at, l))
  BY NotPanic DEF execPush, execPop
<1>6. Calm(execLSet(db, line))
  BY NotPanic DEF execLSet
<1>7. execFlushDB(db, line).reply # Panic
  <2>1. execFlushDB(db, line).reply = Ok
    BY DEF execFlushDB, Writes
  <2> QED BY <2>1, NotPanic
<1> HIDE DEF Calm
<1>8. /\ Calm(execLPush(db, line)) /\ Calm(execRPush(db, line))
      /\ Calm(execLPop(db, line)) /\ Calm(execRPop(db, line))
  BY <1>5 DEF execLPush, execRPush, execLPop, execRPop
<1>9. line.op \notin {"GETSET", "FLUSHDB"} => Calm(exec(db, line))
  BY <1>1, <1>3, <1>4, <1>6, <1>8, ExecIs DEF Names, Reading
<1>10. line.op # "FLUSHDB"
  BY <1>1, <1>7, ExecIs
<1>11. line.op = "GETSET"
  BY <1>1, <1>2, <1>9, <1>10
<1>12. execGetSet(db, line).reply = Panic
  BY <1>1, <1>11, ExecIs
<1>13. Exists(db, Key(line)) /\ ~IsString(db, Key(line))
  BY <1>12, NotPanic, ResultReply DEF execGetSet
<1>14. db[Key(line)] \in Entities
  <2>1. Key(line) \in Keys
    BY <1>11, LineFacts DEF OfOneKey
  <2> QED BY <2>1
<1> QED BY <1>11, <1>13, <1>14 DEF Exists, IsString, Entities

\* No GETSET, RENAME, RENAMENX or FLUSHDB: the commands that write keys which
\* their prepare functions lock for reading, or not at all.
Guarded == \A line \in CmdLines : Accepted(line) => line.op \notin Unguarded

Locks == INSTANCE ConcurrentDictProofs WITH
            Requests <- {prepare(line) : line \in {l \in CmdLines : Accepted(l)}}

-----------------------------------------------------------------------------
(* The lock layer                                                          *)

LEMMA LineOK ==
    ASSUME NEW line \in CmdLines
    PROVE  line \in CmdLineType /\ (Accepted(line) => WellFormed(line))
  BY LinesAssumption

LEMMA RequestsFacts ==
    {prepare(line) : line \in {l \in CmdLines : Accepted(l)}}
        \subseteq [write : SUBSET Keys, read : SUBSET Keys]
<1> SUFFICES ASSUME NEW line \in CmdLines, Accepted(line)
             PROVE  prepare(line) \in [write : SUBSET Keys, read : SUBSET Keys]
  OBVIOUS
<1> QED BY LineOK, PrepareFacts

LEMMA LocksInit == Locks!Init => Locks!LockInv
  BY Locks!LockInvInit, ClientsAssumption, ShardsAssumption, BoundsAssumption, RequestsFacts
     DEF Locks!Shards

LEMMA LocksNext == Locks!LockInv /\ [Locks!Next]_Locks!vars => Locks!LockInv'
  BY Locks!LockInvNext, ClientsAssumption, ShardsAssumption, BoundsAssumption, RequestsFacts
     DEF Locks!Shards

LEMMA LocksExclude == Locks!LockInv => Locks!MutualExclusion
  BY Locks!LockInvExcludes, ClientsAssumption, ShardsAssumption, BoundsAssumption, RequestsFacts
     DEF Locks!Shards

LEMMA LocksOthers ==
    ASSUME Locks!TypeOK, NEW c \in Clients, NEW d \in Clients, d # c, Locks!Step(c)
    PROVE  pc'[d] = pc[d] /\ plan'[d] = plan[d]
  BY Locks!OthersStay, ClientsAssumption, ShardsAssumption, BoundsAssumption, RequestsFacts
     DEF Locks!Shards

\* The two instances of the lock layer are one.
LEMMA SameState ==
    /\ Dict!TypeOK <=> Locks!TypeOK
    /\ Dict!Init <=> Locks!Init
    /\ Dict!Shards = Locks!Shards
    /\ \A req : Dict!toLockIndices(req) = Locks!toLockIndices(req)
  BY DEF Dict!TypeOK, Locks!TypeOK, Dict!Init, Locks!Init, Dict!PCs, Locks!PCs, Dict!Waiting,
         Locks!Waiting, Dict!Shards, Locks!Shards, Dict!Tables, Locks!Tables, Dict!Mutexes,
         Locks!Mutexes, Dict!NoPlan, Locks!NoPlan, Dict!toLockIndices, Locks!toLockIndices

LEMMA SameLocking ==
    ASSUME NEW c
    PROVE  Dict!LockStep(c) => Locks!LockStep(c)
  BY DEF Dict!LockStep, Locks!LockStep, Dict!CallLock, Locks!CallLock, Dict!Announce,
         Locks!Announce, Dict!LockReturns, Locks!LockReturns, Dict!RLock, Locks!RLock,
         Dict!RLockWaits, Locks!RLockWaits, Dict!RLockReturns, Locks!RLockReturns,
         Dict!Acquired, Locks!Acquired, Dict!NextToLock, Locks!NextToLock, Dict!Lowest,
         Locks!Lowest, Dict!mutex, Locks!mutex

LEMMA SameUnlocking ==
    ASSUME NEW c
    PROVE  /\ Dict!RWUnLocks(c) => Locks!RWUnLocks(c)
           /\ Dict!UnlockStep(c) => Locks!UnlockStep(c)
  BY DEF Dict!RWUnLocks, Locks!RWUnLocks, Dict!UnlockStep, Locks!UnlockStep, Dict!Unlock,
         Locks!Unlock, Dict!RUnlock, Locks!RUnlock, Dict!Released, Locks!Released, Dict!All,
         Locks!All, Dict!NextToUnlock, Locks!NextToUnlock, Dict!Highest, Locks!Highest,
         Dict!mutex, Locks!mutex, Dict!NoPlan, Locks!NoPlan

LEMMA SameRequest ==
    ASSUME NEW c, NEW line \in CmdLines, Accepted(line), Dict!RWLocks(c, prepare(line))
    PROVE  Locks!Step(c)
<1>1. Locks!RWLocks(c, prepare(line))
  BY DEF Dict!RWLocks, Locks!RWLocks, Dict!All, Locks!All, Dict!mutex, Locks!mutex,
         Dict!toLockIndices, Locks!toLockIndices
<1> QED BY <1>1 DEF Locks!Step

\* A step of the lock layer by one client, as the database uses it: the others
\* keep their place, the invariant of the locks stays, and nothing is torn.
LEMMA LockLayerStep ==
    ASSUME Locks!LockInv, ~torn, ~fault, NEW c \in Clients,
           \/ \E line \in CmdLines : Accepted(line) /\ Dict!RWLocks(c, prepare(line))
           \/ Dict!LockStep(c)
           \/ Dict!RWUnLocks(c)
           \/ Dict!UnlockStep(c)
    PROVE  /\ Locks!LockInv' /\ ~torn'
           /\ \A d \in Clients : d # c => pc'[d] = pc[d] /\ plan'[d] = plan[d]
<1>1. Locks!Step(c)
  BY SameLocking, SameUnlocking, SameRequest DEF Locks!Step
<1>2. Locks!LockInv'
  BY <1>1, LocksNext DEF Locks!Next
<1>3. \A d \in Clients : d # c => pc'[d] = pc[d] /\ plan'[d] = plan[d]
  BY <1>1, LocksOthers DEF Locks!LockInv
<1>4. torn' = torn
  BY DEF Dict!RWLocks, Dict!LockStep, Dict!CallLock, Dict!Announce, Dict!LockReturns, Dict!RLock,
         Dict!RLockWaits, Dict!RLockReturns, Dict!Acquired, Dict!RWUnLocks, Dict!UnlockStep,
         Dict!Unlock, Dict!RUnlock, Dict!Released
<1> QED BY <1>2, <1>3, <1>4

\* What the steps of the lock layer do to the client that takes them.
LEMMA LockLayerOwn ==
    ASSUME Locks!LockInv, NEW c \in Clients
    PROVE  /\ \A req : Dict!RWLocks(c, req) =>
                 /\ plan'[c] = Dict!toLockIndices(req)
                 /\ pc'[c] \in Locks!Locking \cup {"running"}
           /\ Dict!LockStep(c) =>
                 /\ pc[c] \in Locks!Locking /\ plan'[c] = plan[c]
                 /\ pc'[c] \in Locks!Locking \cup {"running"}
           /\ Dict!RWUnLocks(c) \/ Dict!UnlockStep(c) =>
                 pc[c] \in {"running", "unlocking"} /\ pc'[c] \in {"idle", "unlocking"}
<1>1. pc \in [Clients -> Locks!PCs] /\ plan = [d \in Clients |-> plan[d]]
  BY DEF Locks!LockInv, Locks!TypeOK
<1>2. ASSUME NEW req, Dict!RWLocks(c, req)
      PROVE  plan'[c] = Dict!toLockIndices(req) /\ pc'[c] \in Locks!Locking \cup {"running"}
  BY <1>1, <1>2 DEF Dict!RWLocks, Locks!Locking
<1>3. ASSUME Dict!LockStep(c)
      PROVE  /\ pc[c] \in Locks!Locking /\ plan'[c] = plan[c]
             /\ pc'[c] \in Locks!Locking \cup {"running"}
  BY <1>1, <1>3 DEF Dict!LockStep, Dict!CallLock, Dict!Announce, Dict!LockReturns, Dict!RLock,
         Dict!RLockWaits, Dict!RLockReturns, Dict!Acquired, Locks!Locking, Locks!Waiting
<1>4. ASSUME Dict!RWUnLocks(c)
      PROVE  pc[c] \in {"running", "unlocking"} /\ pc'[c] \in {"idle", "unlocking"}
  BY <1>1, <1>4 DEF Dict!RWUnLocks
<1>5. ASSUME Dict!UnlockStep(c)
      PROVE  pc[c] \in {"running", "unlocking"} /\ pc'[c] \in {"idle", "unlocking"}
  <2>1. pc[c] = "unlocking" /\ \E s : Dict!Released(c, s)
    BY <1>5 DEF Dict!UnlockStep, Dict!Unlock, Dict!RUnlock
  <2> QED BY <1>1, <2>1 DEF Dict!Released
<1> QED BY <1>2, <1>3, <1>4, <1>5

-----------------------------------------------------------------------------
(* How far each client has got                                             *)

\* The command of a client that has decided what to write and has not logged
\* it yet: its writes are to its own keys.
Decided(c) ==
    /\ IsResult(result[c])
    /\ result[c].puts \in Seq(PutsOf(cmd[c]))
    /\ ~result[c].flush /\ result[c].logged
    /\ cmd[c].op \notin Reading

\* The locks that go with each phase of a command.
Stage(c) ==
    /\ phase[c] = "none" <=> cmd[c] = NoCmd
    /\ phase[c] \in {"none", "refuse"} => pc[c] = "idle"
    /\ phase[c] = "refuse" => ~Accepted(cmd[c])
    /\ phase[c] \in {"exec", "write", "log"} =>
           Accepted(cmd[c]) /\ plan[c] = Dict!toLockIndices(prepare(cmd[c]))
    /\ phase[c] = "exec" => pc[c] \in Locks!Locking \cup {"running"}
    /\ phase[c] \in {"write", "log"} => pc[c] = "running" /\ Decided(c)
    /\ phase[c] = "write" => result[c].puts # <<>>
    /\ phase[c] = "log" => result[c].puts = <<>>
    /\ phase[c] # "flush"
    /\ phase[c] = "done" => pc[c] \notin Locks!Locking

Types ==
    /\ data \in [Keys -> Entities]
    /\ cmd \in [Clients -> CmdLines \cup {NoCmd}]
    /\ phase \in [Clients -> Phases]
    /\ result = [c \in Clients |-> result[c]]
    /\ aofChan \in Seq(CmdLines) /\ Len(aofChan) <= aofBufferSize
    /\ image \in [Keys -> Entities]
    /\ poisoned \in BOOLEAN
    /\ store \in [Keys -> Entities] /\ skewed \in SUBSET Keys

StageInv == Locks!LockInv /\ ~torn /\ Types /\ \A c \in Clients : Stage(c)

-----------------------------------------------------------------------------
(* Replaying a command                                                     *)

\* After of a guarded command: types, and the keys it does not name.
LEMMA AfterFacts ==
    ASSUME Guarded, NEW db \in [Keys -> Entities], NEW line \in CmdLines
    PROVE  /\ After(db, line) \in [Keys -> Entities]
           /\ \A k \in Keys \ KeySet(line) : After(db, line)[k] = db[k]
<1>1. CASE Accepted(line)
  <2>1. Sound(line, execNormalCommand(db, line)) /\ line.op # "FLUSHDB"
    BY <1>1, LineOK, ExecSound DEF Guarded, Unguarded
  <2>2. execNormalCommand(db, line).puts \in Seq(PutsOf(line)) /\ ~execNormalCommand(db, line).flush
    BY <2>1 DEF Sound
  <2> QED BY <2>2, StoredFacts DEF After
<1>2. CASE ~Accepted(line)
  <2>1. PICK rep : execNormalCommand(db, line) = Reads(rep)
    BY <1>2 DEF execNormalCommand
  <2>2. Reads(rep).puts = <<>> /\ Reads(rep).puts \in Seq(PutsOf(line)) /\ ~Reads(rep).flush
    BY DEF Reads
  <2>3. Stored(db, Reads(rep)) = db
    BY <2>2, StoredFacts
  <2> QED BY <2>1, <2>3 DEF After
<1> QED BY <1>1, <1>2

\* Exec decides: where a command goes from there.
LEMMA ExecDecides ==
    ASSUME Guarded, NEW line \in CmdLines, Accepted(line), NEW db \in [Keys -> Entities],
           NEW r, r = execNormalCommand(db, line)
    PROVE  /\ PhaseOf(r) \in {"write", "log", "done"}
           /\ PhaseOf(r) \in {"write", "log"} =>
                 /\ IsResult(r) /\ r.puts \in Seq(PutsOf(line)) /\ ~r.flush /\ r.logged
                 /\ line.op \notin Reading
           /\ PhaseOf(r) = "write" => r.puts # <<>>
           /\ PhaseOf(r) = "log" => r.puts = <<>>
           /\ PhaseOf(r) = "done" => r.puts = <<>> /\ ~r.logged
<1>1. Sound(line, r) /\ line.op # "FLUSHDB"
  BY LineOK, ExecSound DEF Guarded, Unguarded
<1>2. /\ IsResult(r) /\ r.puts \in Seq(PutsOf(line)) /\ ~r.flush
      /\ ~r.logged => r.puts = <<>>
      /\ line.op \in Reading => ~r.logged
  BY <1>1 DEF Sound
<1> QED BY <1>2 DEF PhaseOf

-----------------------------------------------------------------------------
(* The phases keep to the locks                                            *)

LEMMA LineKeys ==
    ASSUME NEW line \in CmdLines
    PROVE  KeySet(line) \subseteq Keys
<1>1. line.keys \in Seq(Keys)
  BY LinesAssumption DEF CmdLineType
<1> QED BY <1>1 DEF KeySet

LEMMA StageStays ==
    ASSUME NEW d, Stage(d), pc'[d] = pc[d], plan'[d] = plan[d], cmd'[d] = cmd[d],
           phase'[d] = phase[d], result'[d] = result[d]
    PROVE  Stage(d)'
  BY DEF Stage, Decided

LEMMA StageInit == Init => StageInv
<1> SUFFICES ASSUME Init PROVE StageInv
  OBVIOUS
<1>1. Locks!LockInv
  BY SameState, LocksInit DEF Init
<1>2. ~torn
  BY DEF Init, Dict!Init
<1>3. poisoned \in BOOLEAN
  BY DEF Init
<1>4. /\ data \in [Keys -> Entities] /\ image \in [Keys -> Entities]
      /\ store \in [Keys -> Entities] /\ skewed \in SUBSET Keys
      /\ aofChan \in Seq(CmdLines) /\ Len(aofChan) <= aofBufferSize
  BY EntityFacts, BufferAssumption DEF Init
<1>5. /\ cmd \in [Clients -> CmdLines \cup {NoCmd}] /\ phase \in [Clients -> Phases]
      /\ result = [c \in Clients |-> result[c]]
  BY DEF Init, Phases
<1>6. ASSUME NEW c \in Clients PROVE Stage(c)
  BY DEF Init, Dict!Init, Stage
<1> QED BY <1>1, <1>2, <1>3, <1>4, <1>5, <1>6 DEF StageInv, Types

\* The process starts again.
LEMMA StageRestart ==
    ASSUME StageInv, Restart
    PROVE  StageInv'
<1>1. Locks!Init'
  BY DEF Restart, Locks!Init, Dict!Mutexes, Locks!Mutexes, Dict!Tables, Locks!Tables,
         Dict!Shards, Locks!Shards, Dict!NoPlan, Locks!NoPlan
<1>2. (Locks!Init => Locks!LockInv)'
  BY LocksInit, PTL
<1>3. ~torn'
  BY DEF Restart
<1>4. poisoned' \in BOOLEAN
  BY DEF Restart, StageInv, Types
<1>5. /\ data' \in [Keys -> Entities] /\ image' \in [Keys -> Entities]
      /\ store' \in [Keys -> Entities] /\ skewed' \in SUBSET Keys
      /\ aofChan' \in Seq(CmdLines) /\ Len(aofChan') <= aofBufferSize
  BY BufferAssumption DEF Restart, StageInv, Types
<1>6. /\ cmd' \in [Clients -> CmdLines \cup {NoCmd}] /\ phase' \in [Clients -> Phases]
      /\ result' = [c \in Clients |-> result'[c]]
  BY DEF Restart, Phases
<1>7. ASSUME NEW c \in Clients PROVE Stage(c)'
  BY DEF Restart, Stage
<1> QED BY <1>1, <1>2, <1>3, <1>4, <1>5, <1>6, <1>7 DEF StageInv, Types

\* The writer of the file takes a command from the channel.
LEMMA StageHandleAof ==
    ASSUME Guarded, StageInv, HandleAof
    PROVE  StageInv'
<1> Types
  BY DEF StageInv
<1>1. Locks!LockInv' /\ ~torn'
  <2>1. UNCHANGED Locks!vars
    BY DEF HandleAof, lockvars, Locks!vars
  <2> QED BY <2>1, LocksNext DEF StageInv, HandleAof, lockvars
<1>2. UNCHANGED <<pc, plan, cmd, phase, result, data, store, skewed>>
  BY DEF HandleAof, lockvars, execvars
<1>3. poisoned' \in BOOLEAN
  BY DEF HandleAof
<1>4. aofChan' \in Seq(CmdLines) /\ Len(aofChan') <= aofBufferSize
  BY BufferAssumption DEF HandleAof, Types
<1>5. image' \in [Keys -> Entities]
  <2>1. Head(aofChan) \in CmdLines
    BY DEF HandleAof, Types
  <2> QED BY <2>1, AfterFacts DEF HandleAof, Types
<1>6. ASSUME NEW c \in Clients PROVE Stage(c)'
  BY <1>2, StageStays DEF StageInv
<1> QED BY <1>1, <1>2, <1>3, <1>4, <1>5, <1>6 DEF StageInv, Types

\* The writer takes a command from the channel and fails to write it.
LEMMA StageHandleAofFails ==
    ASSUME Guarded, StageInv, HandleAofFails
    PROVE  StageInv'
<1> Types
  BY DEF StageInv
<1>1. Locks!LockInv' /\ ~torn'
  <2>1. UNCHANGED Locks!vars
    BY DEF HandleAofFails, lockvars, Locks!vars
  <2> QED BY <2>1, LocksNext DEF StageInv, HandleAofFails, lockvars
<1>2. UNCHANGED <<pc, plan, cmd, phase, result, data, image, poisoned, store>>
  BY DEF HandleAofFails, lockvars, execvars
<1>3. poisoned' \in BOOLEAN
  BY <1>2 DEF Types
<1>4. aofChan' \in Seq(CmdLines) /\ Len(aofChan') <= aofBufferSize
  BY BufferAssumption DEF HandleAofFails, Types
<1>5. skewed' \in SUBSET Keys
  <2>1. Head(aofChan) \in CmdLines
    BY DEF HandleAofFails, Types
  <2>2. KeySet(Head(aofChan)) \subseteq Keys
    BY <2>1, LineKeys
  <2> QED BY <2>2 DEF HandleAofFails, Touched, Types
<1>6. ASSUME NEW c \in Clients PROVE Stage(c)'
  BY <1>2, StageStays DEF StageInv
<1> QED BY <1>1, <1>2, <1>3, <1>4, <1>5, <1>6 DEF StageInv, Types

\* A step of a client that leaves the locks alone.
LEMMA LocksStay ==
    ASSUME Locks!LockInv, ~torn, UNCHANGED lockvars
    PROVE  Locks!LockInv' /\ ~torn' /\ pc' = pc /\ plan' = plan
<1>1. UNCHANGED Locks!vars
  BY DEF lockvars, Locks!vars
<1> QED BY <1>1, LocksNext DEF lockvars

LEMMA StageReceive ==
    ASSUME StageInv, ~fault, NEW c \in Clients, NEW line \in CmdLines, Receive(c, line)
    PROVE  StageInv'
<1> Types /\ Locks!LockInv /\ ~torn
  BY DEF StageInv
<1>1. /\ UNCHANGED <<data, aofChan, image, poisoned, store, skewed, result>> /\ cmd[c] = NoCmd
      /\ cmd' = [cmd EXCEPT ![c] = line]
      /\ phase' = [phase EXCEPT ![c] = IF Accepted(line) THEN "exec" ELSE "refuse"]
  BY DEF Receive, aofvars
<1>2. Types'
  <2>1. poisoned' \in BOOLEAN
    BY <1>1 DEF Types
  <2> QED BY <1>1, <2>1 DEF Types, Phases
<1>3. /\ cmd'[c] = line /\ phase'[c] = IF Accepted(line) THEN "exec" ELSE "refuse"
      /\ \A d \in Clients : d # c => cmd'[d] = cmd[d] /\ phase'[d] = phase[d] /\ result'[d] = result[d]
  BY <1>1 DEF Types
<1>4. line # NoCmd /\ phase[c] = "none" /\ pc[c] = "idle"
  BY <1>1, LinesAssumption DEF StageInv, Stage
<1>5. CASE Accepted(line)
  <2>1. Dict!RWLocks(c, prepare(line))
    BY <1>5 DEF Receive
  <2>2. /\ Locks!LockInv' /\ ~torn'
        /\ \A d \in Clients : d # c => pc'[d] = pc[d] /\ plan'[d] = plan[d]
    BY <1>5, <2>1, LockLayerStep
  <2>3. plan'[c] = Dict!toLockIndices(prepare(line)) /\ pc'[c] \in Locks!Locking \cup {"running"}
    BY <2>1, LockLayerOwn
  <2>4. Stage(c)'
    BY <1>3, <1>4, <1>5, <2>3 DEF Stage
  <2>5. ASSUME NEW d \in Clients, d # c PROVE Stage(d)'
    BY <1>3, <2>2, <2>5, StageStays DEF StageInv
  <2> QED BY <1>2, <2>2, <2>4, <2>5 DEF StageInv
<1>6. CASE ~Accepted(line)
  <2>1. Locks!LockInv' /\ ~torn' /\ pc' = pc /\ plan' = plan
    BY <1>6, LocksStay DEF Receive
  <2>2. Stage(c)'
    BY <1>3, <1>4, <1>6, <2>1 DEF Stage
  <2>3. ASSUME NEW d \in Clients, d # c PROVE Stage(d)'
    BY <1>3, <2>1, <2>3, StageStays DEF StageInv
  <2> QED BY <1>2, <2>1, <2>2, <2>3 DEF StageInv
<1> QED BY <1>5, <1>6

LEMMA StageStep ==
    ASSUME Guarded, StageInv, ~fault, NEW c \in Clients, Step(c)
    PROVE  StageInv'
<1> Types /\ Locks!LockInv /\ ~torn /\ Stage(c)
  BY DEF StageInv
<1> DEFINE Others == \A d \in Clients : d # c =>
                       cmd'[d] = cmd[d] /\ phase'[d] = phase[d] /\ result'[d] = result[d]
           LockOthers == \A d \in Clients : d # c => pc'[d] = pc[d] /\ plan'[d] = plan[d]
<1>1. ASSUME Types', Locks!LockInv', ~torn', Stage(c)', Others, LockOthers PROVE StageInv'
  <2>1. ASSUME NEW d \in Clients, d # c PROVE Stage(d)'
    BY <1>1, <2>1, StageStays DEF StageInv
  <2> QED BY <1>1, <2>1 DEF StageInv
<1>2. CASE Refuse(c)
  <2>1. Locks!LockInv' /\ ~torn' /\ pc' = pc /\ plan' = plan
    BY <1>2, LocksStay DEF Refuse
  <2>2. /\ phase[c] = "refuse" /\ UNCHANGED <<data, cmd, aofChan, image, poisoned, store, skewed>>
        /\ phase' = [phase EXCEPT ![c] = "done"]
        /\ result' = [result EXCEPT ![c] = execNormalCommand(data, cmd[c])]
    BY <1>2 DEF Refuse, aofvars
  <2>3. Types'
    <3>1. poisoned' \in BOOLEAN
      BY <2>2 DEF Types
    <3> QED BY <2>2, <3>1 DEF Types, Phases
  <2>4. Others /\ phase'[c] = "done"
    BY <2>2 DEF Types
  <2>5. Stage(c)'
    BY <2>1, <2>2, <2>4 DEF Stage, Locks!Locking, Locks!Waiting
  <2> QED BY <1>1, <2>1, <2>3, <2>4, <2>5
<1>3. CASE Lock(c)
  <2>1. Dict!LockStep(c) /\ UNCHANGED <<data, cmd, phase, result, aofChan, image, poisoned, store, skewed>>
    BY <1>3 DEF Lock, execvars, aofvars
  <2>2. Locks!LockInv' /\ ~torn' /\ LockOthers
    BY <2>1, LockLayerStep
  <2>3. /\ pc[c] \in Locks!Locking /\ plan'[c] = plan[c]
        /\ pc'[c] \in Locks!Locking \cup {"running"}
    BY <2>1, LockLayerOwn
  <2>4. Types'
    <3>1. poisoned' \in BOOLEAN
      BY <2>1 DEF Types
    <3> QED BY <2>1, <3>1 DEF Types
  <2>5. phase[c] = "exec"
    BY <2>3 DEF Stage, Types, Phases, Locks!Locking, Locks!Waiting
  <2>6. Stage(c)'
    BY <2>1, <2>3, <2>5 DEF Stage
  <2> QED BY <1>1, <2>1, <2>2, <2>4, <2>6
<1>4. CASE Exec(c)
  <2>1. Locks!LockInv' /\ ~torn' /\ pc' = pc /\ plan' = plan
    BY <1>4, LocksStay DEF Exec
  <2>2. /\ pc[c] = "running" /\ phase[c] = "exec" /\ UNCHANGED <<data, cmd, aofChan, image, poisoned, store, skewed>>
        /\ result' = [result EXCEPT ![c] = execNormalCommand(data, cmd[c])]
        /\ phase' = [phase EXCEPT ![c] = PhaseOf(result'[c])]
    BY <1>4 DEF Exec, aofvars
  <2>3. result'[c] = execNormalCommand(data, cmd[c]) /\ cmd[c] \in CmdLines /\ Accepted(cmd[c])
    BY <2>2 DEF Types, Stage
  <2>4. /\ PhaseOf(result'[c]) \in {"write", "log", "done"}
        /\ PhaseOf(result'[c]) \in {"write", "log"} => Decided(c)'
        /\ PhaseOf(result'[c]) = "write" => result'[c].puts # <<>>
        /\ PhaseOf(result'[c]) = "log" => result'[c].puts = <<>>
    BY <2>2, <2>3, ExecDecides DEF Types, Decided
  <2>5. Types'
    <3>1. poisoned' \in BOOLEAN
      BY <2>2 DEF Types
    <3> QED BY <2>2, <2>4, <3>1 DEF Types, Phases
  <2>6. Others /\ phase'[c] = PhaseOf(result'[c])
    BY <2>2 DEF Types
  <2>7. Stage(c)'
    BY <2>1, <2>2, <2>4, <2>6 DEF Stage, Locks!Locking, Locks!Waiting
  <2> QED BY <1>1, <2>1, <2>5, <2>6, <2>7
<1>5. CASE Write(c)
  <2> DEFINE p == Head(result[c].puts)
             r == [result[c] EXCEPT !.puts = Tail(@)]
  <2>1. Locks!LockInv' /\ ~torn' /\ pc' = pc /\ plan' = plan
    BY <1>5, LocksStay DEF Write
  <2>2. /\ phase[c] = "write" /\ UNCHANGED <<cmd, aofChan, image, poisoned, store, skewed>>
        /\ data' = [data EXCEPT ![p.key] = p.entity]
        /\ result' = [result EXCEPT ![c] = r]
        /\ phase' = [phase EXCEPT ![c] = PhaseOf(r)]
    BY <1>5 DEF Write, aofvars
  <2>3. Decided(c) /\ result[c].puts # <<>> /\ cmd[c] \in CmdLines /\ Accepted(cmd[c]) /\ pc[c] = "running"
    BY <2>2 DEF Stage, Types
  <2>4. r.puts = Tail(result[c].puts) /\ r.flush = result[c].flush /\ r.logged = result[c].logged
    BY <2>3, ResultExcept DEF Decided
  <2>5. IsResult(r) /\ r.puts \in Seq(PutsOf(cmd[c])) /\ ~r.flush /\ r.logged
    <3>1. IsResult(r)
      BY <2>3, ResultExcept DEF Decided
    <3>2. result[c].puts \in Seq(PutsOf(cmd[c])) /\ result[c].puts # <<>>
      BY <2>3 DEF Decided
    <3>3. Tail(result[c].puts) \in Seq(PutsOf(cmd[c]))
      BY <3>2, HeadTailProperties
    <3>4. ~result[c].flush /\ result[c].logged
      BY <2>3 DEF Decided
    <3> QED BY <2>4, <3>1, <3>3, <3>4
  <2>6. PhaseOf(r) = IF r.puts # <<>> THEN "write" ELSE "log"
    BY <2>5 DEF PhaseOf
  <2>7. p \in PutsOf(cmd[c])
    BY <2>3 DEF Decided
  <2>8. data' \in [Keys -> Entities]
    <3>1. KeySet(cmd[c]) \subseteq Keys
      BY <2>3, LineOK, LineFacts
    <3> QED BY <2>2, <2>7, <3>1 DEF PutsOf, Types
  <2>9. Others /\ phase'[c] = PhaseOf(r) /\ result'[c] = r
    BY <2>2 DEF Types
  <2>10. Types'
    <3>1. poisoned' \in BOOLEAN
      BY <2>2 DEF Types
    <3>2. PhaseOf(r) \in Phases
      BY <2>6 DEF Phases
    <3> HIDE DEF r
    <3> QED BY <2>2, <2>8, <3>1, <3>2 DEF Types
  <2>11. Stage(c)'
    <3> HIDE DEF r
    <3>1. Decided(c)'
      BY <2>2, <2>3, <2>5, <2>9 DEF Decided
    <3> QED BY <2>1, <2>2, <2>3, <2>6, <2>9, <3>1 DEF Stage
  <2> QED BY <1>1, <2>1, <2>9, <2>10, <2>11
<1>6. CASE Flush(c)
  BY <1>6 DEF Flush, Stage
<1>7. CASE AddAof(c)
  <2>1. Locks!LockInv' /\ ~torn' /\ pc' = pc /\ plan' = plan
    BY <1>7, LocksStay DEF AddAof
  <2>2. /\ phase[c] = "log" /\ UNCHANGED <<data, cmd, result, image, poisoned, skewed>>
        /\ Len(aofChan) < aofBufferSize /\ aofChan' = Append(aofChan, cmd[c])
        /\ store' = After(store, cmd[c])
        /\ phase' = [phase EXCEPT ![c] = "done"]
    BY <1>7 DEF AddAof
  <2>3. cmd[c] \in CmdLines /\ pc[c] = "running"
    BY <2>2 DEF Types, Stage
  <2>4. aofChan' \in Seq(CmdLines) /\ Len(aofChan') <= aofBufferSize
    BY <2>2, <2>3, BufferAssumption DEF Types
  <2>5. Types'
    <3>1. poisoned' \in BOOLEAN
      BY <2>2 DEF Types
    <3>2. store' \in [Keys -> Entities]
      BY <2>2, <2>3, AfterFacts DEF Types
    <3> QED BY <2>2, <2>4, <3>1, <3>2 DEF Types, Phases
  <2>6. Others /\ phase'[c] = "done"
    BY <2>2 DEF Types
  <2>7. Stage(c)'
    BY <2>1, <2>2, <2>3, <2>6 DEF Stage, Locks!Locking, Locks!Waiting
  <2> QED BY <1>1, <2>1, <2>5, <2>6, <2>7
<1>8. CASE Unlock(c)
  <2>1. /\ phase[c] = "done"
        /\ Dict!RWUnLocks(c) \/ Dict!UnlockStep(c)
        /\ UNCHANGED <<data, cmd, phase, result, aofChan, image, poisoned, store, skewed>>
    BY <1>8 DEF Unlock, execvars, aofvars
  <2>2. Locks!LockInv' /\ ~torn' /\ LockOthers
    BY <2>1, LockLayerStep
  <2>3. pc'[c] \in {"idle", "unlocking"}
    BY <2>1, LockLayerOwn
  <2>4. Types'
    <3>1. poisoned' \in BOOLEAN
      BY <2>1 DEF Types
    <3> QED BY <2>1, <3>1 DEF Types
  <2>5. Stage(c)'
    BY <2>1, <2>3 DEF Stage, Locks!Locking, Locks!Waiting
  <2> QED BY <1>1, <2>1, <2>2, <2>4, <2>5
<1>9. CASE Respond(c)
  <2>1. Locks!LockInv' /\ ~torn' /\ pc' = pc /\ plan' = plan
    BY <1>9, LocksStay DEF Respond
  <2>2. /\ pc[c] = "idle" /\ UNCHANGED <<data, aofChan, image, poisoned, store, skewed>>
        /\ cmd' = [cmd EXCEPT ![c] = NoCmd]
        /\ phase' = [phase EXCEPT ![c] = "none"]
        /\ result' = [result EXCEPT ![c] = NoResult]
    BY <1>9 DEF Respond, aofvars
  <2>3. Types'
    <3>1. poisoned' \in BOOLEAN
      BY <2>2 DEF Types
    <3> QED BY <2>2, <3>1 DEF Types, Phases
  <2>4. Others /\ phase'[c] = "none" /\ cmd'[c] = NoCmd
    BY <2>2 DEF Types
  <2>5. Stage(c)'
    BY <2>1, <2>2, <2>4 DEF Stage
  <2> QED BY <1>1, <2>1, <2>3, <2>4, <2>5
<1> QED BY <1>2, <1>3, <1>4, <1>5, <1>6, <1>7, <1>8, <1>9 DEF Step

LEMMA StageNext ==
    ASSUME Guarded, StageInv, [Next]_vars
    PROVE  StageInv'
<1>1. CASE UNCHANGED vars
  <2>1. /\ UNCHANGED lockvars
        /\ UNCHANGED <<data, cmd, phase, result, aofChan, image, poisoned, store, skewed>>
    BY <1>1 DEF vars, execvars, aofvars
  <2>2. Locks!LockInv' /\ ~torn' /\ pc' = pc /\ plan' = plan
    BY <2>1, LocksStay DEF StageInv
  <2>3. Types'
    <3>1. poisoned' \in BOOLEAN
      BY <2>1 DEF StageInv, Types
    <3> QED BY <2>1, <3>1 DEF StageInv, Types
  <2>4. ASSUME NEW d \in Clients PROVE Stage(d)'
    BY <2>1, <2>2, StageStays DEF StageInv
  <2> QED BY <2>2, <2>3, <2>4 DEF StageInv
<1>2. CASE Next
  BY <1>2, StageStep, StageReceive, StageHandleAof, StageHandleAofFails, StageRestart DEF Next
<1> QED BY <1>1, <1>2

-----------------------------------------------------------------------------
(* The locks cover what exec does                                          *)

\* The client is at work on the entities of its keys.
Writing(c) == phase[c] \in {"write", "log"}
AtWork(c) == Writing(c) \/ (phase[c] = "exec" /\ pc[c] = "running")

LEMMA KeysHeld ==
    ASSUME StageInv, NEW c \in Clients, AtWork(c), Guarded
    PROVE  /\ cmd[c] \in CmdLines /\ Accepted(cmd[c]) /\ KeySet(cmd[c]) \subseteq Keys
           /\ \A k \in KeySet(cmd[c]) : spread[k] \in Locks!Held(c)
           /\ Writing(c) => \A k \in KeySet(cmd[c]) : spread[k] \in Locks!HeldForWriting(c)
<1>1. /\ cmd[c] \in CmdLines /\ Accepted(cmd[c]) /\ pc[c] = "running"
      /\ plan[c] = Dict!toLockIndices(prepare(cmd[c]))
      /\ Writing(c) => cmd[c].op \notin Reading
  BY LinesAssumption DEF StageInv, Stage, Types, Decided, AtWork, Writing
<1>2. /\ KeySet(cmd[c]) \subseteq Keys
      /\ KeySet(cmd[c]) = prepare(cmd[c]).write \cup prepare(cmd[c]).read
      /\ Writing(c) => KeySet(cmd[c]) \subseteq prepare(cmd[c]).write
  <2>1. cmd[c] \in CmdLineType /\ WellFormed(cmd[c]) /\ cmd[c].op \notin Unguarded
    BY <1>1, LineOK DEF Guarded
  <2> QED BY <1>1, <2>1, LineFacts, PrepareFacts
<1>3. Locks!Held(c) = Locks!All(plan[c])
  BY <1>1 DEF Locks!Held, Locks!Waiting
<1>4. /\ \A k \in prepare(cmd[c]).write : spread[k] \in plan[c].write
      /\ \A k \in prepare(cmd[c]).read : spread[k] \in plan[c].write \cup plan[c].read
  BY <1>1 DEF Dict!toLockIndices
<1>5. \A k \in KeySet(cmd[c]) : spread[k] \in Locks!Held(c)
  BY <1>2, <1>3, <1>4 DEF Locks!All
<1>6. Writing(c) => \A k \in KeySet(cmd[c]) : spread[k] \in Locks!HeldForWriting(c)
  BY <1>2, <1>4, <1>5 DEF Locks!HeldForWriting
<1> QED BY <1>1, <1>2, <1>5, <1>6

\* While a client writes or has yet to log, nobody else is at work on a key
\* in a shard of its keys.
LEMMA KeysApart ==
    ASSUME StageInv, Guarded, NEW c \in Clients, NEW d \in Clients, c # d, Writing(c), AtWork(d)
    PROVE  \A j \in KeySet(cmd[c]), k \in KeySet(cmd[d]) : spread[j] # spread[k]
<1>1. Locks!HeldForWriting(c) \cap Locks!Held(d) = {}
  BY LocksExclude DEF StageInv, Locks!MutualExclusion
<1>2. \A j \in KeySet(cmd[c]) : spread[j] \in Locks!HeldForWriting(c)
  BY KeysHeld DEF AtWork
<1>3. \A k \in KeySet(cmd[d]) : spread[k] \in Locks!Held(d)
  BY KeysHeld
<1> QED BY <1>1, <1>2, <1>3

\* For any number of clients and shards, and any commands but the four, no map
\* of a shard is written while another goroutine reads or writes it, and the
\* AOF channel keeps to its size, across restarts too.
THEOREM NoDataRace ==
    ASSUME Guarded PROVE Spec => []RaceFree
<1>1. StageInv => RaceFree
  <2> SUFFICES ASSUME StageInv PROVE TypeOK /\ NoMapRace
    BY DEF RaceFree
  <2>1. TypeOK
    <3>1. Dict!TypeOK
      BY SameState DEF StageInv, Locks!LockInv
    <3>2. poisoned \in BOOLEAN
      BY DEF StageInv, Types
    <3> QED BY <3>1, <3>2 DEF TypeOK, StageInv, Types
  <2>2. ASSUME NEW c \in Clients, NEW s \in MapWrites(c)
        PROVE  Writing(c) /\ \E k \in KeySet(cmd[c]) : s = spread[k]
    <3>1. phase[c] = "write" /\ s = spread[Head(result[c].puts).key]
      BY <2>2 DEF MapWrites, StageInv, Stage
    <3>2. result[c].puts \in Seq(PutsOf(cmd[c])) /\ result[c].puts # <<>>
      BY <3>1 DEF StageInv, Stage, Decided
    <3>3. Head(result[c].puts) \in PutsOf(cmd[c])
      BY <3>2
    <3> QED BY <3>1, <3>3 DEF Writing, PutsOf
  <2>3. ASSUME NEW d \in Clients, NEW s \in MapReads(d)
        PROVE  AtWork(d) /\ \E k \in KeySet(cmd[d]) : s = spread[k]
    BY <2>3 DEF MapReads, AtWork
  <2>4. NoMapRace
    <3> SUFFICES ASSUME NEW c \in Clients, NEW d \in Clients, c # d,
                        NEW s \in MapWrites(c), s \in MapWrites(d) \cup MapReads(d)
                 PROVE  FALSE
      BY DEF NoMapRace
    <3>1. Writing(c) /\ \E k \in KeySet(cmd[c]) : s = spread[k]
      BY <2>2
    <3>2. AtWork(d) /\ \E k \in KeySet(cmd[d]) : s = spread[k]
      BY <2>2, <2>3 DEF AtWork
    <3> QED BY <3>1, <3>2, KeysApart
  <2> QED BY <2>1, <2>4
<1>2. StageInv /\ [Next]_vars => StageInv'
  BY StageNext
<1> QED BY <1>1, <1>2, StageInit, PTL DEF Spec

-----------------------------------------------------------------------------
(* Replaying a sequence of commands                                        *)

\* The contents after each of the first n commands.
IsTrace(db, lines, n, r) == r = [m \in 0 .. n |-> IF m = 0 THEN db ELSE After(r[m - 1], lines[m])]

LEMMA TraceStep ==
    ASSUME NEW db, NEW lines, NEW n \in Nat, NEW r, IsTrace(db, lines, n, r)
    PROVE  IsTrace(db, lines, n + 1,
               [m \in 0 .. n + 1 |-> IF m = n + 1 THEN After(r[n], lines[n + 1]) ELSE r[m]])
<1> DEFINE q == [m \in 0 .. n + 1 |-> IF m = n + 1 THEN After(r[n], lines[n + 1]) ELSE r[m]]
<1>1. /\ q[n + 1] = After(r[n], lines[n + 1])
      /\ \A m \in 0 .. n : q[m] = r[m]
      /\ q = [m \in 0 .. n + 1 |-> q[m]]
  OBVIOUS
<1>2. \A m \in 0 .. n : r[m] = IF m = 0 THEN db ELSE After(r[m - 1], lines[m])
  BY DEF IsTrace
<1> HIDE DEF q
<1>3. ASSUME NEW m \in 0 .. n + 1 PROVE q[m] = IF m = 0 THEN db ELSE After(q[m - 1], lines[m])
  <2>1. CASE m = n + 1
    <3>1. m # 0 /\ m - 1 = n /\ n \in 0 .. n
      BY <2>1
    <3> QED BY <1>1, <2>1, <3>1
  <2>2. CASE m # n + 1
    <3>1. m \in 0 .. n /\ (m # 0 => m - 1 \in 0 .. n)
      BY <2>2
    <3> QED BY <1>1, <1>2, <3>1
  <2> QED BY <2>1, <2>2
<1>4. IsTrace(db, lines, n + 1, q)
  BY <1>1, <1>3 DEF IsTrace
<1> QED BY <1>4 DEF q

LEMMA TraceExists ==
    ASSUME NEW db, NEW lines, NEW n \in Nat
    PROVE  \E r : IsTrace(db, lines, n, r)
<1> DEFINE Bad == {k \in Nat : ~ \E r : IsTrace(db, lines, k, r)}
<1> SUFFICES ASSUME Bad # {} PROVE FALSE
  OBVIOUS
<1>1. PICK k \in Bad : \A j \in Bad : k <= j
  <2>1. Bad \in SUBSET Nat
    OBVIOUS
  <2> HIDE DEF Bad
  <2> QED BY <2>1, LeastMember
<1>2. k # 0
  <2> DEFINE r == [m \in 0 .. 0 |-> db]
  <2>1. IsTrace(db, lines, 0, r)
    BY DEF IsTrace
  <2> QED BY <1>1, <2>1
<1>3. k - 1 \in Nat /\ ~ (k <= k - 1)
  BY <1>2
<1>4. PICK r : IsTrace(db, lines, k - 1, r)
  BY <1>1, <1>3
<1>5. IsTrace(db, lines, k - 1 + 1,
          [m \in 0 .. k - 1 + 1 |-> IF m = k - 1 + 1 THEN After(r[k - 1], lines[k - 1 + 1]) ELSE r[m]])
  BY <1>3, <1>4, TraceStep
<1>6. k - 1 + 1 = k
  BY <1>1
<1> QED BY <1>1, <1>5, <1>6

\* A trace of n commands and one of more agree on what they share, whatever
\* comes later in the sequences.
LEMMA TraceUnique ==
    ASSUME NEW db, NEW s, NEW t, NEW n \in Nat, NEW m \in Nat, n <= m,
           \A i \in 1 .. n : s[i] = t[i],
           NEW q, NEW r, IsTrace(db, s, n, q), IsTrace(db, t, m, r)
    PROVE  \A k \in 0 .. n : q[k] = r[k]
<1> DEFINE Bad == {k \in 0 .. n : q[k] # r[k]}
<1> SUFFICES ASSUME Bad # {} PROVE FALSE
  OBVIOUS
<1>1. PICK k \in Bad : \A j \in Bad : k <= j
  <2>1. Bad \in SUBSET Nat
    OBVIOUS
  <2> HIDE DEF Bad
  <2> QED BY <2>1, LeastMember
<1>2. k \in 0 .. n /\ k \in 0 .. m /\ k \in Nat /\ q[k] # r[k]
  BY <1>1
<1>3. q[k] = IF k = 0 THEN db ELSE After(q[k - 1], s[k])
  BY <1>2 DEF IsTrace
<1>4. r[k] = IF k = 0 THEN db ELSE After(r[k - 1], t[k])
  BY <1>2 DEF IsTrace
<1>5. k # 0 => k - 1 \in 0 .. n /\ k \in 1 .. n /\ ~ (k <= k - 1)
  BY <1>2
<1>6. k # 0 => q[k - 1] = r[k - 1]
  BY <1>1, <1>5
<1> QED BY <1>2, <1>3, <1>4, <1>5, <1>6

LEMMA ReplayIs ==
    ASSUME NEW db, NEW lines, Len(lines) \in Nat, NEW r, IsTrace(db, lines, Len(lines), r)
    PROVE  Replay(db, lines) = r[Len(lines)]
<1> DEFINE q == CHOOSE f : IsTrace(db, lines, Len(lines), f)
<1>1. IsTrace(db, lines, Len(lines), q)
  OBVIOUS
<1>2. Replay(db, lines) = q[Len(lines)]
  BY DEF Replay, IsTrace
<1> HIDE DEF q
<1>3. \A k \in 0 .. Len(lines) : q[k] = r[k]
  BY <1>1, TraceUnique
<1> QED BY <1>2, <1>3

LEMMA ReplayEmpty ==
    ASSUME NEW db
    PROVE  Replay(db, <<>>) = db
<1> DEFINE r == [m \in 0 .. 0 |-> db]
<1>1. IsTrace(db, <<>>, 0, r) /\ Len(<<>>) = 0
  BY DEF IsTrace
<1>2. Replay(db, <<>>) = r[Len(<<>>)]
  <2> HIDE DEF r
  <2> QED BY <1>1, ReplayIs
<1> QED BY <1>1, <1>2

\* A command at the end of the channel is replayed last.
LEMMA ReplayAppend ==
    ASSUME NEW db, NEW lines \in Seq(CmdLines), NEW line \in CmdLines
    PROVE  Replay(db, Append(lines, line)) = After(Replay(db, lines), line)
<1> DEFINE n == Len(lines)
           s == Append(lines, line)
<1>1. /\ n \in Nat /\ n + 1 \in Nat /\ Len(s) = n + 1 /\ s[n + 1] = line
      /\ \A i \in 1 .. n : s[i] = lines[i]
  OBVIOUS
<1> HIDE DEF s
<1>2. PICK q : IsTrace(db, lines, n, q)
  BY <1>1, TraceExists
<1>3. PICK r : IsTrace(db, s, n + 1, r)
  <2> HIDE DEF n
  <2> QED BY <1>1, TraceExists
<1>4. Replay(db, lines) = q[n]
  BY <1>1, <1>2, ReplayIs
<1>5. Replay(db, s) = r[n + 1]
  BY <1>1, <1>3, ReplayIs
<1>6. \A k \in 0 .. n : q[k] = r[k]
  <2>1. n + 1 \in Nat /\ n <= n + 1
    BY <1>1
  <2>2. \A i \in 1 .. n : lines[i] = s[i]
    BY <1>1
  <2> HIDE DEF n
  <2> QED BY <1>1, <1>2, <1>3, <2>1, <2>2, TraceUnique
<1>7. r[n + 1] = After(r[n], s[n + 1])
  <2>1. n + 1 \in 0 .. n + 1 /\ n + 1 # 0 /\ (n + 1) - 1 = n
    BY <1>1
  <2> QED BY <1>3, <2>1 DEF IsTrace
<1>8. q[n] = r[n]
  BY <1>1, <1>6
<1> QED BY <1>1, <1>4, <1>5, <1>7, <1>8 DEF s

\* A command that moves from the channel to the file is replayed at the same
\* place.
LEMMA ReplayTail ==
    ASSUME NEW db, NEW lines \in Seq(CmdLines), lines # <<>>
    PROVE  Replay(After(db, Head(lines)), Tail(lines)) = Replay(db, lines)
<1> DEFINE n == Len(lines)
           t == Tail(lines)
           eb == After(db, Head(lines))
<1>1. /\ n \in Nat /\ n # 0 /\ n - 1 \in Nat /\ Len(t) = n - 1 /\ Head(lines) = lines[1]
      /\ \A i \in 1 .. n - 1 : t[i] = lines[i + 1]
  BY HeadTailProperties
<1>2. PICK r : IsTrace(db, lines, n, r)
  BY <1>1, TraceExists
<1> HIDE DEF t, n
<1>3. /\ r[0] = db
      /\ \A m \in 1 .. n : r[m] = After(r[m - 1], lines[m])
  <2>1. \A m \in 0 .. n : r[m] = IF m = 0 THEN db ELSE After(r[m - 1], lines[m])
    BY <1>2 DEF IsTrace
  <2>2. 0 \in 0 .. n /\ \A m \in 1 .. n : m \in 0 .. n /\ m # 0
    BY <1>1
  <2> QED BY <2>1, <2>2
<1>4. r[1] = eb
  <2>1. 1 \in 1 .. n /\ 1 - 1 = 0
    BY <1>1
  <2> QED BY <1>1, <1>3, <2>1
<1> DEFINE q == [m \in 0 .. n - 1 |-> r[m + 1]]
<1>5. ASSUME NEW m \in 0 .. n - 1 PROVE q[m] = IF m = 0 THEN eb ELSE After(q[m - 1], t[m])
  <2>1. CASE m = 0
    BY <1>4, <2>1
  <2>2. CASE m # 0
    <3>1. /\ m - 1 \in 0 .. n - 1 /\ m \in 1 .. n - 1 /\ m + 1 \in 1 .. n
          /\ (m + 1) - 1 = m /\ (m - 1) + 1 = m
      BY <1>1, <2>2
    <3>2. q[m - 1] = r[m] /\ q[m] = r[m + 1]
      BY <3>1
    <3>3. r[m + 1] = After(r[m], lines[m + 1])
      BY <1>3, <3>1
    <3> HIDE DEF q, eb
    <3> QED BY <1>1, <2>2, <3>1, <3>2, <3>3
  <2> QED BY <2>1, <2>2
<1>6. q = [m \in 0 .. n - 1 |-> q[m]] /\ q[n - 1] = r[n]
  BY <1>1
<1> HIDE DEF q, eb
<1>7. IsTrace(eb, t, n - 1, q)
  BY <1>5, <1>6 DEF IsTrace
<1>8. Replay(eb, t) = q[n - 1]
  BY <1>1, <1>7, ReplayIs
<1>9. Replay(db, lines) = r[n]
  BY <1>1, <1>2, ReplayIs DEF n
<1> QED BY <1>6, <1>8, <1>9 DEF eb, t

LEMMA ReplayTyped ==
    ASSUME Guarded, NEW db \in [Keys -> Entities], NEW lines \in Seq(CmdLines)
    PROVE  Replay(db, lines) \in [Keys -> Entities]
<1>1. Len(lines) \in Nat
  OBVIOUS
<1>2. PICK r : IsTrace(db, lines, Len(lines), r)
  BY <1>1, TraceExists
<1> DEFINE Bad == {k \in 0 .. Len(lines) : r[k] \notin [Keys -> Entities]}
<1>3. Replay(db, lines) = r[Len(lines)]
  BY <1>1, <1>2, ReplayIs
<1> SUFFICES ASSUME Bad # {} PROVE FALSE
  BY <1>1, <1>3
<1>4. PICK k \in Bad : \A j \in Bad : k <= j
  <2>1. Bad \in SUBSET Nat
    OBVIOUS
  <2> HIDE DEF Bad
  <2> QED BY <2>1, LeastMember
<1>5. k \in 0 .. Len(lines) /\ k \in Nat
  BY <1>4
<1>6. r[k] = IF k = 0 THEN db ELSE After(r[k - 1], lines[k])
  BY <1>2, <1>5 DEF IsTrace
<1>7. k # 0 => k - 1 \in 0 .. Len(lines) /\ lines[k] \in CmdLines /\ ~ (k <= k - 1)
  BY <1>5
<1>8. k # 0 => r[k - 1] \in [Keys -> Entities]
  BY <1>4, <1>7
<1>9. k # 0 => After(r[k - 1], lines[k]) \in [Keys -> Entities]
  BY <1>7, <1>8, AfterFacts
<1> QED BY <1>4, <1>6, <1>9

-----------------------------------------------------------------------------
(* What a command does to a key depends on that key alone                  *)

LEMMA AscendingOnto ==
    ASSUME NEW m \in Nat, NEW S \in SUBSET (1 .. m), NEW x \in S
    PROVE  \E i \in 1 .. Cardinality(S) : Ascending(S)[i] = x
<1> DEFINE n == Cardinality(S)
           f == Ascending(S)
<1>1. IsFiniteSet(S) /\ n \in Nat
  <2>1. IsFiniteSet(1 .. m)
    BY FS_Interval
  <2> QED BY <2>1, FS_Subset, FS_CardinalityType
<1>2. f \in [1 .. n -> S] /\ \A i, j \in 1 .. n : i < j => f[i] < f[j]
  BY AscendingExists DEF Ascending
<1>3. IsFiniteSet(S \ {x}) /\ Cardinality(S \ {x}) = n - 1
  BY <1>1, FS_RemoveElement
<1>4. IsFiniteSet(1 .. n) /\ Cardinality(1 .. n) = n
  <2> HIDE DEF n
  <2>1. IsFiniteSet(1 .. n) /\ Cardinality(1 .. n) = IF 1 > n THEN 0 ELSE n - 1 + 1
    BY <1>1, FS_Interval
  <2> QED BY <1>1, <2>1
<1> HIDE DEF n, f
<1> SUFFICES ASSUME \A i \in 1 .. n : f[i] # x PROVE FALSE
  BY DEF n, f
<1>5. f \in [1 .. n -> S \ {x}]
  BY <1>2
<1>6. Cardinality(S \ {x}) < Cardinality(1 .. n)
  BY <1>1, <1>3, <1>4
<1>7. PICK i \in 1 .. n, j \in 1 .. n : i # j /\ f[i] = f[j]
  <2>1. PICK D, T : D = 1 .. n /\ T = S \ {x}
    OBVIOUS
  <2>2. /\ IsFiniteSet(D) /\ IsFiniteSet(T) /\ Cardinality(T) < Cardinality(D)
        /\ f \in [D -> T]
    BY <1>3, <1>4, <1>5, <1>6, <2>1
  <2>3. \E i, j \in D : i # j /\ f[i] = f[j]
    BY <2>2, FS_PigeonHole
  <2> QED BY <2>1, <2>3
<1>8. i < j \/ j < i
  BY <1>1, <1>7
<1>9. f[i] \in Nat /\ f[j] \in Nat
  <2>1. S \subseteq Nat
    OBVIOUS
  <2> QED BY <1>2, <1>7, <2>1
<1> QED BY <1>2, <1>7, <1>8, <1>9

\* DEL leaves none of the keys it names.
LEMMA DelRemoves ==
    ASSUME NEW db \in [Keys -> Entities], NEW line \in CmdLineType, line.op = "DEL",
           NEW k \in Keys, k \in KeySet(line)
    PROVE  Stored(db, execDel(db, line))[k] = Absent
<1> DEFINE deleted == Removed(db, line)
           n == Cardinality(deleted)
           puts == [i \in 1 .. n |-> Put(line.keys[Ascending(deleted)[i]], Absent)]
           r == execDel(db, line)
<1>1. line.keys \in Seq(Keys) /\ Len(line.keys) \in Nat
  BY DEF CmdLineType
<1>2. deleted \in SUBSET (1 .. Len(line.keys))
  BY DEF Removed
<1>3. n \in Nat /\ Ascending(deleted) \in [1 .. n -> deleted]
  BY <1>1, <1>2, AscendingFacts
<1>4. r = IF deleted = {} THEN Reads(IntReply(0)) ELSE Writes(puts, IntReply(n))
  BY DEF execDel
<1>5. /\ deleted = {} => r.puts = <<>>
      /\ deleted # {} => r.puts = puts
      /\ ~r.flush
  <2>1. /\ Reads(IntReply(0)).puts = <<>> /\ ~Reads(IntReply(0)).flush
        /\ Writes(puts, IntReply(n)).puts = puts /\ ~Writes(puts, IntReply(n)).flush
    BY DEF Reads, Writes
  <2> HIDE DEF puts, n, deleted, r
  <2> QED BY <1>4, <2>1
<1>6. Sound(line, r)
  BY DelSound
<1>7. r.puts \in Seq(PutsOf(line))
  BY <1>6 DEF Sound
<1>8. deleted # {} => Len(puts) = n /\ \A i \in 1 .. n : puts[i] = Put(line.keys[Ascending(deleted)[i]], Absent)
  BY <1>3
<1> HIDE DEF r, puts, n, deleted
<1>9. CASE {i \in 1 .. Len(r.puts) : r.puts[i].key = k} # {}
  <2>1. /\ Stored(db, r)[k] = r.puts[LastAt(r.puts, k)].entity
        /\ LastAt(r.puts, k) \in 1 .. Len(r.puts)
    BY <1>7, <1>9, LastWrite, StoredLast
  <2>2. deleted # {}
    BY <1>5, <1>9
  <2>3. LastAt(r.puts, k) \in 1 .. n
    BY <1>5, <1>8, <2>1, <2>2
  <2>4. r.puts[LastAt(r.puts, k)] = Put(line.keys[Ascending(deleted)[LastAt(r.puts, k)]], Absent)
    BY <1>5, <1>8, <2>2, <2>3
  <2> QED BY <2>1, <2>4 DEF Put, r
<1>10. CASE {i \in 1 .. Len(r.puts) : r.puts[i].key = k} = {}
  <2>1. Stored(db, r)[k] = db[k]
    BY <1>5, <1>10, StoredUntouched
  <2> SUFFICES ASSUME db[k] # Absent PROVE FALSE
    BY <2>1 DEF r
  <2> DEFINE At == {i \in 1 .. Len(line.keys) : line.keys[i] = k}
  <2>2. At \in SUBSET Nat /\ At # {}
    BY <1>1 DEF KeySet
  <2>3. PICK a \in At : \A b \in At : a <= b
    <3> HIDE DEF At
    <3> QED BY <2>2, LeastMember
  <2>4. a \in 1 .. Len(line.keys) /\ line.keys[a] = k /\ \A j \in 1 .. a - 1 : line.keys[j] # k
    BY <1>1, <2>3
  <2>5. a \in deleted
    BY <2>4 DEF deleted, Removed, Exists
  <2>6. PICK i \in 1 .. n : Ascending(deleted)[i] = a
    BY <1>1, <1>2, <2>5, AscendingOnto DEF n
  <2>7. r.puts[i] = Put(k, Absent) /\ i \in 1 .. Len(r.puts)
    BY <1>5, <1>8, <2>4, <2>5, <2>6
  <2>8. r.puts[i].key = k
    BY <2>7 DEF Put
  <2> QED BY <1>10, <2>7, <2>8
<1> QED BY <1>9, <1>10

LEMMA AfterLocal ==
    ASSUME Guarded, NEW db \in [Keys -> Entities], NEW eb \in [Keys -> Entities],
           NEW line \in CmdLines, NEW k \in Keys, db[k] = eb[k]
    PROVE  After(db, line)[k] = After(eb, line)[k]
<1>1. CASE k \notin KeySet(line)
  <2>1. After(db, line)[k] = db[k] /\ After(eb, line)[k] = eb[k]
    BY <1>1, AfterFacts
  <2> QED BY <2>1
<1>2. CASE ~Accepted(line)
  <2>1. execNormalCommand(db, line) = execNormalCommand(eb, line)
    BY <1>2 DEF execNormalCommand
  <2>2. ~execNormalCommand(db, line).flush
    BY <1>2 DEF execNormalCommand, Reads
  <2> QED BY <2>1, <2>2, StoredAgree DEF After
<1>3. CASE Accepted(line) /\ k \in KeySet(line)
  <2>1. line \in CmdLineType /\ WellFormed(line) /\ Sound(line, execNormalCommand(db, line))
    BY <1>3, LineOK, ExecSound
  <2>2. /\ line.op \in Names /\ line.op \notin Unguarded
        /\ line.op \in OfOneKey => KeySet(line) = {Key(line)}
        /\ line.op = "PING" => KeySet(line) = {}
    BY <1>3, <2>1, LineFacts DEF Guarded
  <2>3. /\ execNormalCommand(db, line) = exec(db, line)
        /\ execNormalCommand(eb, line) = exec(eb, line)
    BY <1>3 DEF execNormalCommand, Accepted
  <2>4. CASE line.op \in OfOneKey
    <3>1. execNormalCommand(db, line) = execNormalCommand(eb, line)
      BY <1>3, <2>1, <2>2, <2>4, ExecLocal
    <3>2. ~execNormalCommand(db, line).flush
      BY <2>1, <2>2 DEF Sound, Unguarded
    <3> QED BY <3>1, <3>2, StoredAgree DEF After
  <2>5. CASE line.op = "DEL"
    <3>1. exec(db, line) = execDel(db, line) /\ exec(eb, line) = execDel(eb, line)
      BY <2>5, ExecIs
    <3> QED BY <1>3, <2>1, <2>3, <2>5, <3>1, DelRemoves DEF After
  <2>6. CASE line.op = "EXIST"
    <3>1. exec(db, line) = execExist(db, line) /\ exec(eb, line) = execExist(eb, line)
      BY <2>6, ExecIs
    <3>2. PICK rep, sep : execExist(db, line) = Reads(rep) /\ execExist(eb, line) = Reads(sep)
      BY DEF execExist
    <3>3. \A x : Reads(x).puts = <<>> /\ ~Reads(x).flush
      BY DEF Reads
    <3>4. Stored(db, Reads(rep))[k] = db[k] /\ Stored(eb, Reads(sep))[k] = eb[k]
      BY <3>3, StoredUntouched
    <3> QED BY <2>3, <3>1, <3>2, <3>4 DEF After
  <2> QED BY <1>3, <2>2, <2>4, <2>5, <2>6 DEF Names, Unguarded, OfOneKey
<1> QED BY <1>1, <1>2, <1>3

LEMMA ReplayLocal ==
    ASSUME Guarded, NEW db \in [Keys -> Entities], NEW eb \in [Keys -> Entities],
           NEW lines \in Seq(CmdLines), NEW k \in Keys, db[k] = eb[k]
    PROVE  Replay(db, lines)[k] = Replay(eb, lines)[k]
<1> DEFINE n == Len(lines)
<1>1. n \in Nat
  OBVIOUS
<1>2. PICK r : IsTrace(db, lines, n, r)
  BY <1>1, TraceExists
<1>3. PICK q : IsTrace(eb, lines, n, q)
  BY <1>1, TraceExists
<1>4. Replay(db, lines) = r[n] /\ Replay(eb, lines) = q[n]
  BY <1>1, <1>2, <1>3, ReplayIs
<1> DEFINE Bad == {m \in 0 .. n : ~ (/\ r[m] \in [Keys -> Entities] /\ q[m] \in [Keys -> Entities]
                                      /\ r[m][k] = q[m][k])}
<1> SUFFICES ASSUME Bad # {} PROVE FALSE
  BY <1>1, <1>4
<1>5. PICK m \in Bad : \A j \in Bad : m <= j
  <2>1. Bad \in SUBSET Nat
    OBVIOUS
  <2> HIDE DEF Bad
  <2> QED BY <2>1, LeastMember
<1>6. m \in 0 .. n /\ m \in Nat
  BY <1>5
<1>7. /\ r[m] = IF m = 0 THEN db ELSE After(r[m - 1], lines[m])
      /\ q[m] = IF m = 0 THEN eb ELSE After(q[m - 1], lines[m])
  BY <1>2, <1>3, <1>6 DEF IsTrace
<1>8. m # 0 => m - 1 \in 0 .. n /\ lines[m] \in CmdLines /\ ~ (m <= m - 1)
  BY <1>6
<1>9. m # 0 => /\ r[m - 1] \in [Keys -> Entities] /\ q[m - 1] \in [Keys -> Entities]
               /\ r[m - 1][k] = q[m - 1][k]
  BY <1>5, <1>8
<1>10. m # 0 => /\ After(r[m - 1], lines[m]) \in [Keys -> Entities]
                /\ After(q[m - 1], lines[m]) \in [Keys -> Entities]
                /\ After(r[m - 1], lines[m])[k] = After(q[m - 1], lines[m])[k]
  <2> SUFFICES ASSUME m # 0 PROVE /\ After(r[m - 1], lines[m]) \in [Keys -> Entities]
                                  /\ After(q[m - 1], lines[m]) \in [Keys -> Entities]
                                  /\ After(r[m - 1], lines[m])[k] = After(q[m - 1], lines[m])[k]
    OBVIOUS
  <2>1. PICK u \in [Keys -> Entities], v \in [Keys -> Entities], line \in CmdLines :
          u = r[m - 1] /\ v = q[m - 1] /\ line = lines[m] /\ u[k] = v[k]
    BY <1>8, <1>9
  <2>2. After(u, line) \in [Keys -> Entities] /\ After(v, line) \in [Keys -> Entities]
    BY AfterFacts
  <2>3. After(u, line)[k] = After(v, line)[k]
    BY <2>1, AfterLocal
  <2> QED BY <2>1, <2>2, <2>3
<1> QED BY <1>5, <1>7, <1>10

-----------------------------------------------------------------------------
(* The log keeps up with the memory                                        *)

\* A command that is half way gives in the end what it would give if it were
\* executed, as a whole, after everything that is logged before it.
Serial(c) ==
    LET r == execNormalCommand(store, cmd[c]) IN
    /\ r.logged /\ r.reply = result[c].reply
    /\ \A k \in KeySet(cmd[c]) : Stored(data, result[c])[k] = Stored(store, r)[k]

\* Memory agrees with what the logged commands leave one after the other.
SettledAgree ==
    \A k \in Keys :
        (\A c \in Clients : Writing(c) => k \notin KeySet(cmd[c])) => store[k] = data[k]

LogInv == StageInv /\ SettledAgree /\ \A c \in Clients : Writing(c) => Serial(c)

\* The memory and the log agree on the keys of a command that starts to
\* execute: it has their locks, so nobody is half way through writing them.
LEMMA ExecSettled ==
    ASSUME Guarded, LogInv, NEW c \in Clients, phase[c] = "exec", pc[c] = "running"
    PROVE  \A k \in KeySet(cmd[c]) : store[k] = data[k]
<1>1. AtWork(c) /\ ~Writing(c) /\ StageInv
  BY DEF AtWork, Writing, LogInv
<1>2. KeySet(cmd[c]) \subseteq Keys
  BY <1>1, KeysHeld
<1>3. ASSUME NEW k \in KeySet(cmd[c]), NEW d \in Clients, Writing(d) PROVE k \notin KeySet(cmd[d])
  <2>1. d # c
    BY <1>1, <1>3
  <2> QED BY <1>1, <1>3, <2>1, KeysApart
<1> QED BY <1>2, <1>3 DEF LogInv, SettledAgree

\* A step that neither writes nor logs.
LEMMA LogFrame ==
    ASSUME Guarded, LogInv, StageInv', store' = store, data' = data,
           \A c \in Clients : Writing(c)' <=> Writing(c),
           \A c \in Clients : Writing(c) => cmd'[c] = cmd[c] /\ result'[c] = result[c]
    PROVE  LogInv'
<1>1. SettledAgree
  BY DEF LogInv
<1>2. ASSUME NEW k \in Keys, \A c \in Clients : Writing(c)' => k \notin KeySet(cmd'[c])
      PROVE  store'[k] = data'[k]
  BY <1>1, <1>2 DEF SettledAgree
<1>4. SettledAgree'
  BY <1>2 DEF SettledAgree
<1>5. ASSUME NEW c \in Clients, Writing(c)' PROVE Serial(c)'
  <2>1. Serial(c) /\ cmd'[c] = cmd[c] /\ result'[c] = result[c]
    BY <1>5 DEF LogInv
  <2> QED BY <2>1 DEF Serial
<1> QED BY <1>4, <1>5 DEF LogInv

LEMMA LogInit == Guarded /\ Init => LogInv
<1> SUFFICES ASSUME Guarded, Init PROVE LogInv
  OBVIOUS
<1>1. store = data
  BY DEF Init
<1>2. \A c \in Clients : ~Writing(c)
  BY DEF Init, Writing
<1> QED BY <1>1, <1>2, StageInit DEF LogInv, SettledAgree

LEMMA LogRestart ==
    ASSUME Guarded, LogInv, Restart
    PROVE  LogInv'
<1>1. StageInv'
  BY StageRestart DEF LogInv
<1>2. store' = data'
  BY DEF Restart
<1>3. \A c \in Clients : ~Writing(c)'
  BY DEF Restart, Writing
<1> QED BY <1>1, <1>2, <1>3 DEF LogInv, SettledAgree

LEMMA LogHandleAof ==
    ASSUME Guarded, LogInv, HandleAof \/ HandleAofFails
    PROVE  LogInv'
<1>1. StageInv'
  BY StageHandleAof, StageHandleAofFails DEF LogInv
<1>2. UNCHANGED <<data, cmd, phase, result, store>>
  BY DEF HandleAof, HandleAofFails, execvars
<1> QED BY <1>1, <1>2, LogFrame DEF Writing

LEMMA LogReceive ==
    ASSUME Guarded, LogInv, ~fault, NEW c \in Clients, NEW line \in CmdLines, Receive(c, line)
    PROVE  LogInv'
<1>1. StageInv'
  BY StageReceive DEF LogInv
<1>2. UNCHANGED <<data, store>>
  BY DEF Receive, aofvars
<1>3. store' = store
  BY <1>2
<1>4. /\ phase \in [Clients -> Phases] /\ cmd \in [Clients -> CmdLines \cup {NoCmd}]
      /\ phase[c] = "none"
  BY DEF LogInv, StageInv, Stage, Types, Receive
<1>5. /\ cmd' = [cmd EXCEPT ![c] = line] /\ result' = result
      /\ \E p \in {"exec", "refuse"} : phase' = [phase EXCEPT ![c] = p]
  BY DEF Receive
<1>6. ASSUME NEW d \in Clients
      PROVE  /\ Writing(d)' <=> Writing(d)
             /\ Writing(d) => cmd'[d] = cmd[d] /\ result'[d] = result[d]
  BY <1>4, <1>5 DEF Writing
<1> QED BY <1>1, <1>2, <1>3, <1>6, LogFrame

\* The steps of a client that neither write nor log.
LEMMA LogQuiet ==
    ASSUME Guarded, LogInv, ~fault, NEW c \in Clients,
           Refuse(c) \/ Lock(c) \/ Unlock(c) \/ Respond(c)
    PROVE  LogInv'
<1>1. StageInv'
  BY StageStep DEF LogInv, Step
<1>2. UNCHANGED <<data, store>>
  BY DEF Refuse, Lock, Unlock, Respond, aofvars
<1>3. store' = store
  BY <1>2
<1>4. phase \in [Clients -> Phases] /\ cmd \in [Clients -> CmdLines \cup {NoCmd}]
  BY DEF LogInv, StageInv, Types
<1>5. result = [d \in Clients |-> result[d]]
  BY DEF LogInv, StageInv, Types
<1>6. CASE Lock(c)
  <2>1. UNCHANGED <<cmd, phase, result>>
    BY <1>6 DEF Lock, execvars
  <2> QED BY <1>1, <1>2, <1>3, <2>1, LogFrame DEF Writing
<1>7. CASE ~Lock(c)
  <2>1. phase[c] \in {"refuse", "done"} /\ phase'[c] \in {"done", "none"}
    BY <1>4, <1>7 DEF Refuse, Unlock, Respond, execvars
  <2>2. ASSUME NEW d \in Clients, d # c
        PROVE  phase'[d] = phase[d] /\ cmd'[d] = cmd[d] /\ result'[d] = result[d]
    <3>1. CASE Refuse(c)
      BY <1>4, <1>5, <2>2, <3>1 DEF Refuse
    <3>2. CASE Unlock(c)
      BY <3>2 DEF Unlock, execvars
    <3>3. CASE Respond(c)
      BY <1>4, <1>5, <2>2, <3>3 DEF Respond
    <3> QED BY <1>7, <3>1, <3>2, <3>3
  <2>3. ASSUME NEW d \in Clients
        PROVE  /\ Writing(d)' <=> Writing(d)
               /\ Writing(d) => cmd'[d] = cmd[d] /\ result'[d] = result[d]
    BY <2>1, <2>2 DEF Writing
  <2> QED BY <1>1, <1>2, <1>3, <2>3, LogFrame
<1> QED BY <1>6, <1>7

\* exec decides on the contents it finds under its locks, which are those the
\* log would give it.
LEMMA LogExec ==
    ASSUME Guarded, LogInv, ~fault, NEW c \in Clients, Exec(c)
    PROVE  /\ LogInv'
           /\ result'[c] = execNormalCommand(store, cmd[c])
<1>1. StageInv' /\ StageInv
  BY StageStep DEF LogInv, Step
<1>2. /\ pc[c] = "running" /\ phase[c] = "exec"
      /\ UNCHANGED <<data, cmd, store>>
      /\ result' = [result EXCEPT ![c] = execNormalCommand(data, cmd[c])]
      /\ phase' = [phase EXCEPT ![c] = PhaseOf(result'[c])]
  BY DEF Exec, aofvars
<1>3. store' = store
  BY <1>2
<1>4. /\ phase \in [Clients -> Phases] /\ result = [d \in Clients |-> result[d]]
      /\ data \in [Keys -> Entities] /\ cmd[c] \in CmdLines /\ Accepted(cmd[c])
  BY <1>1, <1>2 DEF StageInv, Stage, Types
<1>5. result'[c] = execNormalCommand(data, cmd[c]) /\ phase'[c] = PhaseOf(result'[c])
  BY <1>2, <1>4
<1>6. \A k \in KeySet(cmd[c]) : store[k] = data[k]
  BY <1>2, ExecSettled
<1>7. cmd[c] \in CmdLineType /\ WellFormed(cmd[c]) /\ KeySet(cmd[c]) \subseteq Keys
  <2>1. cmd[c] \in CmdLineType /\ WellFormed(cmd[c])
    BY <1>4, LineOK
  <2> QED BY <1>4, <2>1, LineFacts
<1>8. execNormalCommand(store, cmd[c]) = execNormalCommand(data, cmd[c])
  BY <1>4, <1>6, <1>7, ExecLocal
<1>9. ASSUME NEW d \in Clients, d # c
      PROVE  phase'[d] = phase[d] /\ cmd'[d] = cmd[d] /\ result'[d] = result[d]
  BY <1>2, <1>4, <1>9
<1>10. Writing(c)' => Serial(c)'
  <2> SUFFICES ASSUME Writing(c)' PROVE Serial(c)'
    OBVIOUS
  <2> DEFINE r == execNormalCommand(data, cmd[c])
  <2>1. r.logged /\ r.puts \in Seq(PutsOf(cmd[c])) /\ ~r.flush
    <3>1. PhaseOf(r) \in {"write", "log"}
      BY <1>5 DEF Writing
    <3> QED BY <1>4, <3>1, ExecDecides
  <2>2. result'[c] = r /\ execNormalCommand(store', cmd'[c]) = r /\ data' = data /\ cmd' = cmd
    BY <1>2, <1>3, <1>5, <1>8
  <2> HIDE DEF r
  <2>3. ASSUME NEW k \in KeySet(cmd[c]) PROVE Stored(data, r)[k] = Stored(store, r)[k]
    <3>1. k \in Keys /\ data[k] = store[k]
      BY <1>6, <1>7
    <3> QED BY <2>1, <3>1, StoredAgree
  <2> QED BY <1>3, <2>1, <2>2, <2>3 DEF Serial
<1>11. ASSUME NEW d \in Clients, Writing(d)' PROVE Serial(d)'
  <2>1. CASE d = c
    BY <1>10, <1>11, <2>1
  <2>2. CASE d # c
    <3>1. phase'[d] = phase[d] /\ cmd'[d] = cmd[d] /\ result'[d] = result[d]
      BY <1>9, <2>2
    <3>2. Writing(d) /\ Serial(d)
      BY <1>11, <3>1 DEF Writing, LogInv
    <3> QED BY <1>2, <1>3, <3>1, <3>2 DEF Serial
  <2> QED BY <2>1, <2>2
<1>12. SettledAgree
  BY DEF LogInv
<1>13. ASSUME NEW k \in Keys, \A d \in Clients : Writing(d)' => k \notin KeySet(cmd'[d])
       PROVE  store'[k] = data'[k]
  <2>1. ASSUME NEW d \in Clients, Writing(d) PROVE Writing(d)' /\ cmd'[d] = cmd[d]
    <3>1. d # c
      BY <1>2, <2>1 DEF Writing
    <3> QED BY <1>9, <2>1, <3>1 DEF Writing
  <2> QED BY <1>2, <1>3, <1>12, <1>13, <2>1 DEF SettledAgree
<1>15. SettledAgree'
  BY <1>13 DEF SettledAgree
<1> QED BY <1>1, <1>5, <1>8, <1>11, <1>15 DEF LogInv

\* One write of several: it is to a key of the command, which stays unsettled,
\* and the writes still to come complete it.
LEMMA LogWrite ==
    ASSUME Guarded, LogInv, ~fault, NEW c \in Clients, Write(c)
    PROVE  LogInv'
<1> DEFINE p == Head(result[c].puts)
           r == [result[c] EXCEPT !.puts = Tail(@)]
<1>1. StageInv' /\ StageInv
  BY StageStep DEF LogInv, Step
<1>2. /\ phase[c] = "write" /\ UNCHANGED <<cmd, store>>
      /\ data' = [data EXCEPT ![p.key] = p.entity]
      /\ result' = [result EXCEPT ![c] = r]
      /\ phase' = [phase EXCEPT ![c] = PhaseOf(r)]
  BY DEF Write, aofvars
<1>3. store' = store
  BY <1>2
<1>4. /\ phase \in [Clients -> Phases] /\ result = [d \in Clients |-> result[d]]
      /\ data \in [Keys -> Entities] /\ Decided(c) /\ result[c].puts # <<>>
  BY <1>1, <1>2 DEF StageInv, Stage, Types
<1>5. Writing(c) /\ AtWork(c) /\ KeySet(cmd[c]) \subseteq Keys
  BY <1>1, <1>2, KeysHeld DEF Writing, AtWork
<1>6. /\ result[c].puts \in Seq(PutsOf(cmd[c])) /\ ~result[c].flush /\ result[c].logged
      /\ IsResult(result[c])
  BY <1>4 DEF Decided
<1>7. r.puts = Tail(result[c].puts) /\ ~r.flush /\ r.logged /\ r.reply = result[c].reply
  BY <1>6, ResultExcept
<1>8. p.key \in KeySet(cmd[c])
  <2>1. p \in PutsOf(cmd[c])
    BY <1>4, <1>6
  <2> QED BY <2>1 DEF PutsOf
<1>9. \A k \in Keys : Stored(data', r)[k] = Stored(data, result[c])[k]
  <2> DEFINE old == result[c]
             line == cmd[c]
  <2>1. /\ data \in [Keys -> Entities] /\ KeySet(line) \subseteq Keys
        /\ old.puts \in Seq(PutsOf(line)) /\ old.puts # <<>> /\ ~old.flush
        /\ r.puts = Tail(old.puts) /\ ~r.flush
    BY <1>4, <1>5, <1>6, <1>7
  <2>2. data' = [data EXCEPT ![Head(old.puts).key] = Head(old.puts).entity]
    BY <1>2
  <2> HIDE DEF old, line, r
  <2>3. \A k \in Keys : Stored([data EXCEPT ![Head(old.puts).key] = Head(old.puts).entity], r)[k]
                          = Stored(data, old)[k]
    BY <2>1, StoredStep
  <2> QED BY <2>2, <2>3 DEF old
<1>10. \A k \in Keys : k # p.key => data'[k] = data[k]
  BY <1>2, <1>4
<1> HIDE DEF p
<1>11. PhaseOf(r) \in {"write", "log"}
  BY <1>7 DEF PhaseOf
<1> HIDE DEF r
<1>12. result'[c] = r /\ phase'[c] = PhaseOf(r)
  BY <1>2, <1>4
<1>13. ASSUME NEW d \in Clients, d # c
       PROVE  phase'[d] = phase[d] /\ result'[d] = result[d]
  BY <1>2, <1>4, <1>13
<1>14. ASSUME NEW d \in Clients PROVE (Writing(d)' <=> Writing(d)) /\ cmd'[d] = cmd[d]
  BY <1>2, <1>11, <1>12, <1>13 DEF Writing
<1>15. Serial(c)'
  <2> DEFINE V == store
             q == execNormalCommand(V, cmd[c])
  <2>1. /\ q.logged /\ q.reply = result[c].reply
        /\ \A k \in KeySet(cmd[c]) : Stored(data, result[c])[k] = Stored(V, q)[k]
    BY <1>5 DEF LogInv, Serial
  <2>2. execNormalCommand(store', cmd'[c]) = q /\ store' = V /\ cmd'[c] = cmd[c]
    BY <1>2, <1>3
  <2> HIDE DEF V, q
  <2>3. \A k \in KeySet(cmd[c]) : Stored(data', result'[c])[k] = Stored(V, q)[k]
    BY <1>5, <1>9, <1>12, <2>1
  <2> QED BY <1>7, <1>12, <2>1, <2>2, <2>3 DEF Serial
<1>16. ASSUME NEW d \in Clients, Writing(d)' PROVE Serial(d)'
  <2>1. CASE d = c
    BY <1>15, <2>1
  <2>2. CASE d # c
    <3>1. /\ Writing(d) /\ Serial(d) /\ AtWork(d) /\ cmd'[d] = cmd[d] /\ result'[d] = result[d]
      BY <1>13, <1>14, <1>16, <2>2 DEF LogInv, AtWork
    <3>2. /\ result[d].puts \in Seq(PutsOf(cmd[d])) /\ ~result[d].flush
          /\ KeySet(cmd[d]) \subseteq Keys
      <4>1. Decided(d)
        BY <1>1, <3>1 DEF StageInv, Stage, Writing
      <4> QED BY <1>1, <3>1, <4>1, KeysHeld DEF Decided
    <3>3. ASSUME NEW k \in KeySet(cmd[d]) PROVE data'[k] = data[k]
      <4>1. p.key # k
        BY <1>1, <1>5, <1>8, <2>2, <3>1, KeysApart
      <4> QED BY <1>10, <3>2, <4>1
    <3>4. ASSUME NEW k \in KeySet(cmd[d])
          PROVE  Stored(data', result[d])[k] = Stored(data, result[d])[k]
      <4>1. k \in Keys /\ data'[k] = data[k]
        BY <3>2, <3>3
      <4> QED BY <3>2, <4>1, StoredAgree
    <3> QED BY <1>3, <3>1, <3>4 DEF Serial
  <2> QED BY <2>1, <2>2
<1>17. SettledAgree
  BY DEF LogInv
<1>18. ASSUME NEW k \in Keys, \A d \in Clients : Writing(d)' => k \notin KeySet(cmd'[d])
       PROVE  store'[k] = data'[k]
  <2>1. \A d \in Clients : Writing(d) => k \notin KeySet(cmd[d])
    BY <1>14, <1>18
  <2>2. k # p.key
    BY <1>5, <1>8, <2>1
  <2> QED BY <1>3, <1>10, <1>17, <2>1, <2>2 DEF SettledAgree
<1>20. SettledAgree'
  BY <1>18 DEF SettledAgree
<1> QED BY <1>1, <1>16, <1>20 DEF LogInv

\* The command enters the channel when its last write is made.
LEMMA LogAddAof ==
    ASSUME Guarded, LogInv, ~fault, NEW c \in Clients, AddAof(c)
    PROVE  LogInv'
<1> DEFINE V == store
           r == execNormalCommand(V, cmd[c])
<1>1. StageInv' /\ StageInv
  BY StageStep DEF LogInv, Step
<1>2. /\ phase[c] = "log" /\ UNCHANGED <<data, cmd, result>>
      /\ store' = After(store, cmd[c])
      /\ phase' = [phase EXCEPT ![c] = "done"]
  BY DEF AddAof
<1>3. /\ phase \in [Clients -> Phases] /\ data \in [Keys -> Entities] /\ aofChan \in Seq(CmdLines)
      /\ Decided(c) /\ result[c].puts = <<>> /\ cmd[c] \in CmdLines
  BY <1>1, <1>2 DEF StageInv, Stage, Types
<1>4. Writing(c) /\ AtWork(c) /\ KeySet(cmd[c]) \subseteq Keys
  BY <1>1, <1>2, KeysHeld DEF Writing, AtWork
<1>5. V \in [Keys -> Entities]
  BY <1>1 DEF StageInv, Types
<1>6. store' = After(V, cmd[c])
  BY <1>2
<1>7. /\ \A k \in Keys \ KeySet(cmd[c]) : store'[k] = V[k]
      /\ store' = Stored(V, r)
  <2>1. \A k \in Keys \ KeySet(cmd[c]) : After(V, cmd[c])[k] = V[k]
    BY <1>3, <1>5, AfterFacts
  <2> QED BY <1>6, <2>1 DEF After
<1>8. ASSUME NEW k \in KeySet(cmd[c]) PROVE store'[k] = data[k]
  <2>1. Stored(data, result[c])[k] = Stored(V, r)[k]
    BY <1>4 DEF LogInv, Serial
  <2>2. result[c].puts \in Seq(PutsOf(cmd[c])) /\ ~result[c].flush
    BY <1>3 DEF Decided
  <2>3. Stored(data, result[c]) = data
    BY <1>3, <2>2, StoredFacts
  <2> QED BY <1>7, <2>1, <2>3
<1> HIDE DEF r
<1>9. ASSUME NEW d \in Clients
      PROVE  (Writing(d)' <=> Writing(d) /\ d # c) /\ cmd'[d] = cmd[d] /\ result'[d] = result[d]
  BY <1>2, <1>3 DEF Writing
<1>10. ASSUME NEW d \in Clients, Writing(d)' PROVE Serial(d)'
  <2>1. Writing(d) /\ d # c /\ Serial(d) /\ AtWork(d) /\ cmd'[d] = cmd[d] /\ result'[d] = result[d]
    BY <1>9, <1>10 DEF LogInv, AtWork
  <2>2. /\ cmd[d] \in CmdLines /\ Accepted(cmd[d]) /\ KeySet(cmd[d]) \subseteq Keys
        /\ cmd[d] \in CmdLineType /\ WellFormed(cmd[d])
    BY <1>1, <2>1, KeysHeld, LineOK
  <2>3. ASSUME NEW k \in KeySet(cmd[d]) PROVE store'[k] = V[k]
    <3>1. k \notin KeySet(cmd[c])
      BY <1>1, <1>4, <2>1, KeysApart
    <3> QED BY <1>7, <2>2, <3>1
  <2> DEFINE q == execNormalCommand(V, cmd[d])
  <2>4. execNormalCommand(store', cmd[d]) = q
    BY <2>2, <2>3, ExecLocal
  <2>5. q.puts \in Seq(PutsOf(cmd[d])) /\ ~q.flush
    <3>1. Sound(cmd[d], q) /\ cmd[d].op # "FLUSHDB"
      BY <1>5, <2>2, ExecSound DEF Guarded, Unguarded
    <3> QED BY <3>1 DEF Sound
  <2>6. /\ q.logged /\ q.reply = result[d].reply
        /\ \A k \in KeySet(cmd[d]) : Stored(data, result[d])[k] = Stored(V, q)[k]
    BY <2>1 DEF Serial
  <2> HIDE DEF q
  <2>7. \A k \in KeySet(cmd[d]) : Stored(store', q)[k] = Stored(V, q)[k]
    BY <2>2, <2>3, <2>5, StoredAgree
  <2>8. \A k \in KeySet(cmd[d]) : Stored(data', result'[d])[k] = Stored(store', q)[k]
    BY <1>2, <2>1, <2>6, <2>7
  <2> QED BY <2>1, <2>4, <2>6, <2>8 DEF Serial
<1>11. SettledAgree
  BY DEF LogInv
<1>12. ASSUME NEW k \in Keys, \A d \in Clients : Writing(d)' => k \notin KeySet(cmd'[d])
       PROVE  store'[k] = data'[k]
  <2>1. CASE k \in KeySet(cmd[c])
    BY <1>2, <1>8, <2>1
  <2>2. CASE k \notin KeySet(cmd[c])
    <3>1. \A d \in Clients : Writing(d) => k \notin KeySet(cmd[d])
      BY <1>9, <1>12, <2>2
    <3> QED BY <1>2, <1>7, <1>11, <2>2, <3>1 DEF SettledAgree
  <2> QED BY <2>1, <2>2
<1>14. SettledAgree'
  BY <1>12 DEF SettledAgree
<1> QED BY <1>1, <1>10, <1>14 DEF LogInv

LEMMA LogStep ==
    ASSUME Guarded, LogInv, ~fault, NEW c \in Clients, Step(c)
    PROVE  LogInv'
<1>1. ~Flush(c)
  BY DEF Flush, LogInv, StageInv, Stage
<1> QED BY <1>1, LogQuiet, LogExec, LogWrite, LogAddAof DEF Step

LEMMA LogNext ==
    ASSUME Guarded, LogInv, [Next]_vars
    PROVE  LogInv'
<1>1. CASE UNCHANGED vars
  <2>1. StageInv'
    BY <1>1, StageNext DEF LogInv
  <2>2. UNCHANGED <<data, cmd, phase, result, store>>
    BY <1>1 DEF vars, execvars, aofvars
  <2>3. store' = store
    BY <2>2
  <2> QED BY <2>1, <2>2, <2>3, LogFrame DEF Writing
<1>2. CASE Next
  BY <1>2, LogStep, LogReceive, LogHandleAof, LogRestart DEF Next
<1> QED BY <1>1, <1>2

-----------------------------------------------------------------------------
(* The file keeps up with what is logged, but for the writes that fail     *)

\* What a restart would leave if the channel were written out first.
Recovered == Replay(image, aofChan)

FileAgree == \A k \in Keys \ skewed : Recovered[k] = store[k]

LEMMA RecoveredTyped ==
    ASSUME Guarded, StageInv
    PROVE  Recovered \in [Keys -> Entities]
  BY ReplayTyped DEF Recovered, StageInv, Types

LEMMA FileStays ==
    ASSUME FileAgree, UNCHANGED <<image, aofChan, store, skewed>>
    PROVE  FileAgree'
  BY DEF FileAgree, Recovered

\* A command written to the file moves from the channel to the file.
LEMMA FileHandleAof ==
    ASSUME Guarded, StageInv, FileAgree, HandleAof
    PROVE  FileAgree'
<1>1. /\ aofChan \in Seq(CmdLines) /\ aofChan # <<>> /\ aofChan' = Tail(aofChan)
      /\ image' = After(image, Head(aofChan)) /\ UNCHANGED <<store, skewed>>
  BY DEF HandleAof, StageInv, Types
<1>2. Recovered' = Replay(image', aofChan')
  BY DEF Recovered
<1>3. Recovered' = Recovered
  BY <1>1, <1>2, ReplayTail DEF Recovered
<1> QED BY <1>1, <1>3 DEF FileAgree

\* A command that is not written is missing for its own keys and for no other.
LEMMA FileHandleAofFails ==
    ASSUME Guarded, StageInv, FileAgree, HandleAofFails
    PROVE  FileAgree'
<1> DEFINE line == Head(aofChan)
           eb == After(image, line)
           rest == Tail(aofChan)
<1>1. /\ aofChan \in Seq(CmdLines) /\ aofChan # <<>> /\ aofChan' = Tail(aofChan)
      /\ image \in [Keys -> Entities] /\ UNCHANGED <<image, store>>
      /\ skewed' = skewed \cup Touched(line)
  BY DEF HandleAofFails, StageInv, Types
<1>2. line \in CmdLines /\ rest \in Seq(CmdLines)
  BY <1>1
<1>3. Recovered = Replay(eb, rest)
  BY <1>1, ReplayTail DEF Recovered
<1>4. Recovered' = Replay(image', aofChan')
  BY DEF Recovered
<1>5. Recovered' = Replay(image, rest)
  BY <1>1, <1>4
<1>6. eb \in [Keys -> Entities] /\ \A k \in Keys \ KeySet(line) : eb[k] = image[k]
  BY <1>1, <1>2, AfterFacts
<1>7. KeySet(line) \subseteq Touched(line)
  BY <1>2, LineKeys DEF Touched
<1> HIDE DEF line, eb, rest
<1>8. ASSUME NEW k \in Keys \ skewed' PROVE Recovered'[k] = store'[k]
  <2>1. k \in Keys \ skewed /\ k \in Keys \ KeySet(line)
    BY <1>1, <1>7
  <2>2. eb[k] = image[k]
    BY <1>6, <2>1
  <2>3. Replay(eb, rest)[k] = Replay(image, rest)[k]
    BY <1>1, <1>2, <1>6, <2>1, <2>2, ReplayLocal
  <2>4. Recovered[k] = store[k]
    BY <2>1 DEF FileAgree
  <2> QED BY <1>1, <1>3, <1>5, <2>3, <2>4
<1> QED BY <1>8 DEF FileAgree

\* A command that enters the channel does the same to what is logged before it
\* and to what the file and the channel would restore.
LEMMA FileAddAof ==
    ASSUME Guarded, StageInv, FileAgree, NEW c \in Clients, AddAof(c)
    PROVE  FileAgree'
<1>1. /\ phase[c] = "log" /\ UNCHANGED <<image, skewed>> /\ aofChan' = Append(aofChan, cmd[c])
      /\ store' = After(store, cmd[c])
  BY DEF AddAof
<1>2. /\ cmd[c] \in CmdLines /\ aofChan \in Seq(CmdLines) /\ store \in [Keys -> Entities]
  BY <1>1 DEF StageInv, Stage, Types
<1>3. Recovered' = Replay(image', aofChan')
  BY DEF Recovered
<1>4. Recovered' = After(Recovered, cmd[c])
  BY <1>1, <1>2, <1>3, ReplayAppend DEF Recovered
<1>5. Recovered \in [Keys -> Entities]
  BY RecoveredTyped
<1>6. ASSUME NEW k \in Keys \ skewed' PROVE Recovered'[k] = store'[k]
  <2>1. k \in Keys /\ Recovered[k] = store[k]
    BY <1>1 DEF FileAgree
  <2>2. After(Recovered, cmd[c])[k] = After(store, cmd[c])[k]
    BY <1>2, <1>5, <2>1, AfterLocal
  <2> QED BY <1>1, <1>4, <2>2
<1> QED BY <1>6 DEF FileAgree

LEMMA FileNext ==
    ASSUME Guarded, StageInv, FileAgree, [Next]_vars
    PROVE  FileAgree'
<1>1. CASE UNCHANGED vars
  BY <1>1, FileStays DEF vars, aofvars
<1>2. ASSUME NEW c \in Clients, Step(c) PROVE FileAgree'
  <2>1. CASE AddAof(c)
    BY <2>1, FileAddAof
  <2>2. CASE ~AddAof(c)
    <3>1. UNCHANGED <<image, aofChan, store, skewed>>
      BY <1>2, <2>2 DEF Step, Refuse, Lock, Exec, Write, Flush, Unlock, Respond, aofvars
    <3> QED BY <3>1, FileStays
  <2> QED BY <2>1, <2>2
<1>3. ASSUME NEW c \in Clients, NEW line \in CmdLines, Receive(c, line) PROVE FileAgree'
  BY <1>3, FileStays DEF Receive, aofvars
<1>4. CASE Restart
  <2>1. aofChan' = <<>> /\ image' = image /\ store' = image
    BY <1>4 DEF Restart
  <2>2. Recovered' = Replay(image', aofChan')
    BY DEF Recovered
  <2>3. Recovered' = store'
    BY <2>1, <2>2, ReplayEmpty
  <2> QED BY <2>3 DEF FileAgree
<1> QED BY <1>1, <1>2, <1>3, <1>4, FileHandleAof, FileHandleAofFails DEF Next

\* What Unsettled comes to when FLUSHDB is not sent.
LEMMA SettledIs ==
    ASSUME Guarded, StageInv, NEW k \in Keys
    PROVE  k \notin Unsettled <=> \A c \in Clients : Writing(c) => k \notin KeySet(cmd[c])
<1>1. ASSUME NEW c \in Clients
      PROVE  phase[c] # "flush" /\ (phase[c] = "log" => cmd[c].op # "FLUSHDB")
  <2>1. phase[c] # "flush"
    BY DEF StageInv, Stage
  <2>2. ASSUME phase[c] = "log" PROVE cmd[c].op # "FLUSHDB"
    <3>1. Accepted(cmd[c]) /\ cmd[c] \in CmdLines
      BY <2>2 DEF StageInv, Stage, Types
    <3> QED BY <3>1 DEF Guarded, Unguarded
  <2> QED BY <2>1, <2>2
<1>2. k \in Unsettled <=> \E c \in Clients : Writing(c) /\ k \in KeySet(cmd[c])
  BY <1>1 DEF Unsettled, Writing
<1> QED BY <1>2

\* For any number of clients, keys, shards and commands but the four, whichever
\* writes to the file fail: for every key that no command is half way through
\* writing, memory holds what the commands leave in the order in which they
\* were logged, and so do the file and the channel unless the write of a
\* command that named the key has failed; across restarts too.
THEOREM LogOrder ==
    ASSUME Guarded PROVE Spec => []LogAgrees
<1>1. Init => LogInv /\ FileAgree
  <2> SUFFICES ASSUME Init PROVE FileAgree
    BY LogInit
  <2>1. Recovered = store
    BY ReplayEmpty DEF Init, Recovered
  <2> QED BY <2>1 DEF FileAgree
<1>2. LogInv /\ FileAgree /\ [Next]_vars => LogInv' /\ FileAgree'
  BY LogNext, FileNext DEF LogInv
<1>3. LogInv /\ FileAgree => LogAgrees
  <2> SUFFICES ASSUME LogInv, FileAgree, NEW k \in Keys \ Unsettled
               PROVE  data[k] = store[k] /\ (k \notin skewed => Recovered[k] = store[k])
    BY DEF LogAgrees, Recovered
  <2>1. \A c \in Clients : Writing(c) => k \notin KeySet(cmd[c])
    BY SettledIs DEF LogInv
  <2> QED BY <2>1 DEF LogInv, SettledAgree, FileAgree
<1> QED BY <1>1, <1>2, <1>3, PTL DEF Spec

-----------------------------------------------------------------------------
(* The refinement of DurableStore                                          *)

\* The two instances of the commands are one.
LEMMA SameTable ==
    /\ DS!cmdTable = cmdTable
    /\ \A line : DS!Accepted(line) <=> Accepted(line)
<1>1. DS!cmdTable = cmdTable
  BY DEF DS!cmdTable, cmdTable, DS!Entry, Entry
<1> QED BY <1>1 DEF DS!Accepted, Accepted, DS!ValidateArity, ValidateArity, DS!ArgCount, ArgCount

LEMMA SameReplies ==
    /\ \A x : DS!Reply(x) = Reply(x) /\ DS!Bulk(x) = Bulk(x)
    /\ \A x : DS!MultiBulk(x) = MultiBulk(x) /\ DS!IntReply(x) = IntReply(x)
    /\ DS!NullBulk = NullBulk /\ DS!Ok = Ok /\ DS!WrongType = WrongType /\ DS!Panic = Panic
    /\ \A x, y : DS!Reads(x) = Reads(x) /\ DS!Writes(x, y) = Writes(x, y) /\ DS!Put(x, y) = Put(x, y)
  BY DEF DS!Reply, Reply, DS!Bulk, Bulk, DS!MultiBulk, MultiBulk, DS!IntReply, IntReply,
         DS!NullBulk, NullBulk, DS!Ok, Ok, DS!WrongType, WrongType, DS!Panic, Panic,
         DS!Reads, Reads, DS!Writes, Writes, DS!Put, Put

LEMMA SameHelpers ==
    /\ DS!Absent = Absent
    /\ \A x : DS!Str(x) = Str(x) /\ DS!List(x) = List(x) /\ DS!Key(x) = Key(x)
    /\ \A x, y : DS!PushFront(x, y) = PushFront(x, y) /\ DS!FromEnd(x, y) = FromEnd(x, y)
    /\ \A x, y : DS!Position(x, y) = Position(x, y) /\ (DS!InRange(x, y) <=> InRange(x, y))
    /\ \A x, y, z : DS!Clamped(x, y, z) = Clamped(x, y, z)
    /\ \A db, x : /\ DS!Exists(db, x) <=> Exists(db, x)
                  /\ DS!IsString(db, x) <=> IsString(db, x)
                  /\ DS!BadType(db, x) <=> BadType(db, x)
                  /\ DS!Listed(db, x) = Listed(db, x)
  BY DEF DS!Absent, Absent, DS!Str, Str, DS!List, List, DS!Key, Key, DS!PushFront, PushFront,
         DS!FromEnd, FromEnd, DS!Position, Position, DS!InRange, InRange, DS!Clamped, Clamped,
         DS!Exists, Exists, DS!IsString, IsString, DS!IsList, IsList, DS!BadType, BadType,
         DS!Listed, Listed

LEMMA SameStrings ==
    ASSUME NEW db, NEW line
    PROVE  /\ DS!execGet(db, line) = execGet(db, line)
           /\ DS!execSet(db, line) = execSet(db, line)
           /\ DS!execSetNX(db, line) = execSetNX(db, line)
           /\ DS!execGetSet(db, line) = execGetSet(db, line)
           /\ DS!execStrlen(db, line) = execStrlen(db, line)
  BY SameReplies, SameHelpers
     DEF DS!execGet, execGet, DS!execSet, execSet, DS!execSetNX, execSetNX, DS!execGetSet,
         execGetSet, DS!execStrlen, execStrlen

LEMMA SameKeys ==
    ASSUME NEW db, NEW line
    PROVE  /\ DS!execDel(db, line) = execDel(db, line)
           /\ DS!execExist(db, line) = execExist(db, line)
           /\ DS!execType(db, line) = execType(db, line)
           /\ DS!execFlushDB(db, line) = execFlushDB(db, line)
           /\ DS!execRename(db, line) = execRename(db, line)
           /\ DS!execRenameNX(db, line) = execRenameNX(db, line)
           /\ DS!Ping(db, line) = Ping(db, line)
<1>0. \A S : DS!Cardinality(S) = Cardinality(S)
  BY DEF DS!Cardinality, Cardinality
<1>1. DS!Removed(db, line) = Removed(db, line)
  BY SameHelpers DEF DS!Removed, Removed
<1>2. ASSUME NEW S PROVE DS!Ascending(S) = Ascending(S)
  BY <1>0 DEF DS!Ascending, Ascending
<1>3. DS!execDel(db, line) = execDel(db, line)
  <2> DEFINE S == Removed(db, line)
             n == Cardinality(S)
  <2>1. [i \in 1 .. n |-> DS!Put(line.keys[DS!Ascending(S)[i]], DS!Absent)]
          = [i \in 1 .. n |-> Put(line.keys[Ascending(S)[i]], Absent)]
    BY <1>2, SameReplies, SameHelpers
  <2> QED BY <1>0, <1>1, <2>1, SameReplies DEF DS!execDel, execDel
<1>4. DS!execExist(db, line) = execExist(db, line)
  <2>1. {i \in 1 .. Len(line.keys) : DS!Exists(db, line.keys[i])}
          = {i \in 1 .. Len(line.keys) : Exists(db, line.keys[i])}
    BY SameHelpers
  <2> QED BY <1>0, <2>1, SameReplies DEF DS!execExist, execExist
<1>5. DS!execType(db, line) = execType(db, line) /\ DS!Ping(db, line) = Ping(db, line)
  BY SameReplies, SameHelpers DEF DS!execType, execType, DS!Ping, Ping
<1>6. DS!execFlushDB(db, line) = execFlushDB(db, line)
  BY SameReplies DEF DS!execFlushDB, execFlushDB
<1>7. DS!Move(db, line) = Move(db, line)
  BY SameReplies, SameHelpers DEF DS!Move, Move
<1>8. DS!execRename(db, line) = execRename(db, line) /\ DS!execRenameNX(db, line) = execRenameNX(db, line)
  BY <1>7, SameReplies, SameHelpers DEF DS!execRename, execRename, DS!execRenameNX, execRenameNX
<1> QED BY <1>3, <1>4, <1>5, <1>6, <1>8

LEMMA SameLists ==
    ASSUME NEW db, NEW line
    PROVE  /\ DS!execLPush(db, line) = execLPush(db, line)
           /\ DS!execRPush(db, line) = execRPush(db, line)
           /\ DS!execLPop(db, line) = execLPop(db, line)
           /\ DS!execRPop(db, line) = execRPop(db, line)
           /\ DS!execLRange(db, line) = execLRange(db, line)
           /\ DS!execLLen(db, line) = execLLen(db, line)
           /\ DS!execLIndex(db, line) = execLIndex(db, line)
           /\ DS!execLSet(db, line) = execLSet(db, line)
<1>1. \A l : DS!execPush(db, line, l) = execPush(db, line, l)
  BY SameReplies, SameHelpers DEF DS!execPush, execPush
<1>2. \A at, rest : DS!execPop(db, line, at, rest) = execPop(db, line, at, rest)
  BY SameReplies, SameHelpers DEF DS!execPop, execPop
<1>3. DS!execLPush(db, line) = execLPush(db, line) /\ DS!execRPush(db, line) = execRPush(db, line)
  BY <1>1, SameHelpers DEF DS!execLPush, execLPush, DS!execRPush, execRPush
<1>4. DS!execLPop(db, line) = execLPop(db, line) /\ DS!execRPop(db, line) = execRPop(db, line)
  BY <1>2, SameHelpers DEF DS!execLPop, execLPop, DS!execRPop, execRPop
<1>5. DS!execLRange(db, line) = execLRange(db, line)
  BY SameReplies, SameHelpers DEF DS!execLRange, execLRange
<1>6. DS!execLLen(db, line) = execLLen(db, line)
  BY SameReplies, SameHelpers DEF DS!execLLen, execLLen
<1>7. DS!execLIndex(db, line) = execLIndex(db, line)
  BY SameReplies, SameHelpers DEF DS!execLIndex, execLIndex
<1>8. DS!execLSet(db, line) = execLSet(db, line)
  BY SameReplies, SameHelpers DEF DS!execLSet, execLSet
<1> QED BY <1>3, <1>4, <1>5, <1>6, <1>7, <1>8

LEMMA SameExec ==
    ASSUME NEW db, NEW line
    PROVE  DS!execNormalCommand(db, line) = execNormalCommand(db, line)
<1>1. DS!exec(db, line) = exec(db, line)
  BY SameStrings, SameKeys, SameLists DEF DS!exec, exec
<1> QED BY <1>1, SameTable, SameReplies DEF DS!execNormalCommand, execNormalCommand

LEMMA SameAfter ==
    ASSUME NEW db, NEW line
    PROVE  /\ DS!After(db, line) = After(db, line)
           /\ \A r : DS!Stored(db, r) = Stored(db, r)
<1>1. \A r : DS!Stored(db, r) = Stored(db, r)
  BY SameHelpers DEF DS!Stored, Stored
<1> QED BY <1>1, SameExec DEF DS!After, After

\* The answers of the abstract store: those of the commands that are done.
Answers == [c \in Clients |-> IF phase[c] = "done" THEN result[c].reply ELSE NoReply]

Replied == \A c \in Clients : phase[c] \in {"write", "log", "done"} => IsReply(result[c].reply)

RefineInv == LogInv /\ Replied

LEMMA AnswersStay ==
    ASSUME \A d \in Clients : phase[d] = "done" <=> phase'[d] = "done",
           \A d \in Clients : phase[d] = "done" => result'[d] = result[d]
    PROVE  Answers' = Answers
  BY DEF Answers

LEMMA AnswersStep ==
    ASSUME NEW c \in Clients,
           \A d \in Clients : d # c => phase'[d] = phase[d] /\ result'[d] = result[d]
    PROVE  Answers' = [Answers EXCEPT ![c] = IF phase'[c] = "done" THEN result'[c].reply ELSE NoReply]
  BY DEF Answers

LEMMA AnswerOf ==
    ASSUME NEW c \in Clients
    PROVE  Answers[c] = IF phase[c] = "done" THEN result[c].reply ELSE NoReply
  BY DEF Answers

\* A command takes effect.
LEMMA TakesEffect ==
    ASSUME NEW c \in Clients, cmd[c] # NoCmd, phase[c] # "done",
           phase'[c] = "done",
           \A d \in Clients : d # c => phase'[d] = phase[d] /\ result'[d] = result[d],
           NEW r, r = execNormalCommand(store, cmd[c]),
           result'[c].reply = r.reply,
           store' = Stored(store, r),
           aofChan' = IF r.logged THEN Append(aofChan, cmd[c]) ELSE aofChan,
           UNCHANGED <<image, cmd>>
    PROVE  DS!TakeEffect(c)
<1>1. Answers[c] = NoReply
  BY AnswerOf
<1>2. Answers' = [Answers EXCEPT ![c] = r.reply]
  BY AnswersStep
<1>3. DS!execNormalCommand(store, cmd[c]) = r /\ DS!Stored(store, r) = Stored(store, r)
  BY SameExec, SameAfter
<1> QED BY <1>1, <1>2, <1>3 DEF DS!TakeEffect, Answers

LEMMA ReadsKeep ==
    ASSUME NEW db \in [Keys -> Entities], NEW rep
    PROVE  Stored(db, Reads(rep)) = db
<1>1. Reads(rep).puts = <<>> /\ ~Reads(rep).flush
  BY DEF Reads
<1>2. Stored(db, Reads(rep)) = [k \in Keys |-> Stored(db, Reads(rep))[k]]
  BY DEF Stored
<1>3. \A k \in Keys : Stored(db, Reads(rep))[k] = db[k]
  BY <1>1, StoredUntouched
<1> QED BY <1>2, <1>3

LEMMA RefineStep ==
    ASSUME Guarded, ~IsReply(NoReply), RefineInv, ~fault, NEW c \in Clients, Step(c)
    PROVE  Replied' /\ (DS!DSNext \/ UNCHANGED DS!dsvars)
<1>1. /\ LogInv /\ StageInv /\ LogInv' /\ StageInv' /\ Replied
      /\ phase \in [Clients -> Phases] /\ cmd \in [Clients -> CmdLines \cup {NoCmd}]
  BY LogStep DEF RefineInv, LogInv, StageInv, Types
<1>2. result = [d \in Clients |-> result[d]] /\ data \in [Keys -> Entities] /\ store \in [Keys -> Entities]
  BY <1>1 DEF StageInv, Types
<1>3. (phase[c] = "none" <=> cmd[c] = NoCmd) /\ (phase[c] = "refuse" => ~Accepted(cmd[c]))
  BY <1>1 DEF StageInv, Stage
<1> DEFINE Others == \A d \in Clients : d # c => phase'[d] = phase[d] /\ result'[d] = result[d]
<1>4. ASSUME Others, phase'[c] \in {"write", "log", "done"} => IsReply(result'[c].reply)
      PROVE  Replied'
  BY <1>1, <1>4 DEF Replied
<1>5. ASSUME Answers' = Answers, UNCHANGED <<cmd, aofChan, image, store>> PROVE UNCHANGED DS!dsvars
  BY <1>5 DEF DS!dsvars, Answers
<1>6. CASE Refuse(c)
  <2>1. /\ phase[c] = "refuse" /\ UNCHANGED <<cmd, aofChan, image, store>>
        /\ result' = [result EXCEPT ![c] = execNormalCommand(data, cmd[c])]
        /\ phase' = [phase EXCEPT ![c] = "done"]
    BY <1>6 DEF Refuse, aofvars
  <2>2. Others /\ phase'[c] = "done" /\ result'[c] = execNormalCommand(data, cmd[c])
    BY <1>1, <1>2, <2>1
  <2>3. execNormalCommand(data, cmd[c]) = execNormalCommand(store, cmd[c])
    BY <1>3, <2>1 DEF execNormalCommand
  <2>4. ~execNormalCommand(store, cmd[c]).logged
    BY <1>3, <2>1 DEF execNormalCommand, Reads
  <2>5. store = Stored(store, execNormalCommand(store, cmd[c]))
    <3>1. PICK rep : execNormalCommand(store, cmd[c]) = Reads(rep)
      BY <1>3, <2>1 DEF execNormalCommand
    <3> QED BY <1>2, <3>1, ReadsKeep
  <2>6. DS!TakeEffect(c)
    <3>1. store' = Stored(store, execNormalCommand(store, cmd[c]))
      BY <2>1, <2>5
    <3> QED BY <1>3, <2>1, <2>2, <2>3, <2>4, <3>1, TakesEffect
  <2>7. Replied'
    BY <1>4, <2>2, ReplyFacts
  <2> QED BY <2>6, <2>7 DEF DS!DSNext
<1>7. CASE Lock(c) \/ Unlock(c)
  <2>1. UNCHANGED <<cmd, phase, result, aofChan, image, store>>
    BY <1>7 DEF Lock, Unlock, execvars, aofvars
  <2>2. Answers' = Answers
    BY <2>1, AnswersStay
  <2>3. Replied'
    BY <1>1, <2>1 DEF Replied
  <2> QED BY <1>5, <2>1, <2>2, <2>3
<1>8. CASE Exec(c)
  <2>1. /\ phase[c] = "exec" /\ UNCHANGED <<cmd, aofChan, image, store>>
        /\ result' = [result EXCEPT ![c] = execNormalCommand(data, cmd[c])]
        /\ phase' = [phase EXCEPT ![c] = PhaseOf(result'[c])]
    BY <1>8 DEF Exec, aofvars
  <2>2. /\ Others /\ phase'[c] = PhaseOf(result'[c])
        /\ result'[c] = execNormalCommand(data, cmd[c])
    BY <1>1, <1>2, <2>1
  <2>3. result'[c] = execNormalCommand(store, cmd[c])
    BY <1>1, <1>8, LogExec
  <2>4. Replied'
    BY <1>4, <2>2, ReplyFacts
  <2>5. CASE phase'[c] = "done"
    <3>1. cmd[c] \in CmdLines /\ Accepted(cmd[c])
      BY <1>1, <2>1 DEF StageInv, Stage, Types
    <3>2. ~result'[c].logged /\ result'[c].puts = <<>>
      BY <1>2, <2>2, <2>5, <3>1, ExecDecides
    <3>3. store' = Stored(store, execNormalCommand(store, cmd[c]))
      <4> DEFINE r == execNormalCommand(store, cmd[c])
      <4>1. Sound(cmd[c], r) /\ cmd[c].op # "FLUSHDB"
        BY <1>2, <3>1, LineOK, ExecSound DEF Guarded, Unguarded
      <4>2. r.puts \in Seq(PutsOf(cmd[c])) /\ ~r.flush /\ r.puts = <<>>
        BY <2>3, <3>2, <4>1 DEF Sound
      <4> HIDE DEF r
      <4>3. Stored(store, r) = store
        BY <1>2, <4>2, StoredFacts
      <4> QED BY <2>1, <4>3 DEF r
    <3>4. DS!TakeEffect(c)
      BY <1>3, <2>1, <2>2, <2>3, <2>5, <3>2, <3>3, TakesEffect
    <3> QED BY <2>4, <3>4 DEF DS!DSNext
  <2>6. CASE phase'[c] # "done"
    <3>1. Answers' = Answers
      BY <2>1, <2>2, <2>6, AnswersStay
    <3> QED BY <1>5, <2>1, <2>4, <3>1
  <2> QED BY <2>5, <2>6
<1>9. CASE Write(c)
  <2> DEFINE r == [result[c] EXCEPT !.puts = Tail(@)]
  <2>1. /\ phase[c] = "write" /\ UNCHANGED <<cmd, aofChan, image, store>>
        /\ result' = [result EXCEPT ![c] = r]
        /\ phase' = [phase EXCEPT ![c] = PhaseOf(r)]
    BY <1>9 DEF Write, aofvars
  <2>2. IsResult(result[c]) /\ ~result[c].flush /\ result[c].logged
    BY <1>1, <2>1 DEF StageInv, Stage, Decided
  <2>3. r.reply = result[c].reply /\ ~r.flush /\ r.logged
    BY <2>2, ResultExcept
  <2> HIDE DEF r
  <2>4. Others /\ result'[c] = r /\ phase'[c] = PhaseOf(r)
    BY <1>1, <1>2, <2>1
  <2>5. PhaseOf(r) # "done"
    BY <2>3 DEF PhaseOf
  <2>6. Replied'
    BY <1>1, <1>4, <2>1, <2>3, <2>4 DEF Replied
  <2>7. Answers' = Answers
    BY <2>1, <2>4, <2>5, AnswersStay
  <2> QED BY <1>5, <2>1, <2>6, <2>7
<1>10. CASE Flush(c)
  BY <1>1, <1>10 DEF Flush, StageInv, Stage
<1>11. CASE AddAof(c)
  <2>1. /\ phase[c] = "log" /\ UNCHANGED <<cmd, result, image>> /\ store' = After(store, cmd[c])
        /\ aofChan' = Append(aofChan, cmd[c]) /\ phase' = [phase EXCEPT ![c] = "done"]
    BY <1>11 DEF AddAof
  <2>2. Others /\ phase'[c] = "done" /\ result'[c] = result[c]
    BY <1>1, <2>1
  <2> DEFINE r == execNormalCommand(store, cmd[c])
  <2>3. r.logged /\ r.reply = result[c].reply
    BY <1>1, <2>1 DEF LogInv, Serial, Writing
  <2>4. DS!TakeEffect(c)
    <3>1. store' = Stored(store, r)
      BY <2>1 DEF After
    <3> QED BY <1>3, <2>1, <2>2, <2>3, <3>1, TakesEffect
  <2>5. Replied'
    BY <1>1, <1>4, <2>1, <2>2 DEF Replied
  <2> QED BY <2>4, <2>5 DEF DS!DSNext
<1>12. CASE Respond(c)
  <2>1. /\ phase[c] = "done" /\ UNCHANGED <<aofChan, image, store>>
        /\ cmd' = [cmd EXCEPT ![c] = NoCmd]
        /\ phase' = [phase EXCEPT ![c] = "none"]
        /\ result' = [result EXCEPT ![c] = NoResult]
    BY <1>12 DEF Respond, aofvars
  <2>2. Others /\ phase'[c] = "none"
    BY <1>1, <1>2, <2>1
  <2>3. Answers[c] # NoReply
    BY <1>1, <2>1, AnswerOf DEF Replied
  <2>4. Answers' = [Answers EXCEPT ![c] = NoReply]
    BY <2>2, AnswersStep
  <2>5. DS!Answer(c)
    BY <2>1, <2>3, <2>4 DEF DS!Answer, Answers
  <2>6. Replied'
    BY <1>4, <2>2
  <2> QED BY <2>5, <2>6 DEF DS!DSNext
<1> QED BY <1>6, <1>7, <1>8, <1>9, <1>10, <1>11, <1>12 DEF Step

LEMMA RefineNext ==
    ASSUME Guarded, ~IsReply(NoReply), RefineInv, [Next]_vars
    PROVE  RefineInv' /\ [DS!DSNext]_DS!dsvars
<1>1. LogInv'
  BY LogNext DEF RefineInv
<1>2. /\ LogInv /\ StageInv /\ Replied
      /\ phase \in [Clients -> Phases] /\ cmd \in [Clients -> CmdLines \cup {NoCmd}]
      /\ result = [d \in Clients |-> result[d]]
  BY DEF RefineInv, LogInv, StageInv, Types
<1>3. CASE UNCHANGED vars
  <2>1. UNCHANGED <<cmd, phase, result, aofChan, image, store>>
    BY <1>3 DEF vars, execvars, aofvars
  <2>2. Replied'
    BY <1>2, <2>1 DEF Replied
  <2>3. UNCHANGED DS!dsvars
    BY <2>1 DEF DS!dsvars
  <2> QED BY <1>1, <2>2, <2>3 DEF RefineInv
<1>4. ASSUME ~fault, NEW c \in Clients, Step(c) PROVE RefineInv' /\ [DS!DSNext]_DS!dsvars
  BY <1>1, <1>4, RefineStep DEF RefineInv
<1>5. ASSUME ~fault, NEW c \in Clients, NEW line \in CmdLines, Receive(c, line)
      PROVE  RefineInv' /\ [DS!DSNext]_DS!dsvars
  <2>1. /\ cmd[c] = NoCmd /\ UNCHANGED <<aofChan, image, store, result>>
        /\ cmd' = [cmd EXCEPT ![c] = line]
        /\ \E p \in {"exec", "refuse"} : phase' = [phase EXCEPT ![c] = p]
    BY <1>5 DEF Receive, aofvars
  <2>2. phase[c] = "none"
    BY <1>2, <2>1 DEF StageInv, Stage
  <2>3. /\ phase'[c] \in {"exec", "refuse"}
        /\ \A d \in Clients : d # c => phase'[d] = phase[d]
    BY <1>2, <2>1
  <2>4. Answers' = Answers
    BY <2>1, <2>2, <2>3, AnswersStay
  <2>5. DS!Request(c, line)
    BY <2>1, <2>4 DEF DS!Request, Answers
  <2>6. Replied'
    BY <1>2, <2>1, <2>3 DEF Replied
  <2> QED BY <1>1, <2>5, <2>6 DEF RefineInv, DS!DSNext
<1>6. CASE HandleAof
  <2>1. /\ aofChan # <<>> /\ aofChan' = Tail(aofChan) /\ image' = After(image, Head(aofChan))
        /\ UNCHANGED <<cmd, phase, result, store>>
    BY <1>6 DEF HandleAof, execvars
  <2>2. Answers' = Answers
    BY <2>1, AnswersStay
  <2>3. DS!Persist
    BY <2>1, <2>2, SameAfter DEF DS!Persist, Answers
  <2>4. Replied'
    BY <1>2, <2>1 DEF Replied
  <2> QED BY <1>1, <2>3, <2>4 DEF RefineInv, DS!DSNext
<1>7. CASE HandleAofFails
  <2>1. /\ aofChan # <<>> /\ aofChan' = Tail(aofChan)
        /\ UNCHANGED <<cmd, phase, result, image, store>>
    BY <1>7 DEF HandleAofFails, execvars
  <2>2. Answers' = Answers
    BY <2>1, AnswersStay
  <2>3. DS!Skip
    BY <2>1, <2>2 DEF DS!Skip, Answers
  <2>4. Replied'
    BY <1>2, <2>1 DEF Replied
  <2> QED BY <1>1, <2>3, <2>4 DEF RefineInv, DS!DSNext
<1>8. CASE Restart
  <2>1. /\ aofChan' = <<>> /\ image' = image /\ store' = image /\ cmd' = [d \in Clients |-> NoCmd]
        /\ phase' = [d \in Clients |-> "none"]
    BY <1>8 DEF Restart
  <2>2. Answers' = [d \in Clients |-> NoReply]
    BY <2>1 DEF Answers
  <2>3. DS!LoseMemory
    BY <2>1, <2>2 DEF DS!LoseMemory, Answers
  <2>4. Replied'
    BY <2>1 DEF Replied
  <2> QED BY <1>1, <2>3, <2>4 DEF RefineInv, DS!DSNext
<1> QED BY <1>3, <1>4, <1>5, <1>6, <1>7, <1>8 DEF Next

\* For any number of clients, keys, shards and commands but the four, the
\* database with its locks, its channel and its file is a store in which every
\* command takes effect at one moment between its request and its answer and
\* becomes durable in that order unless its write fails, across restarts too.
\* NoReply only has to be something else than a reply.
THEOREM Durability ==
    ASSUME Guarded, ~IsReply(NoReply) PROVE Spec => ImplementsDurableStore
<1>1. Init => DS!DSInit /\ RefineInv
  <2> SUFFICES ASSUME Init PROVE DS!DSInit /\ RefineInv
    OBVIOUS
  <2>1. DS!DSInit
    BY SameHelpers DEF Init, DS!DSInit
  <2>2. Replied
    BY DEF Init, Replied
  <2> QED BY <2>1, <2>2, LogInit DEF RefineInv
<1>2. RefineInv /\ [Next]_vars => RefineInv' /\ [DS!DSNext]_DS!dsvars
  BY RefineNext
<1> QED BY <1>1, <1>2, PTL DEF Spec, ImplementsDurableStore, DS!DSSpec

-----------------------------------------------------------------------------
(* What the file may do to a restart, with every command                   *)

Loggable == {line \in CmdLines : Accepted(line) /\ line.op \notin Reading}

\* A command that has yet to write or log is one that is logged, and what it
\* has to write is typed.
Logging(c) ==
    /\ phase[c] \in {"exec", "write", "flush", "log"} => cmd[c] \in CmdLines /\ Accepted(cmd[c])
    /\ phase[c] \in {"write", "flush", "log"} =>
           /\ cmd[c].op \notin Reading
           /\ IsResult(result[c]) /\ result[c].puts \in Seq(PutsOf(cmd[c]))
    /\ phase[c] = "write" => result[c].puts # <<>>

BootTypes ==
    /\ data \in [Keys -> Entities] /\ image \in [Keys -> Entities]
    /\ cmd = [c \in Clients |-> cmd[c]] /\ phase \in [Clients -> Phases]
    /\ result = [c \in Clients |-> result[c]]
    /\ aofChan \in Seq(Loggable)

BootInv == BootTypes /\ \A c \in Clients : Logging(c)

LEMMA LoggableFacts ==
    ASSUME NEW line \in Loggable
    PROVE  /\ line \in CmdLineType /\ Accepted(line) /\ WellFormed(line) /\ line.op \notin Reading
           /\ \A db \in [Keys -> Entities] : After(db, line) \in [Keys -> Entities]
<1>1. line \in CmdLineType /\ Accepted(line) /\ WellFormed(line) /\ line.op \notin Reading
  BY LineOK DEF Loggable
<1>2. ASSUME NEW db \in [Keys -> Entities] PROVE After(db, line) \in [Keys -> Entities]
  <2>1. Sound(line, execNormalCommand(db, line))
    BY <1>1, ExecSound
  <2>2. execNormalCommand(db, line).puts \in Seq(PutsOf(line))
    BY <2>1 DEF Sound
  <2> QED BY <2>2, StoredTyped DEF After
<1> QED BY <1>1, <1>2

LEMMA PhaseFacts ==
    ASSUME NEW r
    PROVE  /\ PhaseOf(r) \in {"flush", "write", "log", "done"}
           /\ PhaseOf(r) = "write" => r.puts # <<>>
           /\ PhaseOf(r) # "done" => r.flush \/ r.puts # <<>> \/ r.logged
  BY DEF PhaseOf

LEMMA FlushExcept ==
    ASSUME NEW r, IsResult(r)
    PROVE  IsResult([r EXCEPT !.flush = FALSE]) /\ [r EXCEPT !.flush = FALSE].puts = r.puts
  BY DEF IsResult

LEMMA LoggingStays ==
    ASSUME NEW d, Logging(d), cmd'[d] = cmd[d], phase'[d] = phase[d], result'[d] = result[d]
    PROVE  Logging(d)'
  BY DEF Logging

LEMMA BootStep ==
    ASSUME BootInv, NEW c \in Clients, Step(c)
    PROVE  BootInv'
<1>1. /\ data \in [Keys -> Entities] /\ image \in [Keys -> Entities]
      /\ cmd = [d \in Clients |-> cmd[d]] /\ phase \in [Clients -> Phases]
      /\ result = [d \in Clients |-> result[d]]
      /\ aofChan \in Seq(Loggable) /\ Logging(c)
  BY DEF BootInv, BootTypes
<1> DEFINE Others == \A d \in Clients : d # c =>
                       cmd'[d] = cmd[d] /\ phase'[d] = phase[d] /\ result'[d] = result[d]
<1>2. ASSUME BootTypes', Others, Logging(c)' PROVE BootInv'
  <2>1. ASSUME NEW d \in Clients, d # c PROVE Logging(d)'
    BY <1>2, <2>1, LoggingStays DEF BootInv
  <2> QED BY <1>2, <2>1 DEF BootInv
<1>3. CASE Refuse(c)
  <2>1. /\ UNCHANGED <<data, cmd, aofChan, image>> /\ phase' = [phase EXCEPT ![c] = "done"]
        /\ result' = [result EXCEPT ![c] = execNormalCommand(data, cmd[c])]
    BY <1>3 DEF Refuse, aofvars
  <2>2. BootTypes'
    BY <1>1, <2>1 DEF BootTypes, Phases
  <2>3. Others /\ phase'[c] = "done"
    BY <1>1, <2>1
  <2>4. Logging(c)'
    BY <2>3 DEF Logging
  <2> QED BY <1>2, <2>2, <2>3, <2>4
<1>4. CASE Lock(c) \/ Unlock(c)
  <2>1. UNCHANGED <<data, cmd, phase, result, aofChan, image>>
    BY <1>4 DEF Lock, Unlock, execvars, aofvars
  <2>2. BootTypes'
    BY <1>1, <2>1 DEF BootTypes
  <2>3. Logging(c)'
    BY <1>1, <2>1, LoggingStays
  <2> QED BY <1>2, <2>1, <2>2, <2>3
<1>5. CASE Exec(c)
  <2> DEFINE r == execNormalCommand(data, cmd[c])
  <2>1. /\ phase[c] = "exec" /\ UNCHANGED <<data, cmd, aofChan, image>>
        /\ result' = [result EXCEPT ![c] = r]
        /\ phase' = [phase EXCEPT ![c] = PhaseOf(result'[c])]
    BY <1>5 DEF Exec, aofvars
  <2>2. cmd[c] \in CmdLines /\ Accepted(cmd[c])
    BY <1>1, <2>1 DEF Logging
  <2>3. Sound(cmd[c], r)
    BY <1>1, <2>2, LineOK, ExecSound
  <2> HIDE DEF r
  <2>4. result'[c] = r /\ phase'[c] = PhaseOf(r) /\ Others
    BY <1>1, <2>1
  <2>5. PhaseOf(r) # "done" => cmd[c].op \notin Reading
    BY <2>3, PhaseFacts DEF Sound
  <2>6. BootTypes'
    BY <1>1, <2>1, PhaseFacts DEF BootTypes, Phases
  <2>7. Logging(c)'
    BY <2>1, <2>2, <2>3, <2>4, <2>5, PhaseFacts DEF Logging, Sound
  <2> QED BY <1>2, <2>4, <2>6, <2>7
<1>6. CASE Write(c)
  <2> DEFINE p == Head(result[c].puts)
             r == [result[c] EXCEPT !.puts = Tail(@)]
  <2>1. /\ phase[c] = "write" /\ UNCHANGED <<cmd, aofChan, image>>
        /\ data' = [data EXCEPT ![p.key] = p.entity]
        /\ result' = [result EXCEPT ![c] = r]
        /\ phase' = [phase EXCEPT ![c] = PhaseOf(r)]
    BY <1>6 DEF Write, aofvars
  <2>2. /\ cmd[c] \in CmdLines /\ Accepted(cmd[c]) /\ cmd[c].op \notin Reading
        /\ IsResult(result[c]) /\ result[c].puts \in Seq(PutsOf(cmd[c])) /\ result[c].puts # <<>>
    BY <1>1, <2>1 DEF Logging
  <2>3. p \in PutsOf(cmd[c]) /\ KeySet(cmd[c]) \subseteq Keys
    BY <2>2, LineOK, LineFacts
  <2>4. data' \in [Keys -> Entities]
    BY <1>1, <2>1, <2>3 DEF PutsOf
  <2>5. IsResult(r) /\ r.puts \in Seq(PutsOf(cmd[c]))
    <3>1. IsResult(r) /\ r.puts = Tail(result[c].puts)
      BY <2>2, ResultExcept
    <3>2. Tail(result[c].puts) \in Seq(PutsOf(cmd[c]))
      BY <2>2, HeadTailProperties
    <3> QED BY <3>1, <3>2
  <2> HIDE DEF r
  <2>6. result'[c] = r /\ phase'[c] = PhaseOf(r) /\ Others
    BY <1>1, <2>1
  <2>7. BootTypes'
    BY <1>1, <2>1, <2>4, PhaseFacts DEF BootTypes, Phases
  <2>8. Logging(c)'
    BY <2>1, <2>2, <2>5, <2>6, PhaseFacts DEF Logging
  <2> QED BY <1>2, <2>6, <2>7, <2>8
<1>7. CASE Flush(c)
  <2> DEFINE r == [result[c] EXCEPT !.flush = FALSE]
  <2>1. /\ phase[c] = "flush" /\ UNCHANGED <<cmd, aofChan, image>>
        /\ data' = [k \in Keys |-> Absent]
        /\ result' = [result EXCEPT ![c] = r]
        /\ phase' = [phase EXCEPT ![c] = PhaseOf(result'[c])]
    BY <1>7 DEF Flush, aofvars
  <2>2. /\ cmd[c] \in CmdLines /\ Accepted(cmd[c]) /\ cmd[c].op \notin Reading
        /\ IsResult(result[c]) /\ result[c].puts \in Seq(PutsOf(cmd[c]))
    BY <1>1, <2>1 DEF Logging
  <2>3. IsResult(r) /\ r.puts = result[c].puts
    BY <2>2, FlushExcept
  <2> HIDE DEF r
  <2>4. result'[c] = r /\ phase'[c] = PhaseOf(r) /\ Others
    BY <1>1, <2>1
  <2>5. data' \in [Keys -> Entities]
    BY <2>1, EntityFacts
  <2>6. BootTypes'
    BY <1>1, <2>1, <2>5, PhaseFacts DEF BootTypes, Phases
  <2>7. Logging(c)'
    BY <2>1, <2>2, <2>3, <2>4, PhaseFacts DEF Logging
  <2> QED BY <1>2, <2>4, <2>6, <2>7
<1>8. CASE AddAof(c)
  <2>1. /\ phase[c] = "log" /\ UNCHANGED <<data, cmd, result, image>>
        /\ aofChan' = Append(aofChan, cmd[c]) /\ phase' = [phase EXCEPT ![c] = "done"]
    BY <1>8 DEF AddAof
  <2>2. cmd[c] \in Loggable
    BY <1>1, <2>1 DEF Logging, Loggable
  <2>3. aofChan' \in Seq(Loggable)
    BY <1>1, <2>1, <2>2
  <2>4. BootTypes'
    BY <1>1, <2>1, <2>3 DEF BootTypes, Phases
  <2>5. Others /\ phase'[c] = "done"
    BY <1>1, <2>1
  <2>6. Logging(c)'
    BY <2>5 DEF Logging
  <2> QED BY <1>2, <2>4, <2>5, <2>6
<1>9. CASE Respond(c)
  <2>1. /\ UNCHANGED <<data, aofChan, image>> /\ cmd' = [cmd EXCEPT ![c] = NoCmd]
        /\ phase' = [phase EXCEPT ![c] = "none"] /\ result' = [result EXCEPT ![c] = NoResult]
    BY <1>9 DEF Respond, aofvars
  <2>2. BootTypes'
    BY <1>1, <2>1 DEF BootTypes, Phases
  <2>3. Others /\ phase'[c] = "none"
    BY <1>1, <2>1
  <2>4. Logging(c)'
    BY <2>3 DEF Logging
  <2> QED BY <1>2, <2>2, <2>3, <2>4
<1> QED BY <1>3, <1>4, <1>5, <1>6, <1>7, <1>8, <1>9 DEF Step

LEMMA BootNext ==
    ASSUME BootInv, [Next]_vars
    PROVE  BootInv'
<1>1. /\ data \in [Keys -> Entities] /\ image \in [Keys -> Entities]
      /\ cmd = [d \in Clients |-> cmd[d]] /\ phase \in [Clients -> Phases]
      /\ result = [d \in Clients |-> result[d]] /\ aofChan \in Seq(Loggable)
  BY DEF BootInv, BootTypes
<1>2. CASE UNCHANGED vars
  <2>1. UNCHANGED <<data, cmd, phase, result, aofChan, image>>
    BY <1>2 DEF vars, execvars, aofvars
  <2>2. BootTypes'
    BY <1>1, <2>1 DEF BootTypes
  <2>3. ASSUME NEW d \in Clients PROVE Logging(d)'
    BY <2>1, LoggingStays DEF BootInv
  <2> QED BY <2>2, <2>3 DEF BootInv
<1>3. ASSUME NEW c \in Clients, NEW line \in CmdLines, Receive(c, line) PROVE BootInv'
  <2>1. /\ UNCHANGED <<data, aofChan, image, result>> /\ cmd' = [cmd EXCEPT ![c] = line]
        /\ \/ Accepted(line) /\ phase' = [phase EXCEPT ![c] = "exec"]
           \/ phase' = [phase EXCEPT ![c] = "refuse"]
    BY <1>3 DEF Receive, aofvars
  <2>2. BootTypes'
    BY <1>1, <2>1 DEF BootTypes, Phases
  <2>3. ASSUME NEW d \in Clients, d # c PROVE Logging(d)'
    <3>1. cmd'[d] = cmd[d] /\ phase'[d] = phase[d] /\ result'[d] = result[d]
      BY <1>1, <2>1, <2>3
    <3> QED BY <3>1, LoggingStays DEF BootInv
  <2>4. Logging(c)'
    <3>1. cmd'[c] = line /\ (phase'[c] = "refuse" \/ (phase'[c] = "exec" /\ Accepted(line)))
      BY <1>1, <2>1
    <3> QED BY <3>1 DEF Logging
  <2> QED BY <2>2, <2>3, <2>4 DEF BootInv
<1>4. CASE HandleAof
  <2>1. /\ aofChan # <<>> /\ aofChan' = Tail(aofChan) /\ image' = After(image, Head(aofChan))
        /\ UNCHANGED <<data, cmd, phase, result>>
    BY <1>4 DEF HandleAof, execvars
  <2>2. Head(aofChan) \in Loggable /\ aofChan' \in Seq(Loggable)
    BY <1>1, <2>1
  <2>3. image' \in [Keys -> Entities]
    BY <1>1, <2>1, <2>2, LoggableFacts
  <2>4. BootTypes'
    BY <1>1, <2>1, <2>2, <2>3 DEF BootTypes
  <2>5. ASSUME NEW d \in Clients PROVE Logging(d)'
    BY <2>1, LoggingStays DEF BootInv
  <2> QED BY <2>4, <2>5 DEF BootInv
<1>5. CASE HandleAofFails
  <2>1. aofChan # <<>> /\ aofChan' = Tail(aofChan) /\ UNCHANGED <<data, cmd, phase, result, image>>
    BY <1>5 DEF HandleAofFails, execvars
  <2>2. aofChan' \in Seq(Loggable)
    BY <1>1, <2>1
  <2>3. BootTypes'
    BY <1>1, <2>1, <2>2 DEF BootTypes
  <2>4. ASSUME NEW d \in Clients PROVE Logging(d)'
    BY <2>1, LoggingStays DEF BootInv
  <2> QED BY <2>3, <2>4 DEF BootInv
<1>6. CASE Restart
  <2>1. /\ data' = image /\ image' = image /\ aofChan' = <<>>
        /\ cmd' = [c \in Clients |-> NoCmd] /\ phase' = [c \in Clients |-> "none"]
        /\ result' = [c \in Clients |-> NoResult]
    BY <1>6 DEF Restart
  <2>2. BootTypes'
    BY <1>1, <2>1 DEF BootTypes, Phases
  <2>3. ASSUME NEW d \in Clients PROVE Logging(d)'
    BY <2>1 DEF Logging
  <2> QED BY <2>2, <2>3 DEF BootInv
<1> QED BY <1>2, <1>3, <1>4, <1>5, <1>6, BootStep DEF Next

LEMMA BootInit == Init => BootInv
<1> SUFFICES ASSUME Init PROVE BootInv
  OBVIOUS
<1>1. BootTypes
  BY EntityFacts DEF Init, BootTypes, Phases
<1>2. ASSUME NEW c \in Clients PROVE Logging(c)
  BY DEF Init, Logging
<1> QED BY <1>1, <1>2 DEF BootInv

\* For all clients and all commands, the four included: replaying the file
\* panics only if a GETSET is written to it when the key holds a list.
THEOREM OnlyGetSetPoisons == Spec => Bootable
<1> DEFINE A == ~poisoned /\ poisoned'
                  => /\ Head(aofChan).op = "GETSET"
                     /\ image[Head(aofChan).keys[1]].type = "list"
<1>1. ASSUME BootInv, [Next]_vars PROVE [A]_vars
  <2> SUFFICES ASSUME ~poisoned, poisoned', Next
               PROVE  /\ Head(aofChan).op = "GETSET"
                      /\ image[Head(aofChan).keys[1]].type = "list"
    BY <1>1
  <2>1. HandleAof
    <3>1. ASSUME NEW c \in Clients, Step(c) PROVE poisoned' = poisoned
      BY <3>1 DEF Step, Refuse, Lock, Exec, Write, Flush, AddAof, Unlock, Respond, aofvars
    <3>2. ASSUME NEW c \in Clients, NEW line, Receive(c, line) PROVE poisoned' = poisoned
      BY <3>2 DEF Receive, aofvars
    <3>3. ASSUME Restart \/ HandleAofFails PROVE poisoned' = poisoned
      BY <3>3 DEF Restart, HandleAofFails
    <3> QED BY <3>1, <3>2, <3>3 DEF Next
  <2> DEFINE line == Head(aofChan)
  <2>2. aofChan # <<>> /\ execNormalCommand(image, line).reply = Panic
    BY <2>1 DEF HandleAof
  <2>3. line \in Loggable /\ image \in [Keys -> Entities]
    BY <1>1, <2>2 DEF BootInv, BootTypes
  <2> HIDE DEF line
  <2>4. line \in CmdLineType /\ Accepted(line) /\ WellFormed(line) /\ line.op \notin Reading
    BY <2>3, LoggableFacts
  <2>5. line.op = "GETSET" /\ image[Key(line)].type = "list"
    BY <2>2, <2>3, <2>4, PanicFacts
  <2> QED BY <2>5 DEF Key, line
<1> HIDE DEF A
<1>2. Spec => [][A]_vars
  BY <1>1, BootInit, BootNext, PTL DEF Spec
<1> QED BY <1>2 DEF Bootable, A
-----------------------------------------------------------------------------
(* The laws of the key and list commands: what a line of them does         *)

\* A command of the laws is looked up, accepted and executed.
LEMMA LawExec ==
    ASSUME NEW db, NEW line, line.op \in Names, ValidateArity(cmdTable[line.op].arity, ArgCount(line))
    PROVE  execNormalCommand(db, line) = exec(db, line)
  BY TableDomain DEF execNormalCommand, Accepted

LEMMA LawKeys ==
    ASSUME NEW db, NEW j, NEW k
    PROVE  /\ LET line == CmdLine("RENAME", <<j, k>>, <<>>, <<>>) IN execNormalCommand(db, line) = execRename(db, line)
           /\ LET line == CmdLine("RENAMENX", <<j, k>>, <<>>, <<>>) IN execNormalCommand(db, line) = execRenameNX(db, line)
           /\ LET line == CmdLine("DEL", <<j, k>>, <<>>, <<>>) IN execNormalCommand(db, line) = execDel(db, line)
           /\ LET line == CmdLine("EXIST", <<j, k>>, <<>>, <<>>) IN execNormalCommand(db, line) = execExist(db, line)
<1>1. ASSUME NEW op \in {"RENAME", "RENAMENX", "DEL", "EXIST"}
      PROVE  LET line == CmdLine(op, <<j, k>>, <<>>, <<>>) IN execNormalCommand(db, line) = exec(db, line)
  <2> DEFINE line == CmdLine(op, <<j, k>>, <<>>, <<>>)
  <2>1. line.op = op /\ ArgCount(line) = 3
    BY DEF CmdLine, ArgCount
  <2>2. op \in Names /\ ValidateArity(cmdTable[op].arity, 3)
    BY <1>1 DEF Names, ValidateArity, cmdTable, Entry
  <2> QED BY <2>1, <2>2, LawExec
<1>2. \A op : CmdLine(op, <<j, k>>, <<>>, <<>>).op = op
  BY DEF CmdLine
<1> QED BY <1>1, <1>2, ExecIs

LEMMA LawRange ==
    ASSUME NEW db, NEW k, NEW i, NEW n
    PROVE  LET line == CmdLine("LRANGE", <<k>>, <<>>, <<i, n>>) IN execNormalCommand(db, line) = execLRange(db, line)
<1>1. ASSUME NEW op \in {"LRANGE"}
      PROVE  LET line == CmdLine(op, <<k>>, <<>>, <<i, n>>) IN execNormalCommand(db, line) = exec(db, line)
  <2> DEFINE line == CmdLine(op, <<k>>, <<>>, <<i, n>>)
  <2>1. line.op = op /\ ArgCount(line) = 4
    BY DEF CmdLine, ArgCount
  <2>2. op \in Names /\ ValidateArity(cmdTable[op].arity, 4)
    BY <1>1 DEF Names, ValidateArity, cmdTable, Entry
  <2> QED BY <2>1, <2>2, LawExec
<1>2. \A op : CmdLine(op, <<k>>, <<>>, <<i, n>>).op = op
  BY DEF CmdLine
<1> QED BY <1>1, <1>2, ExecIs

LEMMA LawIndex ==
    ASSUME NEW db, NEW k, NEW i
    PROVE  LET line == CmdLine("LINDEX", <<k>>, <<>>, <<i>>) IN execNormalCommand(db, line) = execLIndex(db, line)
<1>1. ASSUME NEW op \in {"LINDEX"}
      PROVE  LET line == CmdLine(op, <<k>>, <<>>, <<i>>) IN execNormalCommand(db, line) = exec(db, line)
  <2> DEFINE line == CmdLine(op, <<k>>, <<>>, <<i>>)
  <2>1. line.op = op /\ ArgCount(line) = 3
    BY DEF CmdLine, ArgCount
  <2>2. op \in Names /\ ValidateArity(cmdTable[op].arity, 3)
    BY <1>1 DEF Names, ValidateArity, cmdTable, Entry
  <2> QED BY <2>1, <2>2, LawExec
<1>2. \A op : CmdLine(op, <<k>>, <<>>, <<i>>).op = op
  BY DEF CmdLine
<1> QED BY <1>1, <1>2, ExecIs

LEMMA LawSet ==
    ASSUME NEW db, NEW k, NEW v, NEW i
    PROVE  LET line == CmdLine("LSET", <<k>>, <<v>>, <<i>>) IN execNormalCommand(db, line) = execLSet(db, line)
<1>1. ASSUME NEW op \in {"LSET"}
      PROVE  LET line == CmdLine(op, <<k>>, <<v>>, <<i>>) IN execNormalCommand(db, line) = exec(db, line)
  <2> DEFINE line == CmdLine(op, <<k>>, <<v>>, <<i>>)
  <2>1. line.op = op /\ ArgCount(line) = 4
    BY DEF CmdLine, ArgCount
  <2>2. op \in Names /\ ValidateArity(cmdTable[op].arity, 4)
    BY <1>1 DEF Names, ValidateArity, cmdTable, Entry
  <2> QED BY <2>1, <2>2, LawExec
<1>2. \A op : CmdLine(op, <<k>>, <<v>>, <<i>>).op = op
  BY DEF CmdLine
<1> QED BY <1>1, <1>2, ExecIs

LEMMA LawPush ==
    ASSUME NEW db, NEW k, NEW v, NEW w
    PROVE  /\ LET line == CmdLine("LPUSH", <<k>>, <<v, w>>, <<>>) IN execNormalCommand(db, line) = execLPush(db, line)
           /\ LET line == CmdLine("RPUSH", <<k>>, <<v, w>>, <<>>) IN execNormalCommand(db, line) = execRPush(db, line)
<1>1. ASSUME NEW op \in {"LPUSH", "RPUSH"}
      PROVE  LET line == CmdLine(op, <<k>>, <<v, w>>, <<>>) IN execNormalCommand(db, line) = exec(db, line)
  <2> DEFINE line == CmdLine(op, <<k>>, <<v, w>>, <<>>)
  <2>1. line.op = op /\ ArgCount(line) = 4
    BY DEF CmdLine, ArgCount
  <2>2. op \in Names /\ ValidateArity(cmdTable[op].arity, 4)
    BY <1>1 DEF Names, ValidateArity, cmdTable, Entry
  <2> QED BY <2>1, <2>2, LawExec
<1>2. \A op : CmdLine(op, <<k>>, <<v, w>>, <<>>).op = op
  BY DEF CmdLine
<1> QED BY <1>1, <1>2, ExecIs

LEMMA LawPop ==
    ASSUME NEW db, NEW k
    PROVE  /\ LET line == CmdLine("LPOP", <<k>>, <<>>, <<>>) IN execNormalCommand(db, line) = execLPop(db, line)
           /\ LET line == CmdLine("RPOP", <<k>>, <<>>, <<>>) IN execNormalCommand(db, line) = execRPop(db, line)
<1>1. ASSUME NEW op \in {"LPOP", "RPOP"}
      PROVE  LET line == CmdLine(op, <<k>>, <<>>, <<>>) IN execNormalCommand(db, line) = exec(db, line)
  <2> DEFINE line == CmdLine(op, <<k>>, <<>>, <<>>)
  <2>1. line.op = op /\ ArgCount(line) = 2
    BY DEF CmdLine, ArgCount
  <2>2. op \in Names /\ ValidateArity(cmdTable[op].arity, 2)
    BY <1>1 DEF Names, ValidateArity, cmdTable, Entry
  <2> QED BY <2>1, <2>2, LawExec
<1>2. \A op : CmdLine(op, <<k>>, <<>>, <<>>).op = op
  BY DEF CmdLine
<1> QED BY <1>1, <1>2, ExecIs

\* What no write, one write and two writes leave.
LEMMA StoredNone ==
    ASSUME NEW db \in [Keys -> Entities], NEW rep
    PROVE  Stored(db, Reads(rep)) = db
<1>1. Reads(rep).puts = <<>> /\ ~Reads(rep).flush
  BY DEF Reads
<1>2. ASSUME NEW x \in Keys PROVE Stored(db, Reads(rep))[x] = db[x]
  BY <1>1, StoredUntouched
<1>3. Stored(db, Reads(rep)) = [x \in Keys |-> Stored(db, Reads(rep))[x]]
  BY DEF Stored
<1> QED BY <1>2, <1>3

LEMMA StoredOne ==
    ASSUME NEW db \in [Keys -> Entities], NEW rep, NEW k \in Keys, NEW e
    PROVE  Stored(db, Writes(<<Put(k, e)>>, rep)) = [x \in Keys |-> IF x = k THEN e ELSE db[x]]
<1> DEFINE r == Writes(<<Put(k, e)>>, rep)
<1>1. Len(r.puts) = 1 /\ r.puts[1].key = k /\ r.puts[1].entity = e /\ ~r.flush
  BY DEF Writes, Put
<1>2. \A i \in 1 .. 1 : i = 1
  OBVIOUS
<1> HIDE DEF r
<1>3. ASSUME NEW x \in Keys PROVE Stored(db, r)[x] = IF x = k THEN e ELSE db[x]
  <2>1. CASE x # k
    <3>1. \A i \in 1 .. Len(r.puts) : r.puts[i].key # x
      BY <1>1, <1>2, <2>1
    <3> QED BY <1>1, <2>1, <3>1, StoredUntouched
  <2>2. CASE x = k
    <3>1. {i \in 1 .. Len(r.puts) : r.puts[i].key = x} = {1}
      BY <1>1, <1>2, <2>2
    <3>2. LastAt(r.puts, x) = 1
      BY <3>1 DEF LastAt
    <3>3. Stored(db, r)[x] = r.puts[LastAt(r.puts, x)].entity
      BY <3>1, StoredLast
    <3> QED BY <1>1, <2>2, <3>2, <3>3
  <2> QED BY <2>1, <2>2
<1>4. Stored(db, r) = [x \in Keys |-> Stored(db, r)[x]]
  BY DEF Stored
<1> QED BY <1>3, <1>4 DEF r

LEMMA StoredTwo ==
    ASSUME NEW db \in [Keys -> Entities], NEW rep, NEW j \in Keys, NEW k \in Keys, NEW e, NEW f
    PROVE  Stored(db, Writes(<<Put(k, e), Put(j, f)>>, rep))
             = [x \in Keys |-> IF x = j THEN f ELSE IF x = k THEN e ELSE db[x]]
<1> DEFINE r == Writes(<<Put(k, e), Put(j, f)>>, rep)
<1>1. /\ Len(r.puts) = 2 /\ r.puts[1].key = k /\ r.puts[1].entity = e
      /\ r.puts[2].key = j /\ r.puts[2].entity = f /\ ~r.flush
  BY DEF Writes, Put
<1>2. \A i \in 1 .. 2 : i = 1 \/ i = 2
  OBVIOUS
<1> HIDE DEF r
<1>3. ASSUME NEW x \in Keys PROVE Stored(db, r)[x] = IF x = j THEN f ELSE IF x = k THEN e ELSE db[x]
  <2> DEFINE at == {i \in 1 .. Len(r.puts) : r.puts[i].key = x}
  <2>1. CASE x = j
    <3>1. 2 \in at /\ \A i \in at : i <= 2
      BY <1>1, <1>2, <2>1
    <3>2. \A i \in at : (\A m \in at : m <= i) => i = 2
      BY <1>1, <1>2, <3>1
    <3>3. LastAt(r.puts, x) = 2
      <4> HIDE DEF at
      <4> QED BY <3>1, <3>2 DEF LastAt, at
    <3>4. Stored(db, r)[x] = r.puts[LastAt(r.puts, x)].entity
      BY <3>1, StoredLast
    <3> QED BY <1>1, <2>1, <3>3, <3>4
  <2>2. CASE x # j /\ x = k
    <3>1. at = {1}
      BY <1>1, <1>2, <2>2
    <3>2. LastAt(r.puts, x) = 1
      BY <3>1 DEF LastAt
    <3>3. Stored(db, r)[x] = r.puts[LastAt(r.puts, x)].entity
      BY <3>1, StoredLast
    <3> QED BY <1>1, <2>2, <3>2, <3>3
  <2>3. CASE x # j /\ x # k
    <3>1. \A i \in 1 .. Len(r.puts) : r.puts[i].key # x
      BY <1>1, <1>2, <2>3
    <3> QED BY <1>1, <2>3, <3>1, StoredUntouched
  <2> QED BY <2>1, <2>2, <2>3
<1>4. Stored(db, r) = [x \in Keys |-> Stored(db, r)[x]]
  BY DEF Stored
<1> QED BY <1>3, <1>4 DEF r

LEMMA CardinalityTwo ==
    ASSUME NEW S, NEW x, NEW y, x # y, S = {x, y}
    PROVE  Cardinality(S) = 2
<1>1. PICK X : X = {x}
  OBVIOUS
<1>2. IsFiniteSet(X) /\ Cardinality(X) = 1
  BY <1>1, FS_Singleton
<1>3. y \notin X
  BY <1>1
<1>4. Cardinality(X \cup {y}) = 2
  BY <1>2, <1>3, FS_AddElement
<1>5. S = X \cup {y}
  BY <1>1
<1> QED BY <1>4, <1>5

-----------------------------------------------------------------------------
(* The key commands                                                        *)

\* RENAME and RENAMENX on any contents.
LEMMA RenameDoes ==
    ASSUME NEW db \in [Keys -> Entities], NEW j \in Keys, NEW k \in Keys
    PROVE  /\ Run(db, CmdLine("RENAME", <<j, k>>, <<>>, <<>>))
                = IF db[j] = Absent THEN db
                  ELSE [x \in Keys |-> IF x = j THEN Absent ELSE IF x = k THEN db[j] ELSE db[x]]
           /\ Run(db, CmdLine("RENAMENX", <<j, k>>, <<>>, <<>>))
                = IF db[j] = Absent \/ db[k] # Absent THEN db
                  ELSE [x \in Keys |-> IF x = j THEN Absent ELSE IF x = k THEN db[j] ELSE db[x]]
<1> DEFINE line(op) == CmdLine(op, <<j, k>>, <<>>, <<>>)
           moved == [x \in Keys |-> IF x = j THEN Absent ELSE IF x = k THEN db[j] ELSE db[x]]
<1>1. \A op : line(op).keys[1] = j /\ line(op).keys[2] = k
  BY DEF CmdLine
<1>2. \A op : Move(db, line(op)) = <<Put(k, db[j]), Put(j, Absent)>>
  BY <1>1 DEF Move
<1>3. \A op, rep : Stored(db, Writes(Move(db, line(op)), rep)) = moved
  BY <1>2, StoredTwo
<1>4. \A rep : Stored(db, Reads(rep)) = db
  BY StoredNone
<1>5. execNormalCommand(db, line("RENAME")) = execRename(db, line("RENAME"))
      /\ execNormalCommand(db, line("RENAMENX")) = execRenameNX(db, line("RENAMENX"))
  BY LawKeys
<1> HIDE DEF line, moved
<1>6. Run(db, line("RENAME")) = IF db[j] = Absent THEN db ELSE moved
  BY <1>1, <1>3, <1>4, <1>5 DEF Run, execRename, Exists
<1>7. Run(db, line("RENAMENX")) = IF db[j] = Absent \/ db[k] # Absent THEN db ELSE moved
  BY <1>1, <1>3, <1>4, <1>5 DEF Run, execRenameNX, Exists
<1> QED BY <1>6, <1>7 DEF line, moved

LEMMA Renames ==
    ASSUME data \in [Keys -> Entities]
    PROVE  RenameMoves
<1> SUFFICES ASSUME NEW j \in Keys, NEW k \in Keys
             PROVE  LET there == Run(data, CmdLine("RENAME", <<j, k>>, <<>>, <<>>))
                        back == Run(there, CmdLine("RENAME", <<k, j>>, <<>>, <<>>))
                        nx == Run(data, CmdLine("RENAMENX", <<j, k>>, <<>>, <<>>)) IN
                    /\ nx = IF data[k] = Absent THEN there ELSE data
                    /\ j # k /\ data[j] # Absent => back = [data EXCEPT ![k] = Absent]
                    /\ j = k => there = [data EXCEPT ![k] = Absent]
  BY DEF RenameMoves
<1> DEFINE there == Run(data, CmdLine("RENAME", <<j, k>>, <<>>, <<>>))
           back == Run(there, CmdLine("RENAME", <<k, j>>, <<>>, <<>>))
           nx == Run(data, CmdLine("RENAMENX", <<j, k>>, <<>>, <<>>))
<1>1. there = IF data[j] = Absent THEN data
              ELSE [x \in Keys |-> IF x = j THEN Absent ELSE IF x = k THEN data[j] ELSE data[x]]
  BY RenameDoes
<1>2. nx = IF data[j] = Absent \/ data[k] # Absent THEN data
           ELSE [x \in Keys |-> IF x = j THEN Absent ELSE IF x = k THEN data[j] ELSE data[x]]
  BY RenameDoes
<1>3. there \in [Keys -> Entities]
  <2> HIDE DEF there
  <2> QED BY <1>1, EntityFacts
<1>4. back = IF there[k] = Absent THEN there
             ELSE [x \in Keys |-> IF x = k THEN Absent ELSE IF x = j THEN there[k] ELSE there[x]]
  <2> HIDE DEF there
  <2> QED BY <1>3, RenameDoes
<1> HIDE DEF there, back, nx
<1>5. nx = IF data[k] = Absent THEN there ELSE data
  BY <1>1, <1>2
<1>6. ASSUME j # k, data[j] # Absent PROVE back = [data EXCEPT ![k] = Absent]
  <2>1. there = [x \in Keys |-> IF x = j THEN Absent ELSE IF x = k THEN data[j] ELSE data[x]]
    BY <1>1, <1>6
  <2>2. there[k] = data[j] /\ \A x \in Keys : x # j /\ x # k => there[x] = data[x]
    BY <1>6, <2>1
  <2>3. back = [x \in Keys |-> IF x = k THEN Absent ELSE IF x = j THEN there[k] ELSE there[x]]
    BY <1>4, <1>6, <2>2
  <2>4. \A x \in Keys : back[x] = IF x = k THEN Absent ELSE data[x]
    BY <1>6, <2>2, <2>3
  <2> QED BY <2>3, <2>4
<1>7. ASSUME j = k PROVE there = [data EXCEPT ![k] = Absent]
  <2>1. CASE data[j] = Absent
    BY <1>1, <1>7, <2>1
  <2>2. CASE data[j] # Absent
    <3>1. there = [x \in Keys |-> IF x = j THEN Absent ELSE IF x = k THEN data[j] ELSE data[x]]
      BY <1>1, <2>2
    <3> QED BY <1>7, <3>1
  <2> QED BY <2>1, <2>2
<1> QED BY <1>5, <1>6, <1>7 DEF there, back, nx

\* DEL of two arguments: what it answers and what it leaves.
LEMMA DelDoes ==
    ASSUME NEW db \in [Keys -> Entities], NEW j \in Keys, NEW k \in Keys
    PROVE  LET line == CmdLine("DEL", <<j, k>>, <<>>, <<>>) IN
           /\ AnswerTo(db, line) = IntReply(Cardinality(Removed(db, line)))
           /\ Run(db, line) = [x \in Keys |-> IF x \in {j, k} THEN Absent ELSE db[x]]
<1> DEFINE line == CmdLine("DEL", <<j, k>>, <<>>, <<>>)
           R == Removed(db, line)
           n == Cardinality(R)
           puts == [i \in 1 .. n |-> Put(line.keys[Ascending(R)[i]], Absent)]
<1>1. line.keys = <<j, k>> /\ Len(line.keys) = 2 /\ line.keys[1] = j /\ line.keys[2] = k
  BY DEF CmdLine
<1>2. R \in SUBSET (1 .. 2)
  BY <1>1 DEF Removed
<1>3. execNormalCommand(db, line) = execDel(db, line)
  BY LawKeys
<1>4. execDel(db, line) = IF R = {} THEN Reads(IntReply(0)) ELSE Writes(puts, IntReply(n))
  BY DEF execDel
<1>5. n \in Nat /\ Ascending(R) \in [1 .. n -> R]
  BY <1>2, AscendingFacts
<1>6. \A a, b \in 1 .. n : a < b => Ascending(R)[a] < Ascending(R)[b]
  <2>1. \E s \in [1 .. n -> R] : \A a, b \in 1 .. n : a < b => s[a] < s[b]
    BY <1>2, AscendingExists
  <2> QED BY <2>1 DEF Ascending
<1>7. 1 .. 2 = {1, 2} /\ 1 .. 1 = {1} /\ 1 .. 0 = {}
  OBVIOUS
<1>8. (1 \in R <=> db[j] # Absent) /\ (2 \in R <=> db[k] # Absent /\ j # k)
  BY <1>1, <1>7 DEF Removed, Exists
<1> HIDE DEF R, line
<1> DEFINE left == [x \in Keys |-> IF x \in {j, k} THEN Absent ELSE db[x]]
<1>9. CASE R = {}
  <2>1. \A x \in {j, k} : db[x] = Absent
    BY <1>8, <1>9
  <2>2. db = left
    <3>1. \A x \in Keys : db[x] = left[x]
      BY <2>1
    <3> QED BY <3>1
  <2>3. n = 0
    BY <1>9, FS_EmptySet
  <2>4. AnswerTo(db, line) = IntReply(0) /\ Run(db, line) = db
    BY <1>3, <1>4, <1>9, StoredNone DEF Run, AnswerTo, Reads
  <2> QED BY <2>2, <2>3, <2>4 DEF line, R
<1>10. ASSUME NEW a \in {1, 2}, R = {a} PROVE AnswerTo(db, line) = IntReply(n) /\ Run(db, line) = left
  <2>1. n = 1
    BY <1>10, FS_Singleton
  <2>2. Ascending(R)[1] = a
    BY <1>5, <1>10, <2>1
  <2>3. puts = <<Put(line.keys[a], Absent)>>
    <3>1. puts = [i \in 1 .. 1 |-> Put(line.keys[a], Absent)]
      BY <1>7, <2>1, <2>2
    <3> QED BY <3>1
  <2>4. execNormalCommand(db, line) = Writes(puts, IntReply(n))
    BY <1>3, <1>4, <1>10
  <2>5. line.keys[a] \in Keys
    BY <1>1, <1>10
  <2> HIDE DEF puts, n
  <2>6. Run(db, line) = [x \in Keys |-> IF x = line.keys[a] THEN Absent ELSE db[x]]
    BY <2>3, <2>4, <2>5, StoredOne DEF Run
  <2>7. \A x \in Keys : (IF x = line.keys[a] THEN Absent ELSE db[x]) = left[x]
    <3>1. CASE a = 1
      <4>1. db[k] = Absent \/ j = k
        BY <1>8, <1>10, <3>1
      <4> QED BY <1>1, <3>1, <4>1
    <3>2. CASE a = 2
      <4>1. db[j] = Absent
        BY <1>8, <1>10, <3>2
      <4> QED BY <1>1, <3>2, <4>1
    <3> QED BY <1>10, <3>1, <3>2
  <2>8. Run(db, line) = left
    BY <2>6, <2>7
  <2> QED BY <2>4, <2>8 DEF AnswerTo, Writes, n
<1>11. CASE R = {1, 2}
  <2>1. n = 2
    <3>1. 1 # 2
      OBVIOUS
    <3> QED BY <1>11, <3>1, CardinalityTwo, Zenon
  <2>2. Ascending(R)[1] = 1 /\ Ascending(R)[2] = 2
    <3>1. Ascending(R)[1] \in {1, 2} /\ Ascending(R)[2] \in {1, 2} /\ Ascending(R)[1] < Ascending(R)[2]
      BY <1>5, <1>6, <1>11, <2>1
    <3> QED BY <3>1
  <2>3. puts = <<Put(j, Absent), Put(k, Absent)>>
    <3>1. puts = [i \in 1 .. 2 |-> IF i = 1 THEN Put(j, Absent) ELSE Put(k, Absent)]
      BY <1>1, <1>7, <2>1, <2>2
    <3> QED BY <3>1
  <2>4. execNormalCommand(db, line) = Writes(puts, IntReply(n))
    BY <1>3, <1>4, <1>11
  <2> HIDE DEF puts, n
  <2>5. Run(db, line) = [x \in Keys |-> IF x = k THEN Absent ELSE IF x = j THEN Absent ELSE db[x]]
    BY <2>3, <2>4, StoredTwo DEF Run
  <2>6. Run(db, line) = left
    BY <2>5
  <2> QED BY <2>4, <2>6 DEF AnswerTo, Writes, line, R, n
<1>12. R \in SUBSET {1, 2}
  BY <1>2, <1>7
<1>13. R = {} \/ R = {1} \/ R = {2} \/ R = {1, 2}
  BY <1>12
<1> QED BY <1>9, <1>10, <1>11, <1>13 DEF line, R

LEMMA Deletes ==
    ASSUME data \in [Keys -> Entities]
    PROVE  DelCountsKeys
<1> SUFFICES ASSUME NEW j \in Keys, NEW k \in Keys
             PROVE  LET line == CmdLine("DEL", <<j, k>>, <<>>, <<>>) IN
                    /\ AnswerTo(data, line).n
                         = Cardinality({x \in Keys : data[x] # Absent /\ Run(data, line)[x] = Absent})
                    /\ AnswerTo(data, CmdLine("EXIST", <<j, k>>, <<>>, <<>>)).n
                         = AnswerTo(data, line).n + (IF j = k /\ data[j] # Absent THEN 1 ELSE 0)
  BY DEF DelCountsKeys
<1> DEFINE line == CmdLine("DEL", <<j, k>>, <<>>, <<>>)
           R == Removed(data, line)
           E == {i \in 1 .. 2 : Exists(data, <<j, k>>[i])}
           G == {x \in Keys : data[x] # Absent /\ Run(data, line)[x] = Absent}
<1>1. AnswerTo(data, line).n = Cardinality(R)
  <2>1. AnswerTo(data, line) = IntReply(Cardinality(R))
    BY DelDoes
  <2> QED BY <2>1 DEF IntReply, Reply
<1>2. Run(data, line) = [x \in Keys |-> IF x \in {j, k} THEN Absent ELSE data[x]]
  BY DelDoes
<1>3. AnswerTo(data, CmdLine("EXIST", <<j, k>>, <<>>, <<>>)).n = Cardinality(E)
  <2> DEFINE ex == CmdLine("EXIST", <<j, k>>, <<>>, <<>>)
  <2>1. execNormalCommand(data, ex) = execExist(data, ex)
    BY LawKeys
  <2>2. ex.keys = <<j, k>> /\ Len(ex.keys) = 2
    BY DEF CmdLine
  <2> HIDE DEF ex
  <2>3. execExist(data, ex) = Reads(IntReply(Cardinality(E)))
    BY <2>2 DEF execExist
  <2> HIDE DEF E
  <2>4. AnswerTo(data, ex) = IntReply(Cardinality(E))
    BY <2>1, <2>3 DEF AnswerTo, Reads
  <2> QED BY <2>4 DEF IntReply, Reply, ex
<1>4. 1 .. 2 = {1, 2} /\ 1 .. 1 = {1} /\ 1 .. 0 = {}
  OBVIOUS
<1>5. R \subseteq {1, 2} /\ (1 \in R <=> data[j] # Absent) /\ (2 \in R <=> data[k] # Absent /\ j # k)
  <2>1. line.keys = <<j, k>> /\ Len(line.keys) = 2 /\ line.keys[1] = j /\ line.keys[2] = k
    BY DEF CmdLine
  <2> HIDE DEF line
  <2> QED BY <1>4, <2>1 DEF Removed, Exists
<1>6. E \subseteq {1, 2} /\ (1 \in E <=> data[j] # Absent) /\ (2 \in E <=> data[k] # Absent)
  BY <1>4 DEF Exists
<1>7. G \subseteq {j, k} /\ (j \in G <=> data[j] # Absent) /\ (k \in G <=> data[k] # Absent)
  BY <1>2
<1> HIDE DEF R, E, G
<1>8. Cardinality({}) = 0 /\ \A x : Cardinality({x}) = 1
  BY FS_EmptySet, FS_Singleton
<1>9. CASE data[j] = Absent /\ data[k] = Absent
  <2>1. R = {} /\ E = {} /\ G = {}
    BY <1>5, <1>6, <1>7, <1>9
  <2>2. Cardinality(R) = 0 /\ Cardinality(E) = 0 /\ Cardinality(G) = 0
    BY <1>8, <2>1
  <2> QED BY <1>1, <1>3, <1>9, <2>2 DEF G
<1>10. CASE data[j] # Absent /\ data[k] = Absent
  <2>1. R = {1} /\ E = {1} /\ G = {j}
    BY <1>5, <1>6, <1>7, <1>10
  <2>2. Cardinality(R) = 1 /\ Cardinality(E) = 1 /\ Cardinality(G) = 1
    BY <1>8, <2>1
  <2> QED BY <1>1, <1>3, <1>10, <2>2 DEF G
<1>11. CASE data[j] = Absent /\ data[k] # Absent
  <2>1. R = {2} /\ E = {2} /\ G = {k}
    BY <1>5, <1>6, <1>7, <1>11
  <2>2. Cardinality(R) = 1 /\ Cardinality(E) = 1 /\ Cardinality(G) = 1
    BY <1>8, <2>1
  <2> QED BY <1>1, <1>3, <1>11, <2>2 DEF G
<1>12. CASE data[j] # Absent /\ data[k] # Absent /\ j # k
  <2>1. R = {1, 2} /\ E = {1, 2} /\ G = {j, k}
    BY <1>5, <1>6, <1>7, <1>12
  <2>2. Cardinality(R) = 2 /\ Cardinality(E) = 2 /\ Cardinality(G) = 2
    <3>1. 1 # 2
      OBVIOUS
    <3> QED BY <1>12, <2>1, <3>1, CardinalityTwo, Zenon
  <2> QED BY <1>1, <1>3, <1>12, <2>2 DEF G
<1>13. CASE data[j] # Absent /\ j = k
  <2>1. R = {1} /\ E = {1, 2} /\ G = {j}
    BY <1>5, <1>6, <1>7, <1>13
  <2>2. Cardinality(R) = 1 /\ Cardinality(G) = 1
    BY <1>8, <2>1
  <2>3. Cardinality(E) = 2
    <3>1. 1 # 2
      OBVIOUS
    <3> QED BY <2>1, <3>1, CardinalityTwo, Zenon
  <2> QED BY <1>1, <1>3, <1>13, <2>2, <2>3 DEF G
<1> QED BY <1>9, <1>10, <1>11, <1>12, <1>13

\* For any keys, clients and commands, on all the contents that commands,
\* replays and restarts can leave: DEL and EXIST answer what they do, and
\* RENAME and RENAMENX move whatever the key holds.
THEOREM KeyCommands == Spec => []KeyLaws
<1>1. BootInv => KeyLaws
  <2> SUFFICES ASSUME BootInv PROVE KeyLaws
    OBVIOUS
  <2>1. data \in [Keys -> Entities]
    BY DEF BootInv, BootTypes
  <2> QED BY <2>1, Renames, Deletes DEF KeyLaws
<1>2. BootInv /\ [Next]_vars => BootInv'
  BY BootNext
<1> QED BY <1>1, <1>2, BootInit, PTL DEF Spec
-----------------------------------------------------------------------------
(* The list commands: indices                                              *)

\* What a key that holds no string holds.
LEMMA ListEntity ==
    ASSUME NEW e \in Entities, e.type # "string"
    PROVE  /\ e.val \in Seq(Values)
           /\ e # Absent <=> e.type = "list"
           /\ e = Absent => e.val = <<>>
           /\ e.type = "list" => e = List(e.val)
<1>1. CASE e = Absent
  <2>1. e.val = <<>> /\ e.type = "none"
    BY <1>1 DEF Absent
  <2> QED BY <1>1, <2>1
<1>2. CASE e \in [type : {"string", "list"}, val : Seq(Values)]
  <2>1. e.type = "list" /\ e.val \in Seq(Values)
    BY <1>2
  <2>2. e = [type |-> "list", val |-> e.val]
    BY <1>2, <2>1
  <2>3. e # Absent
    BY <2>1 DEF Absent
  <2> QED BY <2>1, <2>2, <2>3 DEF List
<1> QED BY <1>1, <1>2 DEF Entities

LEMMA ListIs ==
    ASSUME NEW l
    PROVE  List(l).type = "list" /\ List(l).val = l /\ List(l) # Absent
  BY DEF List, Absent

\* The two walks of LINDEX and LSET end at the same element.
LEMMA PositionIs ==
    ASSUME NEW i \in Int, NEW size \in Nat
    PROVE  /\ FromEnd(i, size) \in Int
           /\ InRange(i, size) => /\ Position(FromEnd(i, size), size) = FromEnd(i, size) + 1
                                  /\ FromEnd(i, size) + 1 \in 1 .. size
<1>1. FromEnd(i, size) \in Int
  BY DEF FromEnd
<1>2. ASSUME NEW f \in Int, f >= 0, f < size
      PROVE  Position(f, size) = f + 1 /\ f + 1 \in 1 .. size
  BY <1>2 DEF Position
<1> QED BY <1>1, <1>2 DEF InRange

\* The elements between two zero-based positions.
Between(l, b) == IF b[1] > b[2] THEN <<>> ELSE SubSeq(l, b[1] + 1, b[2] + 1)

LEMMA ClampedFacts ==
    ASSUME NEW i \in Int, NEW n \in Int, NEW size \in Nat
    PROVE  LET b == Clamped(i, n, size) IN
           /\ b[1] \in Nat /\ b[2] \in Int /\ b[2] < size
           /\ b[1] = IF FromEnd(i, size) < 0 THEN 0 ELSE FromEnd(i, size)
           /\ b[2] = IF FromEnd(n, size) >= size THEN size - 1 ELSE FromEnd(n, size)
  BY DEF Clamped, FromEnd

LEMMA RangeIs ==
    ASSUME NEW db \in [Keys -> Entities], NEW k \in Keys, db[k].type # "string",
           NEW i \in Int, NEW n \in Int
    PROVE  AnswerTo(db, CmdLine("LRANGE", <<k>>, <<>>, <<i, n>>)).vals
             = Between(db[k].val, Clamped(i, n, Len(db[k].val)))
<1> DEFINE line == CmdLine("LRANGE", <<k>>, <<>>, <<i, n>>)
           l == db[k].val
           b == Clamped(i, n, Len(l))
<1>1. execNormalCommand(db, line) = execLRange(db, line)
  BY LawRange
<1>2. Key(line) = k /\ line.nums[1] = i /\ line.nums[2] = n
  BY DEF CmdLine, Key
<1>3. /\ l \in Seq(Values) /\ (db[k] # Absent <=> db[k].type = "list")
      /\ (db[k] = Absent => l = <<>>)
  BY ListEntity
<1>4. NotInt \notin {i, n}
  BY NotIntAssumption
<1> HIDE DEF line
<1>5. execLRange(db, line) = IF db[k] = Absent \/ b[1] > b[2] THEN Reads(MultiBulk(<<>>))
                             ELSE Reads(MultiBulk(SubSeq(l, b[1] + 1, b[2] + 1)))
  BY <1>2, <1>3, <1>4 DEF execLRange, Listed, Exists, BadType, IsList
<1>6. \A v : Reads(MultiBulk(v)).reply.vals = v
  BY DEF Reads, MultiBulk, Reply
<1>7. db[k] = Absent => b[1] > b[2]
  <2> SUFFICES ASSUME db[k] = Absent PROVE b[1] > b[2]
    OBVIOUS
  <2>1. Len(l) = 0
    BY <1>3
  <2> QED BY <2>1, ClampedFacts
<1> HIDE DEF b, l
<1>8. AnswerTo(db, line).vals = Between(l, b)
  BY <1>1, <1>5, <1>6, <1>7 DEF AnswerTo, Between
<1> QED BY <1>8 DEF line, l, b

LEMMA IndexIs ==
    ASSUME NEW db \in [Keys -> Entities], NEW k \in Keys, db[k].type # "string", NEW i \in Int
    PROVE  LET l == db[k].val IN
           AnswerTo(db, CmdLine("LINDEX", <<k>>, <<>>, <<i>>))
             = IF InRange(i, Len(l)) THEN Bulk(l[FromEnd(i, Len(l)) + 1]) ELSE NullBulk
<1> DEFINE line == CmdLine("LINDEX", <<k>>, <<>>, <<i>>)
           l == db[k].val
<1>1. execNormalCommand(db, line) = execLIndex(db, line)
  BY LawIndex
<1>2. Key(line) = k /\ line.nums[1] = i
  BY DEF CmdLine, Key
<1>3. /\ l \in Seq(Values) /\ (db[k] # Absent <=> db[k].type = "list")
      /\ (db[k] = Absent => l = <<>>)
  BY ListEntity
<1>4. i # NotInt
  BY NotIntAssumption
<1>5. Len(l) \in Nat
  BY <1>3
<1>6. db[k] = Absent => ~InRange(i, Len(l))
  <2>1. l = <<>> => Len(l) = 0
    OBVIOUS
  <2> QED BY <1>3, <1>5, <2>1 DEF InRange, FromEnd
<1> HIDE DEF line
<1>7. execLIndex(db, line)
        = IF InRange(i, Len(l)) THEN Reads(Bulk(l[Position(FromEnd(i, Len(l)), Len(l))])) ELSE Reads(NullBulk)
  BY <1>2, <1>3, <1>4, <1>6 DEF execLIndex, Listed, Exists, BadType, IsList
<1>8. \A v : Reads(v).reply = v
  BY DEF Reads
<1> HIDE DEF l
<1>9. AnswerTo(db, line) = IF InRange(i, Len(l)) THEN Bulk(l[FromEnd(i, Len(l)) + 1]) ELSE NullBulk
  BY <1>1, <1>5, <1>7, <1>8, PositionIs DEF AnswerTo
<1> QED BY <1>9 DEF line, l

LEMMA SubSeqIs ==
    ASSUME NEW l \in Seq(Values), NEW a \in 1 .. Len(l), NEW c \in 1 .. Len(l), a <= c
    PROVE  SubSeq(l, a, c) = [m \in 1 .. (c - a + 1) |-> l[a + m - 1]]
<1> DEFINE s == SubSeq(l, a, c)
<1>1. a \in Int /\ c \in Int /\ \A m \in a .. c : l[m] \in Values
  OBVIOUS
<1>2. s \in Seq(Values) /\ Len(s) = c - a + 1 /\ \A m \in 1 .. c - a + 1 : s[m] = l[a + m - 1]
  BY <1>1, SubSeqProperties
<1> HIDE DEF s
<1>3. s = [m \in 1 .. Len(s) |-> s[m]]
  BY <1>2
<1> QED BY <1>2, <1>3 DEF s

\* The reference for LRANGE, computed.
LEMMA SliceIs ==
    ASSUME NEW l \in Seq(Values), NEW i \in Int, NEW n \in Int
    PROVE  Slice(l, i, n) = Between(l, Clamped(i, n, Len(l)))
<1> DEFINE size == Len(l)
           b == Clamped(i, n, size)
           inside == {p \in 1 .. size : FromEnd(i, size) <= p - 1 /\ p - 1 <= FromEnd(n, size)}
           first == CHOOSE p \in inside : \A q \in inside : p <= q
<1>1. Slice(l, i, n) = [m \in 1 .. Cardinality(inside) |-> l[first + m - 1]]
  BY DEF Slice, FromEnd
<1>2. size \in Nat
  OBVIOUS
<1>3. /\ b[1] \in Nat /\ b[2] \in Int /\ b[2] < size
      /\ b[1] = IF FromEnd(i, size) < 0 THEN 0 ELSE FromEnd(i, size)
      /\ b[2] = IF FromEnd(n, size) >= size THEN size - 1 ELSE FromEnd(n, size)
  BY <1>2, ClampedFacts
<1>4. FromEnd(i, size) \in Int /\ FromEnd(n, size) \in Int
  BY <1>2, PositionIs
<1> HIDE DEF size, b
<1>5. inside = (b[1] + 1) .. (b[2] + 1)
  <2>1. ASSUME NEW p \in 1 .. size
        PROVE  FromEnd(i, size) <= p - 1 /\ p - 1 <= FromEnd(n, size) <=> b[1] + 1 <= p /\ p <= b[2] + 1
    BY <1>2, <1>3, <1>4
  <2>2. \A p : p \in (b[1] + 1) .. (b[2] + 1) => p \in 1 .. size
    BY <1>2, <1>3
  <2>3. \A p \in 1 .. size : p \in inside <=> p \in (b[1] + 1) .. (b[2] + 1)
    <3>1. PICK x \in Nat, y \in Int : x = b[1] /\ y = b[2]
      BY <1>3
    <3>2. \A p \in 1 .. size : p \in inside <=> x + 1 <= p /\ p <= y + 1
      BY <2>1, <3>1
    <3>3. \A p \in 1 .. size : p \in (x + 1) .. (y + 1) <=> x + 1 <= p /\ p <= y + 1
      OBVIOUS
    <3> HIDE DEF inside
    <3> QED BY <3>1, <3>2, <3>3
  <2>4. \A p \in inside : p \in 1 .. size
    OBVIOUS
  <2> HIDE DEF inside
  <2> QED BY <2>2, <2>3, <2>4
<1>6. Cardinality(inside) = IF b[1] + 1 > b[2] + 1 THEN 0 ELSE b[2] + 1 - (b[1] + 1) + 1
  <2> HIDE DEF inside
  <2>1. b[1] + 1 \in Int /\ b[2] + 1 \in Int
    BY <1>3
  <2>2. PICK x \in Int, y \in Int : x = b[1] + 1 /\ y = b[2] + 1
    BY <2>1
  <2>3. Cardinality(x .. y) = IF x > y THEN 0 ELSE y - x + 1
    BY FS_Interval
  <2>4. inside = x .. y
    BY <1>5, <2>2
  <2>5. Cardinality(inside) = IF x > y THEN 0 ELSE y - x + 1
    BY <2>3, <2>4, Zenon
  <2> QED BY <1>3, <2>1, <2>2, <2>5
<1> HIDE DEF inside
<1>7. CASE b[1] > b[2]
  <2>1. Cardinality(inside) = 0
    BY <1>3, <1>6, <1>7
  <2>2. Slice(l, i, n) = <<>>
    BY <1>1, <2>1
  <2> QED BY <1>7, <2>2 DEF Between, b, size
<1>8. CASE ~ (b[1] > b[2])
  <2>1. Cardinality(inside) = b[2] - b[1] + 1
    BY <1>3, <1>6, <1>8
  <2>2. b[1] + 1 \in inside /\ \A q \in inside : b[1] + 1 <= q /\ q \in Int
    BY <1>3, <1>5, <1>8
  <2>3. \A p \in inside : (\A q \in inside : p <= q) => p = b[1] + 1
    BY <1>3, <2>2
  <2>4. first = b[1] + 1
    BY <2>2, <2>3
  <2> HIDE DEF first
  <2>5. Slice(l, i, n) = [m \in 1 .. (b[2] - b[1] + 1) |-> l[b[1] + 1 + m - 1]]
    BY <1>1, <2>1, <2>4
  <2>6. PICK x \in 1 .. Len(l), y \in 1 .. Len(l) : x = b[1] + 1 /\ y = b[2] + 1 /\ x <= y
    BY <1>2, <1>3, <1>8 DEF size
  <2>7. SubSeq(l, x, y) = [m \in 1 .. (y - x + 1) |-> l[x + m - 1]]
    BY <2>6, SubSeqIs
  <2>8. b[2] - b[1] + 1 = y - x + 1
    <3>1. PICK p \in Int, q \in Int : p = b[1] /\ q = b[2]
      BY <1>3
    <3>2. x = p + 1 /\ y = q + 1
      BY <2>6, <3>1, Zenon
    <3>3. q - p + 1 = y - x + 1
      BY <3>2
    <3> QED BY <3>1, <3>3, Zenon
  <2>9. Slice(l, i, n) = SubSeq(l, x, y)
    BY <2>5, <2>6, <2>7, <2>8
  <2> QED BY <1>8, <2>6, <2>9 DEF Between, b, size
<1> QED BY <1>7, <1>8

\* An index to itself.
LEMMA BetweenOne ==
    ASSUME NEW l \in Seq(Values), NEW i \in Int
    PROVE  LET f == FromEnd(i, Len(l)) IN
           Between(l, Clamped(i, i, Len(l))) = IF InRange(i, Len(l)) THEN <<l[f + 1]>> ELSE <<>>
<1> DEFINE size == Len(l)
           f == FromEnd(i, size)
           b == Clamped(i, i, size)
<1>1. size \in Nat /\ f \in Int
  <2>1. size \in Nat
    OBVIOUS
  <2> HIDE DEF size
  <2> QED BY <2>1, PositionIs
<1>2. /\ b[1] = IF f < 0 THEN 0 ELSE f
      /\ b[2] = IF f >= size THEN size - 1 ELSE f
  BY <1>1, ClampedFacts
<1> HIDE DEF size, b, f
<1>3. CASE f >= 0 /\ f < size
  <2>1. b[1] = f /\ b[2] = f /\ ~ (b[1] > b[2])
    BY <1>1, <1>2, <1>3
  <2>2. SubSeq(l, f + 1, f + 1) = <<l[f + 1]>>
    <3>1. f + 1 \in 1 .. Len(l)
      BY <1>1, <1>3 DEF size
    <3>2. PICK x \in 1 .. Len(l) : x = f + 1
      BY <3>1
    <3>3. SubSeq(l, x, x) = [m \in 1 .. (x - x + 1) |-> l[x + m - 1]]
      BY SubSeqIs
    <3>4. x - x + 1 = 1 /\ \A m \in 1 .. 1 : x + m - 1 = x
      OBVIOUS
    <3>5. SubSeq(l, x, x) = [m \in 1 .. 1 |-> l[x]]
      BY <3>3, <3>4
    <3>6. [m \in 1 .. 1 |-> l[x]] = <<l[x]>>
      OBVIOUS
    <3> QED BY <3>2, <3>5, <3>6
  <2>3. InRange(i, size)
    BY <1>3 DEF InRange, f
  <2> QED BY <2>1, <2>2, <2>3 DEF Between, b, f, size
<1>4. CASE ~ (f >= 0 /\ f < size)
  <2>1. b[1] > b[2]
    BY <1>1, <1>2, <1>4
  <2>2. ~InRange(i, size)
    BY <1>4 DEF InRange, f
  <2> QED BY <2>1, <2>2 DEF Between, b, size
<1> QED BY <1>3, <1>4

LEMMA RangesAgree ==
    ASSUME data \in [Keys -> Entities]
    PROVE  RangeAndIndexAgree
<1> SUFFICES ASSUME NEW k \in Keys, data[k].type # "string", NEW i \in Indices
             PROVE  /\ \A j \in Indices : AnswerTo(data, CmdLine("LRANGE", <<k>>, <<>>, <<i, j>>)).vals
                                            = Slice(data[k].val, i, j)
                    /\ AnswerTo(data, CmdLine("LINDEX", <<k>>, <<>>, <<i>>)).vals
                         = AnswerTo(data, CmdLine("LRANGE", <<k>>, <<>>, <<i, i>>)).vals
  BY DEF RangeAndIndexAgree
<1> DEFINE l == data[k].val
<1>1. l \in Seq(Values)
  BY ListEntity
<1>2. i \in Int /\ \A j \in Indices : j \in Int
  BY IndicesAssumption
<1>3. \A j \in Indices : AnswerTo(data, CmdLine("LRANGE", <<k>>, <<>>, <<i, j>>)).vals
                           = Between(l, Clamped(i, j, Len(l)))
  BY <1>2, RangeIs
<1>4. AnswerTo(data, CmdLine("LINDEX", <<k>>, <<>>, <<i>>))
        = IF InRange(i, Len(l)) THEN Bulk(l[FromEnd(i, Len(l)) + 1]) ELSE NullBulk
  BY <1>2, IndexIs
<1> HIDE DEF l
<1>5. \A j \in Indices : AnswerTo(data, CmdLine("LRANGE", <<k>>, <<>>, <<i, j>>)).vals = Slice(l, i, j)
  BY <1>1, <1>2, <1>3, SliceIs
<1>6. NullBulk.vals = <<>> /\ \A v : Bulk(v).vals = <<v>>
  BY DEF NullBulk, Bulk, Reply
<1>7. AnswerTo(data, CmdLine("LINDEX", <<k>>, <<>>, <<i>>)).vals = Between(l, Clamped(i, i, Len(l)))
  BY <1>1, <1>2, <1>4, <1>6, BetweenOne
<1> QED BY <1>3, <1>5, <1>7 DEF l
\* LSET answers Ok exactly when it has written the element that the index
\* stands for.
LEMMA LSetIs ==
    ASSUME NEW db \in [Keys -> Entities], NEW k \in Keys, NEW v \in Values, NEW i \in Int
    PROVE  LET line == CmdLine("LSET", <<k>>, <<v>>, <<i>>)
               l == db[k].val
           IN  /\ AnswerTo(db, line) # Ok => Run(db, line) = db
               /\ AnswerTo(db, line) = Ok =>
                     /\ db[k].type = "list" /\ InRange(i, Len(l))
                     /\ Run(db, line) = [x \in Keys |-> IF x = k THEN List([l EXCEPT ![FromEnd(i, Len(l)) + 1] = v])
                                                       ELSE db[x]]
<1> DEFINE line == CmdLine("LSET", <<k>>, <<v>>, <<i>>)
           l == db[k].val
           f == FromEnd(i, Len(l))
           put == List([l EXCEPT ![f + 1] = v])
<1>1. execNormalCommand(db, line) = execLSet(db, line)
  BY LawSet
<1>2. Key(line) = k /\ line.nums[1] = i /\ line.vals[1] = v
  BY DEF CmdLine, Key
<1>3. l \in Seq(Values) /\ Len(l) \in Nat
  BY EntityVal
<1>4. i # NotInt
  BY NotIntAssumption
<1>5. InRange(i, Len(l)) => Position(f, Len(l)) = f + 1
  BY <1>3, PositionIs
<1> HIDE DEF line, f
<1>6. execLSet(db, line)
        = IF db[k] = Absent THEN Reads(Reply("nosuchkey"))
          ELSE IF db[k].type # "list" THEN Reads(WrongType)
          ELSE IF ~InRange(i, Len(l)) THEN Reads(Reply("outofrange"))
          ELSE Writes(<<Put(k, put)>>, Ok)
  BY <1>2, <1>4, <1>5 DEF execLSet, Listed, Exists, BadType, IsList, f
<1>7. \A rep : Stored(db, Reads(rep)) = db
  BY StoredNone
<1>8. /\ Reads(Reply("nosuchkey")).reply # Ok /\ Reads(WrongType).reply # Ok
      /\ Reads(Reply("outofrange")).reply # Ok
  BY DEF Reads, Reply, WrongType, Ok
<1>9. Writes(<<Put(k, put)>>, Ok).reply = Ok
  BY DEF Writes
<1>10. Stored(db, Writes(<<Put(k, put)>>, Ok)) = [x \in Keys |-> IF x = k THEN put ELSE db[x]]
  BY StoredOne
<1> HIDE DEF put, l
<1>11. AnswerTo(db, line) = Ok =>
          db[k].type = "list" /\ InRange(i, Len(l)) /\ execNormalCommand(db, line) = Writes(<<Put(k, put)>>, Ok)
  BY <1>1, <1>6, <1>8 DEF AnswerTo
<1>12. AnswerTo(db, line) # Ok => \E rep : execNormalCommand(db, line) = Reads(rep)
  BY <1>1, <1>6, <1>9 DEF AnswerTo
<1>13. AnswerTo(db, line) # Ok => Run(db, line) = db
  BY <1>7, <1>12 DEF Run
<1>14. AnswerTo(db, line) = Ok =>
          /\ db[k].type = "list" /\ InRange(i, Len(l))
          /\ Run(db, line) = [x \in Keys |-> IF x = k THEN put ELSE db[x]]
  BY <1>10, <1>11 DEF Run
<1> QED BY <1>13, <1>14 DEF line, l, f, put

LEMMA SetsOne ==
    ASSUME data \in [Keys -> Entities]
    PROVE  LSetChangesOne
<1> SUFFICES ASSUME NEW k \in Keys, NEW i \in Indices, NEW v \in Values
             PROVE  LET line == CmdLine("LSET", <<k>>, <<v>>, <<i>>)
                        after == Run(data, line)
                        at == IF i < 0 THEN Len(data[k].val) + i + 1 ELSE i + 1
                    IN  IF AnswerTo(data, line) = Ok
                          THEN /\ AnswerTo(data, CmdLine("LINDEX", <<k>>, <<>>, <<i>>)).kind = "bulk"
                               /\ AnswerTo(after, CmdLine("LINDEX", <<k>>, <<>>, <<i>>)) = Bulk(v)
                               /\ Len(after[k].val) = Len(data[k].val)
                               /\ \A p \in 1 .. Len(data[k].val) : p # at => after[k].val[p] = data[k].val[p]
                          ELSE after = data
  BY DEF LSetChangesOne
<1> DEFINE line == CmdLine("LSET", <<k>>, <<v>>, <<i>>)
           after == Run(data, line)
           at == IF i < 0 THEN Len(data[k].val) + i + 1 ELSE i + 1
           l == data[k].val
           f == FromEnd(i, Len(l))
           m == [l EXCEPT ![f + 1] = v]
<1>1. i \in Int
  BY IndicesAssumption
<1>2. l \in Seq(Values) /\ Len(l) \in Nat
  BY EntityVal
<1>3. f + 1 = at
  BY <1>1, <1>2 DEF FromEnd
<1>4. /\ AnswerTo(data, line) # Ok => after = data
      /\ AnswerTo(data, line) = Ok =>
            /\ data[k].type = "list" /\ InRange(i, Len(l))
            /\ after = [x \in Keys |-> IF x = k THEN List(m) ELSE data[x]]
  BY <1>1, LSetIs, SMTT(30)
<1>5. ASSUME AnswerTo(data, line) = Ok
      PROVE  /\ AnswerTo(data, CmdLine("LINDEX", <<k>>, <<>>, <<i>>)).kind = "bulk"
             /\ AnswerTo(after, CmdLine("LINDEX", <<k>>, <<>>, <<i>>)) = Bulk(v)
             /\ Len(after[k].val) = Len(data[k].val)
             /\ \A p \in 1 .. Len(data[k].val) : p # at => after[k].val[p] = data[k].val[p]
  <2>1. /\ data[k].type = "list" /\ InRange(i, Len(l))
        /\ after = [x \in Keys |-> IF x = k THEN List(m) ELSE data[x]]
    BY <1>4, <1>5
  <2> HIDE DEF after, line
  <2>2. f + 1 \in 1 .. Len(l)
    BY <1>1, <1>2, <2>1, PositionIs
  <2> HIDE DEF f
  <2>3. m \in Seq(Values) /\ Len(m) = Len(l) /\ m[f + 1] = v /\ \A p \in 1 .. Len(l) : p # f + 1 => m[p] = l[p]
    <3>1. PICK x \in 1 .. Len(l) : x = f + 1
      BY <2>2
    <3>2. m = [l EXCEPT ![x] = v]
      BY <3>1
    <3> QED BY <1>2, <3>1, <3>2
  <2> HIDE DEF m
  <2>4. after \in [Keys -> Entities] /\ after[k] = List(m)
    <3>1. List(m) \in Entities
      BY <2>3, EntityFacts
    <3> QED BY <2>1, <3>1
  <2>5. after[k].val = m /\ after[k].type = "list"
    BY <2>4, ListIs
  <2>6. AnswerTo(data, CmdLine("LINDEX", <<k>>, <<>>, <<i>>)) = Bulk(l[f + 1])
    BY <1>1, <2>1, IndexIs DEF f
  <2>7. AnswerTo(after, CmdLine("LINDEX", <<k>>, <<>>, <<i>>)) = Bulk(v)
    <3>1. AnswerTo(after, CmdLine("LINDEX", <<k>>, <<>>, <<i>>))
            = IF InRange(i, Len(m)) THEN Bulk(m[FromEnd(i, Len(m)) + 1]) ELSE NullBulk
      BY <1>1, <2>4, <2>5, IndexIs
    <3> QED BY <2>1, <2>3, <3>1 DEF f
  <2>8. \A x : Bulk(x).kind = "bulk"
    BY DEF Bulk, Reply
  <2> QED BY <1>3, <2>3, <2>5, <2>6, <2>7, <2>8
<1> QED BY <1>4, <1>5
-----------------------------------------------------------------------------
(* The list commands: both ends                                            *)

LEMMA SameElements ==
    ASSUME NEW s \in Seq(Values), NEW t \in Seq(Values), Len(s) = Len(t),
           \A i \in 1 .. Len(s) : s[i] = t[i]
    PROVE  s = t
<1>1. s = [i \in 1 .. Len(s) |-> s[i]] /\ t = [i \in 1 .. Len(t) |-> t[i]]
  OBVIOUS
<1> QED BY <1>1

\* What is at the ends of a list with one value more.
LEMMA EndsOf ==
    ASSUME NEW l \in Seq(Values), NEW v \in Values
    PROVE  /\ <<v>> \o l \in Seq(Values) /\ l \o <<v>> \in Seq(Values)
           /\ Len(<<v>> \o l) = Len(l) + 1 /\ Len(l \o <<v>>) = Len(l) + 1
           /\ (<<v>> \o l)[1] = v /\ Tail(<<v>> \o l) = l
           /\ (l \o <<v>>)[Len(l) + 1] = v /\ SubSeq(l \o <<v>>, 1, Len(l)) = l
<1> DEFINE a == <<v>> \o l
           b == l \o <<v>>
<1>1. Len(l) \in Nat /\ <<v>> \in Seq(Values) /\ Len(<<v>>) = 1 /\ <<v>>[1] = v
  OBVIOUS
<1>2. a \in Seq(Values) /\ b \in Seq(Values) /\ Len(a) = Len(l) + 1 /\ Len(b) = Len(l) + 1
  BY <1>1
<1>3. a[1] = v /\ b[Len(l) + 1] = v /\ \A i \in 1 .. Len(l) : a[i + 1] = l[i] /\ b[i] = l[i]
  BY <1>1
<1> HIDE DEF a, b
<1>4. Tail(a) = l
  <2>1. Tail(a) \in Seq(Values) /\ Len(Tail(a)) = Len(l) /\ \A i \in 1 .. Len(l) : Tail(a)[i] = a[i + 1]
    BY <1>1, <1>2
  <2> QED BY <1>3, <2>1, SameElements
<1>5. SubSeq(b, 1, Len(l)) = l
  <2>1. \A i \in 1 .. Len(l) : b[i] \in Values
    BY <1>1, <1>2
  <2>2. /\ SubSeq(b, 1, Len(l)) \in Seq(Values)
        /\ Len(SubSeq(b, 1, Len(l))) = IF 1 <= Len(l) THEN Len(l) - 1 + 1 ELSE 0
        /\ \A i \in 1 .. Len(l) - 1 + 1 : SubSeq(b, 1, Len(l))[i] = b[1 + i - 1]
    BY <1>1, <2>1, SubSeqProperties
  <2> DEFINE t == SubSeq(b, 1, Len(l))
  <2> HIDE DEF t
  <2>3. t \in Seq(Values) /\ Len(t) = Len(l) /\ \A i \in 1 .. Len(l) : t[i] = b[i]
    BY <1>1, <2>2 DEF t
  <2>4. t = l
    BY <1>3, <2>3, SameElements
  <2> QED BY <2>4 DEF t
<1> QED BY <1>2, <1>3, <1>4, <1>5 DEF a, b

\* A push of two values.
AtFront(v, w, l) == <<w>> \o (<<v>> \o l)
AtBack(v, w, l) == (l \o <<v>>) \o <<w>>
Pushed(op, db, k, v, w) == Run(db, CmdLine(op, <<k>>, <<v, w>>, <<>>))

LEMMA PushIs ==
    ASSUME NEW db \in [Keys -> Entities], NEW k \in Keys, db[k].type # "string",
           NEW v \in Values, NEW w \in Values
    PROVE  /\ LET r == Pushed("LPUSH", db, k, v, w) IN
              /\ r = [x \in Keys |-> r[x]] /\ \A x \in Keys : x # k => r[x] = db[x]
              /\ r[k] = List(AtFront(v, w, db[k].val))
           /\ LET r == Pushed("RPUSH", db, k, v, w) IN
              /\ r = [x \in Keys |-> r[x]] /\ \A x \in Keys : x # k => r[x] = db[x]
              /\ r[k] = List(AtBack(v, w, db[k].val))
<1> DEFINE line(op) == CmdLine(op, <<k>>, <<v, w>>, <<>>)
           l == db[k].val
<1>1. /\ execNormalCommand(db, line("LPUSH")) = execLPush(db, line("LPUSH"))
      /\ execNormalCommand(db, line("RPUSH")) = execRPush(db, line("RPUSH"))
  BY LawPush
<1>2. \A op : Key(line(op)) = k /\ line(op).vals = <<v, w>>
  BY DEF CmdLine, Key
<1>3. l \in Seq(Values) /\ (db[k] # Absent <=> db[k].type = "list")
  BY ListEntity
<1> HIDE DEF line
<1>4. \A op : ~BadType(db, line(op)) /\ Listed(db, line(op)) = l
  BY <1>2, <1>3 DEF BadType, Exists, IsList, Listed
<1> HIDE DEF l
<1>5. PushFront(<<v, w>>, l) = <<w>> \o (<<v>> \o l)
  <2> DEFINE rev == [i \in 1 .. Len(<<v, w>>) |-> <<v, w>>[Len(<<v, w>>) + 1 - i]]
  <2>1. rev = <<w, v>>
    <3>1. Len(<<v, w>>) = 2 /\ 1 .. 2 = {1, 2}
      OBVIOUS
    <3>2. rev[1] = w /\ rev[2] = v /\ DOMAIN rev = 1 .. 2
      BY <3>1
    <3> HIDE DEF rev
    <3>3. rev = [i \in 1 .. 2 |-> IF i = 1 THEN w ELSE v]
      <4>1. rev = [i \in 1 .. 2 |-> rev[i]]
        BY <3>2 DEF rev
      <4> QED BY <3>1, <3>2, <4>1
    <3> QED BY <3>3
  <2>2. <<w, v>> \o l = <<w>> \o (<<v>> \o l)
    <3> DEFINE s == <<w, v>> \o l
               t == <<v>> \o l
               u == <<w>> \o t
    <3>1. s \in Seq(Values) /\ Len(s) = Len(l) + 2 /\ Len(l) \in Nat
      BY <1>3
    <3>2. t \in Seq(Values) /\ Len(t) = Len(l) + 1 /\ t[1] = v /\ \A i \in 2 .. Len(l) + 1 : t[i] = l[i - 1]
      BY <1>3
    <3>3. s[1] = w /\ s[2] = v /\ \A i \in 3 .. Len(l) + 2 : s[i] = l[i - 2]
      BY <1>3
    <3> HIDE DEF s, t
    <3>4. u \in Seq(Values) /\ Len(u) = Len(l) + 2 /\ u[1] = w /\ \A i \in 2 .. Len(l) + 2 : u[i] = t[i - 1]
      BY <3>1, <3>2
    <3> HIDE DEF u
    <3>5. ASSUME NEW i \in 1 .. Len(s) PROVE s[i] = u[i]
      <4>1. CASE i = 1
        BY <3>3, <3>4, <4>1
      <4>2. CASE i = 2
        BY <3>1, <3>2, <3>3, <3>4, <4>2
      <4>3. CASE i \in 3 .. Len(l) + 2
        <5>1. u[i] = t[i - 1] /\ i - 1 \in 2 .. Len(l) + 1
          BY <3>1, <3>4, <4>3
        <5>2. t[i - 1] = l[i - 2]
          BY <3>1, <3>2, <5>1, <4>3
        <5> QED BY <3>3, <4>3, <5>1, <5>2
      <4> QED BY <3>1, <4>1, <4>2, <4>3
    <3>6. s = u
      BY <3>1, <3>4, <3>5, SameElements
    <3> QED BY <3>6 DEF s, t, u
  <2> QED BY <2>1, <2>2 DEF PushFront
<1>6. l \o <<v, w>> = (l \o <<v>>) \o <<w>>
  <2> DEFINE s == l \o <<v, w>>
             t == l \o <<v>>
             u == t \o <<w>>
  <2>1. s \in Seq(Values) /\ Len(s) = Len(l) + 2 /\ Len(l) \in Nat
    BY <1>3
  <2>2. t \in Seq(Values) /\ Len(t) = Len(l) + 1 /\ t[Len(l) + 1] = v /\ \A i \in 1 .. Len(l) : t[i] = l[i]
    BY <1>3
  <2>3. s[Len(l) + 1] = v /\ s[Len(l) + 2] = w /\ \A i \in 1 .. Len(l) : s[i] = l[i]
    BY <1>3
  <2> HIDE DEF s, t
  <2>4. u \in Seq(Values) /\ Len(u) = Len(l) + 2 /\ u[Len(l) + 2] = w /\ \A i \in 1 .. Len(l) + 1 : u[i] = t[i]
    BY <2>1, <2>2
  <2> HIDE DEF u
  <2>5. ASSUME NEW i \in 1 .. Len(s) PROVE s[i] = u[i]
    BY <2>1, <2>2, <2>3, <2>4
  <2>6. s = u
    BY <2>1, <2>4, <2>5, SameElements
  <2> QED BY <2>6 DEF s, t, u
<1>7. PICK m, n : m = AtFront(v, w, l) /\ n = AtBack(v, w, l)
  OBVIOUS
<1>8. execLPush(db, line("LPUSH")) = Writes(<<Put(k, List(m))>>, IntReply(Len(m)))
  BY <1>2, <1>4, <1>5, <1>7 DEF execLPush, execPush, AtFront
<1>9. execRPush(db, line("RPUSH")) = Writes(<<Put(k, List(n))>>, IntReply(Len(n)))
  BY <1>2, <1>4, <1>6, <1>7 DEF execRPush, execPush, AtBack
<1>10. /\ Run(db, line("LPUSH")) = [x \in Keys |-> IF x = k THEN List(m) ELSE db[x]]
       /\ Run(db, line("RPUSH")) = [x \in Keys |-> IF x = k THEN List(n) ELSE db[x]]
  <2>1. execNormalCommand(db, line("LPUSH")) = Writes(<<Put(k, List(m))>>, IntReply(Len(m)))
    BY <1>1, <1>8
  <2>2. execNormalCommand(db, line("RPUSH")) = Writes(<<Put(k, List(n))>>, IntReply(Len(n)))
    BY <1>1, <1>9
  <2>3. Stored(db, Writes(<<Put(k, List(m))>>, IntReply(Len(m)))) = [x \in Keys |-> IF x = k THEN List(m) ELSE db[x]]
    BY StoredOne
  <2>4. Stored(db, Writes(<<Put(k, List(n))>>, IntReply(Len(n)))) = [x \in Keys |-> IF x = k THEN List(n) ELSE db[x]]
    BY StoredOne
  <2> QED BY <2>1, <2>2, <2>3, <2>4 DEF Run
<1>11. \A e : LET r == [x \in Keys |-> IF x = k THEN e ELSE db[x]] IN
              /\ r = [x \in Keys |-> r[x]] /\ \A x \in Keys : x # k => r[x] = db[x]
              /\ r[k] = e
  OBVIOUS
<1>12. LET r == Run(db, line("LPUSH")) IN
       /\ r = [x \in Keys |-> r[x]] /\ \A x \in Keys : x # k => r[x] = db[x]
       /\ r[k] = List(m)
  BY <1>10, <1>11
<1>13. LET r == Run(db, line("RPUSH")) IN
       /\ r = [x \in Keys |-> r[x]] /\ \A x \in Keys : x # k => r[x] = db[x]
       /\ r[k] = List(n)
  BY <1>10, <1>11
<1> QED BY <1>7, <1>12, <1>13 DEF line, l, Pushed

\* A pop of a key that holds a list with one value more than l.
LEMMA PopIs ==
    ASSUME NEW db \in [Keys -> Entities], NEW k \in Keys, NEW l \in Seq(Values), NEW v \in Values,
           NEW left, left = IF l = <<>> THEN Absent ELSE List(l)
    PROVE  /\ db[k] = List(<<v>> \o l) =>
                LET pop == CmdLine("LPOP", <<k>>, <<>>, <<>>) IN
                /\ AnswerTo(db, pop) = Bulk(v)
                /\ Run(db, pop) = [x \in Keys |-> IF x = k THEN left ELSE db[x]]
           /\ db[k] = List(l \o <<v>>) =>
                LET pop == CmdLine("RPOP", <<k>>, <<>>, <<>>) IN
                /\ AnswerTo(db, pop) = Bulk(v)
                /\ Run(db, pop) = [x \in Keys |-> IF x = k THEN left ELSE db[x]]
<1> DEFINE line(op) == CmdLine(op, <<k>>, <<>>, <<>>)
<1>1. /\ execNormalCommand(db, line("LPOP")) = execLPop(db, line("LPOP"))
      /\ execNormalCommand(db, line("RPOP")) = execRPop(db, line("RPOP"))
  BY LawPop
<1>2. \A op : Key(line(op)) = k
  BY DEF CmdLine, Key
<1> HIDE DEF line
<1>3. ASSUME NEW op, NEW m \in Seq(Values), db[k] = List(m), Len(m) = Len(l) + 1, NEW at, m[at] = v, NEW rest, rest = l
      PROVE  execPop(db, line(op), at, rest) = Writes(<<Put(k, left)>>, Bulk(v))
  <2>1. db[k] # Absent /\ db[k].type = "list" /\ db[k].val = m
    BY <1>3, ListIs
  <2>2. m # <<>> /\ (Len(m) = 1 <=> l = <<>>)
    BY <1>3
  <2> QED BY <1>2, <1>3, <2>1, <2>2 DEF execPop, Exists, BadType, IsList, Listed
<1>4. \A p, rep : Writes(p, rep).reply = rep
  BY DEF Writes
<1>5. Stored(db, Writes(<<Put(k, left)>>, Bulk(v))) = [x \in Keys |-> IF x = k THEN left ELSE db[x]]
  BY StoredOne
<1>6. ASSUME db[k] = List(<<v>> \o l)
      PROVE  execLPop(db, line("LPOP")) = Writes(<<Put(k, left)>>, Bulk(v))
  <2>1. PICK m \in Seq(Values) : m = <<v>> \o l
    BY EndsOf
  <2>2. Len(m) = Len(l) + 1 /\ m[1] = v /\ Tail(m) = l
    BY <2>1, EndsOf
  <2>3. Listed(db, line("LPOP")) = m
    BY <1>2, <1>6, <2>1, ListIs DEF Listed
  <2>4. execPop(db, line("LPOP"), 1, Tail(m)) = Writes(<<Put(k, left)>>, Bulk(v))
    BY <1>3, <1>6, <2>1, <2>2
  <2> QED BY <2>3, <2>4 DEF execLPop
<1>7. ASSUME db[k] = List(l \o <<v>>)
      PROVE  execRPop(db, line("RPOP")) = Writes(<<Put(k, left)>>, Bulk(v))
  <2>1. PICK m \in Seq(Values) : m = l \o <<v>>
    BY EndsOf
  <2>2. Len(m) = Len(l) + 1 /\ m[Len(l) + 1] = v /\ SubSeq(m, 1, Len(l)) = l
    BY <2>1, EndsOf
  <2>3. Listed(db, line("RPOP")) = m
    BY <1>2, <1>7, <2>1, ListIs DEF Listed
  <2>4. m[Len(m)] = v /\ SubSeq(m, 1, Len(m) - 1) = l
    <3>1. Len(m) - 1 = Len(l)
      BY <2>2
    <3> QED BY <2>2, <3>1
  <2>5. execPop(db, line("RPOP"), Len(m), SubSeq(m, 1, Len(m) - 1)) = Writes(<<Put(k, left)>>, Bulk(v))
    BY <1>3, <1>7, <2>1, <2>2, <2>4
  <2> QED BY <2>3, <2>5 DEF execRPop
<1> QED BY <1>1, <1>4, <1>5, <1>6, <1>7 DEF line, AnswerTo, Run
-----------------------------------------------------------------------------
(* No key ever holds an empty list                                         *)

Nonempty(e) == e.type = "list" => e.val # <<>>
NoEmptyList(db) == \A k \in Keys : Nonempty(db[k])
PutsNonempty(r) == \A i \in 1 .. Len(r.puts) : Nonempty(r.puts[i].entity)

\* A pop that takes the last value removes the key, and no command stores a
\* list without a value: it holds of what is stored, of what a restart would
\* find, and of what a command has decided to write.
ListInv ==
    /\ BootInv
    /\ NoEmptyList(data) /\ NoEmptyList(image)
    /\ \A c \in Clients : phase[c] \in {"write", "flush"} => PutsNonempty(result[c])
LEMMA NonemptyFacts ==
    /\ Nonempty(Absent) /\ \A v : Nonempty(Str(v))
    /\ \A l : l # <<>> => Nonempty(List(l))
  BY DEF Nonempty, Absent, Str, List

LEMMA NoPuts ==
    ASSUME NEW rep
    PROVE  PutsNonempty(Reads(rep)) /\ PutsNonempty(Writes(<<>>, rep))
  BY DEF PutsNonempty, Reads, Writes

LEMMA OnePut ==
    ASSUME NEW k, NEW e, NEW rep, Nonempty(e)
    PROVE  PutsNonempty(Writes(<<Put(k, e)>>, rep))
<1>1. Writes(<<Put(k, e)>>, rep).puts = <<Put(k, e)>> /\ Put(k, e).entity = e
  BY DEF Writes, Put
<1>2. Len(<<Put(k, e)>>) = 1 /\ \A i \in 1 .. 1 : <<Put(k, e)>>[i] = Put(k, e)
  OBVIOUS
<1> QED BY <1>1, <1>2 DEF PutsNonempty

\* A push has at least one value to push.
LEMMA PushValues ==
    ASSUME NEW line \in CmdLineType, Accepted(line), WellFormed(line), line.op \in {"LPUSH", "RPUSH"}
    PROVE  Len(line.vals) >= 1
<1>1. /\ line.vals \in Seq(Values) /\ Len(line.vals) \in Nat
      /\ line.keys \in Seq(Keys) /\ line.nums \in Seq(Int \cup {NotInt})
  BY DEF CmdLineType
<1>2. Len(line.keys) = 1
  BY LineFacts DEF OfOneKey
<1>3. Len(line.nums) = 0
  BY DEF WellFormed, NumArgs
<1>4. cmdTable[line.op].arity = -3
  BY DEF cmdTable, Entry
<1>5. 3 <= ArgCount(line)
  BY <1>4 DEF Accepted, ValidateArity
<1>6. ArgCount(line) = 2 + Len(line.vals)
  BY <1>1, <1>2, <1>3 DEF ArgCount
<1> QED BY <1>1, <1>5, <1>6

\* From contents without an empty list no command writes one.
LEMMA ExecNonempty ==
    ASSUME NEW db \in [Keys -> Entities], NoEmptyList(db),
           NEW line \in CmdLineType, Accepted(line), WellFormed(line)
    PROVE  PutsNonempty(execNormalCommand(db, line))
<1>1. execNormalCommand(db, line) = exec(db, line)
  BY DEF execNormalCommand, Accepted
<1>2. /\ line.op \in Names
      /\ KeySet(line) \subseteq Keys
      /\ line.op \in OfOneKey => KeySet(line) = {Key(line)}
      /\ line.op \in OfTwoKeys => KeySet(line) = {line.keys[1], line.keys[2]}
  BY LineFacts
<1>3. line.vals \in Seq(Values) /\ line.keys \in Seq(Keys)
  BY DEF CmdLineType
<1>4. line.op \in OfOneKey =>
        /\ Key(line) \in Keys /\ Listed(db, line) \in Seq(Values)
        /\ db[Key(line)].type = "list" => Listed(db, line) # <<>>
  <2> SUFFICES ASSUME line.op \in OfOneKey
               PROVE  /\ Key(line) \in Keys /\ Listed(db, line) \in Seq(Values)
                      /\ db[Key(line)].type = "list" => Listed(db, line) # <<>>
    OBVIOUS
  <2>1. Key(line) \in Keys
    BY <1>2
  <2>2. db[Key(line)] \in Entities
    BY <2>1
  <2>3. db[Key(line)].val \in Seq(Values)
    BY <2>2, EntityVal
  <2> QED BY <2>1, <2>3 DEF Listed, NoEmptyList, Nonempty
<1>5. CASE line.op \in {"GET", "STRLEN", "TYPE", "EXIST", "PING"}
  <2>1. \E rep : exec(db, line) = Reads(rep)
    BY <1>5, ExecIs DEF execGet, execStrlen, execType, execExist, Ping
  <2> QED BY <1>1, <2>1, NoPuts
<1>6. CASE line.op \in {"LRANGE", "LLEN", "LINDEX"}
  <2>1. \E rep : exec(db, line) = Reads(rep)
    <3>1. CASE line.op = "LRANGE"
      BY <3>1, ExecIs DEF execLRange
    <3>2. CASE line.op = "LLEN"
      BY <3>2, ExecIs DEF execLLen
    <3>3. CASE line.op = "LINDEX"
      BY <3>3, ExecIs DEF execLIndex
    <3> QED BY <1>6, <3>1, <3>2, <3>3
  <2> QED BY <1>1, <2>1, NoPuts
<1>7. CASE line.op \in {"SET", "SETNX", "GETSET"}
  <2>1. \A rep : /\ PutsNonempty(Writes(<<Put(Key(line), Str(line.vals[1]))>>, rep))
                 /\ PutsNonempty(Writes(<<>>, rep))
    BY NonemptyFacts, NoPuts, OnePut
  <2>2. \E rep : \/ exec(db, line) = Writes(<<Put(Key(line), Str(line.vals[1]))>>, rep)
                 \/ exec(db, line) = Writes(<<>>, rep)
    BY <1>7, ExecIs DEF execSet, execSetNX, execGetSet
  <2> QED BY <1>1, <2>1, <2>2
<1>8. CASE line.op = "DEL"
  <2> DEFINE n == Cardinality(Removed(db, line))
             puts == [i \in 1 .. n |-> Put(line.keys[Ascending(Removed(db, line))[i]], Absent)]
  <2>1. exec(db, line) = Reads(IntReply(0)) \/ exec(db, line) = Writes(puts, IntReply(n))
    BY <1>8, ExecIs DEF execDel
  <2>2. n \in Nat
    <3>1. Removed(db, line) \in SUBSET (1 .. Len(line.keys)) /\ Len(line.keys) \in Nat
      BY <1>3 DEF Removed
    <3> QED BY <3>1, AscendingFacts
  <2>3. Len(puts) = n /\ \A i \in 1 .. n : puts[i].entity = Absent
    <3> HIDE DEF n
    <3> QED BY <2>2 DEF Put
  <2> HIDE DEF puts, n
  <2>4. PutsNonempty(Writes(puts, IntReply(n)))
    <3>1. Writes(puts, IntReply(n)).puts = puts
      BY DEF Writes
    <3> QED BY <2>3, <3>1, NonemptyFacts DEF PutsNonempty
  <2> QED BY <1>1, <2>1, <2>4, NoPuts
<1>9. CASE line.op = "FLUSHDB"
  <2>1. execNormalCommand(db, line) = [Writes(<<>>, Ok) EXCEPT !.flush = TRUE]
    BY <1>1, <1>9, ExecIs DEF execFlushDB
  <2>2. execNormalCommand(db, line).puts = <<>>
    BY <2>1 DEF Writes
  <2> QED BY <2>2 DEF PutsNonempty
<1>10. CASE line.op \in OfTwoKeys
  <2>1. Nonempty(db[line.keys[1]])
    BY <1>2, <1>10 DEF NoEmptyList
  <2>2. ASSUME NEW rep PROVE PutsNonempty(Writes(Move(db, line), rep))
    <3>1. /\ Len(Move(db, line)) = 2 /\ Writes(Move(db, line), rep).puts = Move(db, line)
          /\ Move(db, line)[1].entity = db[line.keys[1]] /\ Move(db, line)[2].entity = Absent
      BY DEF Move, Put, Writes
    <3>2. \A i \in 1 .. 2 : i = 1 \/ i = 2
      OBVIOUS
    <3> QED BY <2>1, <3>1, <3>2, NonemptyFacts DEF PutsNonempty
  <2>3. \E rep : exec(db, line) = Writes(Move(db, line), rep) \/ exec(db, line) = Reads(rep)
    BY <1>10, ExecIs DEF execRename, execRenameNX, OfTwoKeys
  <2> QED BY <1>1, <2>2, <2>3, NoPuts
<1>11. CASE line.op \in {"LPUSH", "RPUSH"}
  <2> DEFINE l == Listed(db, line)
             m == PushFront(line.vals, l)
             q == l \o line.vals
  <2>1. l \in Seq(Values) /\ Len(line.vals) >= 1
    BY <1>4, <1>11, PushValues DEF OfOneKey
  <2> HIDE DEF l
  <2>2. q # <<>>
    <3>1. Len(q) = Len(l) + Len(line.vals) /\ Len(l) \in Nat /\ Len(line.vals) \in Nat
      BY <1>3, <2>1
    <3> QED BY <2>1, <3>1
  <2>3. m # <<>>
    <3> DEFINE rev == [i \in 1 .. Len(line.vals) |-> line.vals[Len(line.vals) + 1 - i]]
    <3>1. rev \in Seq(Values)
      <4>1. \A i \in 1 .. Len(line.vals) : line.vals[Len(line.vals) + 1 - i] \in Values
        BY <1>3
      <4>2. Len(line.vals) \in Nat
        BY <1>3
      <4> QED BY <4>1, <4>2, IsASeq
    <3>2. Len(rev) = Len(line.vals) /\ Len(line.vals) \in Nat
      BY <1>3
    <3> HIDE DEF rev
    <3>3. Len(rev \o l) = Len(rev) + Len(l) /\ Len(l) \in Nat
      BY <2>1, <3>1
    <3>4. rev \o l # <<>>
      BY <2>1, <3>2, <3>3
    <3> QED BY <3>4 DEF PushFront, rev
  <2> HIDE DEF m, q
  <2>4. ASSUME NEW s, s # <<>> PROVE PutsNonempty(execPush(db, line, s))
    <3>1. PutsNonempty(Writes(<<Put(Key(line), List(s))>>, IntReply(Len(s))))
      BY <2>4, NonemptyFacts, OnePut
    <3> QED BY <3>1, NoPuts DEF execPush
  <2>5. exec(db, line) = execPush(db, line, m) \/ exec(db, line) = execPush(db, line, q)
    BY <1>11, ExecIs DEF execLPush, execRPush, l, m, q
  <2> QED BY <1>1, <2>2, <2>3, <2>4, <2>5
<1>12. CASE line.op \in {"LPOP", "RPOP"}
  <2> DEFINE l == Listed(db, line)
  <2>1. l \in Seq(Values) /\ Len(l) \in Nat
    BY <1>4, <1>12 DEF OfOneKey
  <2>2. l # <<>> /\ Len(l) # 1 => Tail(l) # <<>> /\ SubSeq(l, 1, Len(l) - 1) # <<>>
    <3> SUFFICES ASSUME l # <<>>, Len(l) # 1 PROVE Tail(l) # <<>> /\ SubSeq(l, 1, Len(l) - 1) # <<>>
      OBVIOUS
    <3>1. PICK s \in Seq(Values) : s = l
      BY <2>1
    <3>2. Len(s) \in Nat /\ Len(s) # 1 /\ s # <<>>
      BY <2>1, <3>1
    <3>3. Len(s) >= 2
      <4>1. Len(s) # 0
        BY <3>2
      <4>2. \A n \in Nat : n # 0 /\ n # 1 => n >= 2
        OBVIOUS
      <4> QED BY <3>2, <4>1, <4>2
    <3>4. Len(Tail(s)) = Len(s) - 1 /\ Len(SubSeq(s, 1, Len(s) - 1)) = Len(s) - 1
      BY <3>2, <3>3
    <3>5. Tail(s) # <<>> /\ SubSeq(s, 1, Len(s) - 1) # <<>>
      <4>1. Len(<<>>) = 0 /\ Len(s) - 1 # 0
        BY <3>2, <3>3
      <4> QED BY <3>4, <4>1, Zenon
    <3> QED BY <3>1, <3>5
  <2>3. ASSUME NEW at, NEW rest, l # <<>> /\ Len(l) # 1 => rest # <<>>
        PROVE  PutsNonempty(execPop(db, line, at, rest))
    <3> DEFINE e == IF Len(l) = 1 THEN Absent ELSE List(rest)
    <3>1. CASE l = <<>>
      <4>1. \E rep : execPop(db, line, at, rest) = Reads(rep)
        BY <3>1 DEF execPop
      <4> QED BY <4>1, NoPuts
    <3>2. CASE l # <<>>
      <4>1. Nonempty(e)
        BY <2>3, <3>2, NonemptyFacts
      <4>2. \E rep : \/ execPop(db, line, at, rest) = Reads(rep)
                     \/ execPop(db, line, at, rest) = Writes(<<Put(Key(line), e)>>, rep)
        BY DEF execPop
      <4> HIDE DEF e
      <4> QED BY <4>1, <4>2, NoPuts, OnePut
    <3> QED BY <3>1, <3>2
  <2>4. \/ exec(db, line) = execPop(db, line, 1, Tail(l))
        \/ exec(db, line) = execPop(db, line, Len(l), SubSeq(l, 1, Len(l) - 1))
    BY <1>12, ExecIs DEF execLPop, execRPop
  <2> HIDE DEF l
  <2> QED BY <1>1, <2>2, <2>3, <2>4
<1>13. CASE line.op = "LSET"
  <2> DEFINE l == Listed(db, line)
             at == Position(FromEnd(line.nums[1], Len(l)), Len(l))
             m == [l EXCEPT ![at] = line.vals[1]]
  <2>1. l \in Seq(Values) /\ (db[Key(line)].type = "list" => l # <<>>)
    BY <1>4, <1>13 DEF OfOneKey
  <2>2. l # <<>> => m # <<>>
    <3> HIDE DEF l, at
    <3>1. DOMAIN m = DOMAIN l
      OBVIOUS
    <3>2. DOMAIN <<>> = {} /\ (l # <<>> => DOMAIN l # {})
      BY <2>1
    <3> HIDE DEF m
    <3> QED BY <3>1, <3>2
  <2>3. \/ \E rep : exec(db, line) = Reads(rep)
        \/ exec(db, line) = Writes(<<Put(Key(line), List(m))>>, Ok) /\ db[Key(line)].type = "list"
    BY <1>13, ExecIs DEF execLSet, BadType, IsList
  <2> HIDE DEF m, l
  <2> QED BY <1>1, <2>1, <2>2, <2>3, NoPuts, OnePut, NonemptyFacts
<1> QED BY <1>2, <1>5, <1>6, <1>7, <1>8, <1>9, <1>10, <1>11, <1>12, <1>13 DEF Names, OfTwoKeys

\* What such writes leave has no empty list either.
LEMMA StoredNonempty ==
    ASSUME NEW db \in [Keys -> Entities], NoEmptyList(db), NEW line, NEW r,
           r.puts \in Seq(PutsOf(line)), PutsNonempty(r)
    PROVE  NoEmptyList(Stored(db, r))
<1> SUFFICES ASSUME NEW k \in Keys PROVE Nonempty(Stored(db, r)[k])
  BY DEF NoEmptyList
<1>1. CASE {i \in 1 .. Len(r.puts) : r.puts[i].key = k} = {}
  <2>1. Stored(db, r)[k] = IF r.flush THEN Absent ELSE db[k]
    BY <1>1 DEF Stored
  <2> QED BY <2>1, NonemptyFacts DEF NoEmptyList
<1>2. CASE {i \in 1 .. Len(r.puts) : r.puts[i].key = k} # {}
  <2>1. Stored(db, r)[k] = r.puts[LastAt(r.puts, k)].entity /\ LastAt(r.puts, k) \in 1 .. Len(r.puts)
    BY <1>2, LastWrite, StoredLast
  <2> QED BY <2>1 DEF PutsNonempty
<1> QED BY <1>1, <1>2
LEMMA ListStays ==
    ASSUME NEW d, phase[d] \in {"write", "flush"} => PutsNonempty(result[d]),
           phase'[d] = phase[d], result'[d] = result[d]
    PROVE  (phase[d] \in {"write", "flush"} => PutsNonempty(result[d]))'
  BY DEF PutsNonempty

LEMMA ListStep ==
    ASSUME ListInv, NEW c \in Clients, Step(c)
    PROVE  ListInv'
<1>1. /\ data \in [Keys -> Entities] /\ phase \in [Clients -> Phases]
      /\ result = [d \in Clients |-> result[d]] /\ Logging(c)
      /\ NoEmptyList(data) /\ NoEmptyList(image)
      /\ phase[c] \in {"write", "flush"} => PutsNonempty(result[c])
  BY DEF ListInv, BootInv, BootTypes
<1>2. BootInv'
  BY BootStep DEF ListInv
<1> DEFINE Others == \A d \in Clients : d # c => phase'[d] = phase[d] /\ result'[d] = result[d]
           Own == phase'[c] \in {"write", "flush"} => PutsNonempty(result'[c])
<1>3. ASSUME NoEmptyList(data'), NoEmptyList(image'), Others, Own PROVE ListInv'
  <2>1. ASSUME NEW d \in Clients, d # c
        PROVE  (phase[d] \in {"write", "flush"} => PutsNonempty(result[d]))'
    BY <1>3, <2>1, ListStays DEF ListInv
  <2>2. (phase[c] \in {"write", "flush"} => PutsNonempty(result[c]))'
    BY <1>3
  <2>3. NoEmptyList(data)' /\ NoEmptyList(image)'
    BY <1>3
  <2> QED BY <1>2, <2>1, <2>2, <2>3 DEF ListInv
<1>4. CASE Refuse(c) \/ Lock(c) \/ AddAof(c) \/ Unlock(c) \/ Respond(c)
  <2>1. data' = data /\ image' = image
    BY <1>4 DEF Refuse, Lock, AddAof, Unlock, Respond, aofvars
  <2>2. CASE Lock(c) \/ Unlock(c)
    <3>1. phase' = phase /\ result' = result
      BY <2>2 DEF Lock, Unlock, execvars
    <3> QED BY <1>1, <1>3, <2>1, <3>1
  <2>3. CASE Refuse(c) \/ AddAof(c) \/ Respond(c)
    <3>1. Others /\ phase'[c] \in {"done", "none"}
      <4>1. CASE Refuse(c)
        BY <1>1, <4>1 DEF Refuse
      <4>2. CASE AddAof(c)
        BY <1>1, <4>2 DEF AddAof
      <4>3. CASE Respond(c)
        BY <1>1, <4>3 DEF Respond
      <4> QED BY <2>3, <4>1, <4>2, <4>3
    <3> QED BY <1>1, <1>3, <2>1, <3>1
  <2> QED BY <1>4, <2>2, <2>3
<1>5. CASE Exec(c)
  <2> DEFINE r == execNormalCommand(data, cmd[c])
  <2>1. /\ phase[c] = "exec" /\ UNCHANGED <<data, cmd, image>>
        /\ result' = [result EXCEPT ![c] = r]
        /\ phase' = [phase EXCEPT ![c] = PhaseOf(result'[c])]
    BY <1>5 DEF Exec, aofvars
  <2>2. cmd[c] \in CmdLines /\ Accepted(cmd[c])
    BY <1>1, <2>1 DEF Logging
  <2>3. PutsNonempty(r)
    BY <1>1, <2>2, LineOK, ExecNonempty
  <2> HIDE DEF r
  <2>4. result'[c] = r /\ Others
    BY <1>1, <2>1
  <2>5. Own
    BY <2>3, <2>4
  <2> QED BY <1>1, <1>3, <2>1, <2>4, <2>5
<1>6. CASE Write(c)
  <2> DEFINE p == Head(result[c].puts)
             r == [result[c] EXCEPT !.puts = Tail(@)]
  <2>1. /\ phase[c] = "write" /\ image' = image
        /\ data' = [data EXCEPT ![p.key] = p.entity]
        /\ result' = [result EXCEPT ![c] = r]
        /\ phase' = [phase EXCEPT ![c] = PhaseOf(r)]
    BY <1>6 DEF Write, aofvars
  <2>2. /\ IsResult(result[c]) /\ result[c].puts \in Seq(PutsOf(cmd[c])) /\ result[c].puts # <<>>
    BY <1>1, <2>1 DEF Logging
  <2>3. PutsNonempty(result[c])
    BY <1>1, <2>1
  <2>4. PICK s \in Seq(PutsOf(cmd[c])) : s = result[c].puts
    BY <2>2
  <2>5. /\ Len(s) \in Nat /\ s # <<>> /\ Len(s) # 0 /\ p = s[1]
        /\ \A i \in 1 .. Len(s) : Nonempty(s[i].entity)
    BY <2>2, <2>3, <2>4 DEF PutsNonempty
  <2>6. Nonempty(p.entity)
    BY <2>5
  <2>7. r.puts = Tail(s)
    BY <2>2, <2>4, ResultExcept
  <2>8. PutsNonempty(r)
    <3>1. Len(Tail(s)) = Len(s) - 1 /\ \A i \in 1 .. Len(s) - 1 : Tail(s)[i] = s[i + 1]
      BY <2>5
    <3>2. \A i \in 1 .. Len(s) - 1 : i + 1 \in 1 .. Len(s)
      BY <2>5
    <3>3. \A i \in 1 .. Len(Tail(s)) : Nonempty(Tail(s)[i].entity)
      BY <2>5, <3>1, <3>2
    <3> QED BY <2>7, <3>3 DEF PutsNonempty
  <2> HIDE DEF r, p
  <2>9. NoEmptyList(data')
    <3>1. ASSUME NEW k \in Keys PROVE Nonempty(data'[k])
      <4>1. data'[k] = p.entity \/ data'[k] = data[k]
        BY <1>1, <2>1
      <4> QED BY <1>1, <2>6, <4>1 DEF NoEmptyList
    <3> QED BY <3>1 DEF NoEmptyList
  <2>10. result'[c] = r /\ Others
    BY <1>1, <2>1
  <2>11. Own
    BY <2>8, <2>10
  <2> QED BY <1>1, <1>3, <2>1, <2>9, <2>10, <2>11
<1>7. CASE Flush(c)
  <2> DEFINE r == [result[c] EXCEPT !.flush = FALSE]
  <2>1. /\ phase[c] = "flush" /\ image' = image
        /\ data' = [k \in Keys |-> Absent]
        /\ result' = [result EXCEPT ![c] = r]
        /\ phase' = [phase EXCEPT ![c] = PhaseOf(result'[c])]
    BY <1>7 DEF Flush, aofvars
  <2>2. IsResult(result[c])
    BY <1>1, <2>1 DEF Logging
  <2>3. r.puts = result[c].puts
    BY <2>2, FlushExcept
  <2>4. PutsNonempty(result[c])
    BY <1>1, <2>1
  <2> HIDE DEF r
  <2>5. PutsNonempty(r)
    BY <2>3, <2>4 DEF PutsNonempty
  <2>6. NoEmptyList(data')
    BY <2>1, NonemptyFacts DEF NoEmptyList
  <2>7. result'[c] = r /\ Others
    BY <1>1, <2>1
  <2>8. Own
    BY <2>5, <2>7
  <2> QED BY <1>1, <1>3, <2>1, <2>6, <2>7, <2>8
<1> QED BY <1>4, <1>5, <1>6, <1>7 DEF Step

LEMMA ListNext ==
    ASSUME ListInv, [Next]_vars
    PROVE  ListInv'
<1>1. /\ image \in [Keys -> Entities] /\ phase \in [Clients -> Phases]
      /\ aofChan \in Seq(Loggable) /\ NoEmptyList(data) /\ NoEmptyList(image)
      /\ BootInv /\ BootInv'
  BY BootNext DEF ListInv, BootInv, BootTypes
<1>2. ASSUME NoEmptyList(data'), NoEmptyList(image'),
             \A d \in Clients : \/ phase'[d] = phase[d] /\ result'[d] = result[d]
                                \/ phase'[d] \notin {"write", "flush"}
      PROVE  ListInv'
  <2>1. ASSUME NEW d \in Clients PROVE (phase[d] \in {"write", "flush"} => PutsNonempty(result[d]))'
    <3>1. CASE phase'[d] = phase[d] /\ result'[d] = result[d]
      BY <3>1, ListStays DEF ListInv
    <3>2. CASE phase'[d] \notin {"write", "flush"}
      BY <3>2
    <3> QED BY <1>2, <3>1, <3>2
  <2>2. NoEmptyList(data)' /\ NoEmptyList(image)'
    BY <1>2
  <2> QED BY <1>1, <2>1, <2>2 DEF ListInv
<1>3. CASE UNCHANGED vars
  <2>1. UNCHANGED <<data, phase, result, image>>
    BY <1>3 DEF vars, execvars, aofvars
  <2> QED BY <1>1, <1>2, <2>1
<1>4. ASSUME NEW c \in Clients, NEW line \in CmdLines, Receive(c, line) PROVE ListInv'
  <2>1. /\ UNCHANGED <<data, image, result>>
        /\ \/ phase' = [phase EXCEPT ![c] = "exec"]
           \/ phase' = [phase EXCEPT ![c] = "refuse"]
    BY <1>4 DEF Receive, aofvars
  <2>2. \A d \in Clients : phase'[d] = phase[d] \/ phase'[d] \notin {"write", "flush"}
    BY <1>1, <2>1
  <2> QED BY <1>1, <1>2, <2>1, <2>2
<1>5. CASE HandleAof
  <2>1. /\ aofChan # <<>> /\ image' = After(image, Head(aofChan))
        /\ UNCHANGED <<data, phase, result>>
    BY <1>5 DEF HandleAof, execvars
  <2>2. PICK line \in Loggable : line = Head(aofChan)
    BY <1>1, <2>1
  <2>3. line \in CmdLineType /\ Accepted(line) /\ WellFormed(line)
    BY LoggableFacts
  <2> DEFINE r == execNormalCommand(image, line)
  <2>4. r.puts \in Seq(PutsOf(line)) /\ PutsNonempty(r)
    <3>1. Sound(line, r)
      BY <1>1, <2>3, ExecSound
    <3>2. PutsNonempty(r)
      BY <1>1, <2>3, ExecNonempty
    <3> QED BY <3>1, <3>2 DEF Sound
  <2> HIDE DEF r
  <2>5. NoEmptyList(Stored(image, r))
    BY <1>1, <2>4, StoredNonempty
  <2>6. NoEmptyList(image')
    BY <2>1, <2>2, <2>5 DEF After, r
  <2> QED BY <1>1, <1>2, <2>1, <2>6
<1>6. CASE HandleAofFails
  <2>1. UNCHANGED <<data, phase, result, image>>
    BY <1>6 DEF HandleAofFails, execvars
  <2> QED BY <1>1, <1>2, <2>1
<1>7. CASE Restart
  <2>1. data' = image /\ image' = image /\ phase' = [c \in Clients |-> "none"]
    BY <1>7 DEF Restart
  <2> QED BY <1>1, <1>2, <2>1
<1> QED BY <1>3, <1>4, <1>5, <1>6, <1>7, ListStep DEF Next

LEMMA ListInit == Init => ListInv
<1> SUFFICES ASSUME Init PROVE ListInv
  OBVIOUS
<1>1. NoEmptyList(data) /\ NoEmptyList(image)
  BY NonemptyFacts DEF Init, NoEmptyList
<1>2. \A c \in Clients : phase[c] \notin {"write", "flush"}
  BY DEF Init
<1> QED BY <1>1, <1>2, BootInit DEF ListInv

LEMMA LPopUndoes ==
    ASSUME NEW db \in [Keys -> Entities], NoEmptyList(db), NEW k \in Keys, db[k].type # "string",
           NEW v \in Values, NEW w \in Values
    PROVE  LET pop == CmdLine("LPOP", <<k>>, <<>>, <<>>)
               pushed == Run(db, CmdLine("LPUSH", <<k>>, <<v, w>>, <<>>))
               popped == Run(pushed, pop)
           IN  /\ AnswerTo(pushed, pop) = Bulk(w)
               /\ AnswerTo(popped, pop) = Bulk(v)
               /\ Run(popped, pop) = db
<1> DEFINE l == db[k].val
           With(x) == [y \in Keys |-> IF y = k THEN x ELSE db[y]]
           left == IF l = <<>> THEN Absent ELSE List(l)
<1>1. l \in Seq(Values)
  BY ListEntity
<1>2. left = db[k]
  <2>1. CASE db[k] = Absent
    BY <2>1, ListEntity
  <2>2. CASE db[k] # Absent
    <3>1. db[k].type = "list" /\ db[k] = List(l)
      BY <2>2, ListEntity
    <3>2. l # <<>>
      BY <3>1 DEF NoEmptyList, Nonempty
    <3> QED BY <3>1, <3>2
  <2> QED BY <2>1, <2>2
<1>3. With(left) = db
  BY <1>2
<1>4. \A x, y : [z \in Keys |-> IF z = k THEN y ELSE With(x)[z]] = With(y)
  OBVIOUS
<1>5. \A m \in Seq(Values) : With(List(m)) \in [Keys -> Entities] /\ With(List(m))[k] = List(m)
  BY EntityFacts
<1> DEFINE pop == CmdLine("LPOP", <<k>>, <<>>, <<>>)
           pushed == Pushed("LPUSH", db, k, v, w)
<1>6. PICK m : m = <<v>> \o l
  OBVIOUS
<1>7. m \in Seq(Values) /\ m # <<>> /\ <<w>> \o m \in Seq(Values)
  <2>1. m \in Seq(Values) /\ Len(m) = Len(l) + 1 /\ Len(l) \in Nat
    BY <1>1, <1>6, EndsOf
  <2>2. Len(<<>>) = 0 /\ Len(m) # 0
    BY <2>1
  <2> QED BY <2>1, <2>2, EndsOf
<1>8. pushed = With(List(<<w>> \o m))
  <2>1. /\ pushed = [x \in Keys |-> pushed[x]] /\ \A x \in Keys : x # k => pushed[x] = db[x]
        /\ pushed[k] = List(AtFront(v, w, db[k].val))
    BY PushIs
  <2>2. pushed[k] = List(<<w>> \o m)
    BY <1>6, <2>1 DEF AtFront
  <2> HIDE DEF pushed
  <2> QED BY <2>1, <2>2
<1>9. pushed \in [Keys -> Entities] /\ pushed[k] = List(<<w>> \o m)
  BY <1>5, <1>7, <1>8
<1> HIDE DEF With, left, l, pushed
<1>10. /\ AnswerTo(pushed, pop) = Bulk(w)
      /\ Run(pushed, pop) = [x \in Keys |-> IF x = k THEN List(m) ELSE pushed[x]]
  BY <1>7, <1>9, PopIs
<1>11. Run(pushed, pop) = With(List(m))
  BY <1>4, <1>8, <1>10
<1> DEFINE popped == Run(pushed, pop)
<1>12. popped \in [Keys -> Entities] /\ popped[k] = List(<<v>> \o l)
  BY <1>5, <1>6, <1>7, <1>11
<1> HIDE DEF popped
<1>13. /\ AnswerTo(popped, pop) = Bulk(v)
      /\ Run(popped, pop) = [x \in Keys |-> IF x = k THEN left ELSE popped[x]]
  BY <1>1, <1>12, PopIs DEF left
<1>14. Run(popped, pop) = db
  BY <1>3, <1>4, <1>11, <1>13 DEF popped
<1> QED BY <1>10, <1>13, <1>14 DEF popped, pushed, Pushed

LEMMA RPopUndoes ==
    ASSUME NEW db \in [Keys -> Entities], NoEmptyList(db), NEW k \in Keys, db[k].type # "string",
           NEW v \in Values, NEW w \in Values
    PROVE  LET pop == CmdLine("RPOP", <<k>>, <<>>, <<>>)
               pushed == Run(db, CmdLine("RPUSH", <<k>>, <<v, w>>, <<>>))
               popped == Run(pushed, pop)
           IN  /\ AnswerTo(pushed, pop) = Bulk(w)
               /\ AnswerTo(popped, pop) = Bulk(v)
               /\ Run(popped, pop) = db
<1> DEFINE l == db[k].val
           With(x) == [y \in Keys |-> IF y = k THEN x ELSE db[y]]
           left == IF l = <<>> THEN Absent ELSE List(l)
<1>1. l \in Seq(Values)
  BY ListEntity
<1>2. left = db[k]
  <2>1. CASE db[k] = Absent
    BY <2>1, ListEntity
  <2>2. CASE db[k] # Absent
    <3>1. db[k].type = "list" /\ db[k] = List(l)
      BY <2>2, ListEntity
    <3>2. l # <<>>
      BY <3>1 DEF NoEmptyList, Nonempty
    <3> QED BY <3>1, <3>2
  <2> QED BY <2>1, <2>2
<1>3. With(left) = db
  BY <1>2
<1>4. \A x, y : [z \in Keys |-> IF z = k THEN y ELSE With(x)[z]] = With(y)
  OBVIOUS
<1>5. \A m \in Seq(Values) : With(List(m)) \in [Keys -> Entities] /\ With(List(m))[k] = List(m)
  BY EntityFacts
<1> DEFINE pop == CmdLine("RPOP", <<k>>, <<>>, <<>>)
           pushed == Pushed("RPUSH", db, k, v, w)
<1>6. PICK m : m = l \o <<v>>
  OBVIOUS
<1>7. m \in Seq(Values) /\ m # <<>> /\ m \o <<w>> \in Seq(Values)
  <2>1. m \in Seq(Values) /\ Len(m) = Len(l) + 1 /\ Len(l) \in Nat
    BY <1>1, <1>6, EndsOf
  <2>2. Len(<<>>) = 0 /\ Len(m) # 0
    BY <2>1
  <2> QED BY <2>1, <2>2, EndsOf
<1>8. pushed = With(List(m \o <<w>>))
  <2>1. /\ pushed = [x \in Keys |-> pushed[x]] /\ \A x \in Keys : x # k => pushed[x] = db[x]
        /\ pushed[k] = List(AtBack(v, w, db[k].val))
    BY PushIs
  <2>2. pushed[k] = List(m \o <<w>>)
    BY <1>6, <2>1 DEF AtBack
  <2> HIDE DEF pushed
  <2> QED BY <2>1, <2>2
<1>9. pushed \in [Keys -> Entities] /\ pushed[k] = List(m \o <<w>>)
  BY <1>5, <1>7, <1>8
<1> HIDE DEF With, left, l, pushed
<1>10. /\ AnswerTo(pushed, pop) = Bulk(w)
      /\ Run(pushed, pop) = [x \in Keys |-> IF x = k THEN List(m) ELSE pushed[x]]
  BY <1>7, <1>9, PopIs
<1>11. Run(pushed, pop) = With(List(m))
  BY <1>4, <1>8, <1>10
<1> DEFINE popped == Run(pushed, pop)
<1>12. popped \in [Keys -> Entities] /\ popped[k] = List(l \o <<v>>)
  BY <1>5, <1>6, <1>7, <1>11
<1> HIDE DEF popped
<1>13. /\ AnswerTo(popped, pop) = Bulk(v)
      /\ Run(popped, pop) = [x \in Keys |-> IF x = k THEN left ELSE popped[x]]
  BY <1>1, <1>12, PopIs DEF left
<1>14. Run(popped, pop) = db
  BY <1>3, <1>4, <1>11, <1>13 DEF popped
<1> QED BY <1>10, <1>13, <1>14 DEF popped, pushed, Pushed

LEMMA PopsUndo ==
    ASSUME data \in [Keys -> Entities], NoEmptyList(data)
    PROVE  PopUndoesPush
<1> SUFFICES ASSUME NEW k \in Keys, NEW v \in Values, NEW w \in Values,
                    NEW e \in {<<"LPUSH", "LPOP">>, <<"RPUSH", "RPOP">>}, data[k].type # "string"
             PROVE  LET pop == CmdLine(e[2], <<k>>, <<>>, <<>>)
                        pushed == Run(data, CmdLine(e[1], <<k>>, <<v, w>>, <<>>))
                        popped == Run(pushed, pop)
                    IN  /\ AnswerTo(pushed, pop) = Bulk(w)
                        /\ AnswerTo(popped, pop) = Bulk(v)
                        /\ Run(popped, pop) = data
  BY DEF PopUndoesPush
<1>1. CASE e = <<"LPUSH", "LPOP">>
  <2>1. e[1] = "LPUSH" /\ e[2] = "LPOP"
    BY <1>1
  <2> QED BY <2>1, LPopUndoes
<1>2. CASE e = <<"RPUSH", "RPOP">>
  <2>1. e[1] = "RPUSH" /\ e[2] = "RPOP"
    BY <1>2
  <2> QED BY <2>1, RPopUndoes
<1> QED BY <1>1, <1>2

\* For any keys, values, indices, clients and commands, on all the contents
\* that commands, replays and restarts can leave: LRANGE, LINDEX and LSET
\* agree on what an index is, and pops take back what pushes did.
THEOREM ListCommands == Spec => []ListLaws
<1>1. ListInv => ListLaws
  <2> SUFFICES ASSUME ListInv PROVE ListLaws
    OBVIOUS
  <2>1. data \in [Keys -> Entities] /\ NoEmptyList(data)
    BY DEF ListInv, BootInv, BootTypes
  <2> QED BY <2>1, RangesAgree, SetsOne, PopsUndo DEF ListLaws
<1>2. ListInv /\ [Next]_vars => ListInv'
  BY ListNext
<1> QED BY <1>1, <1>2, ListInit, PTL DEF Spec
=============================================================================
