------------------------------ MODULE Commands ------------------------------
(***************************************************************************)
(* The command table of package database and what its string, key and list *)
(* commands do, as functions of the contents of the database: which keys   *)
(* prepare has locked, the writes exec makes in order, whether it calls    *)
(* addAof (always with the command it was given) and its reply.            *)
(*                                                                         *)
(* A command line is [op, keys, vals, nums]: the name, the arguments that  *)
(* are keys, values and integers.  An integer that strconv.ParseInt cannot *)
(* read is NotInt.  Values are opaque; bytes gives their length.           *)
(***************************************************************************)
EXTENDS Integers, Sequences, FiniteSets, Replies

CONSTANTS
    Keys,
    Values,
    bytes,     \* the length of each value
    NotInt     \* an argument that is not an integer

ASSUME ValuesAssumption == bytes \in [Values -> Nat]
ASSUME NotIntAssumption == NotInt \notin Int

-----------------------------------------------------------------------------
(* Entities and results                                                    *)

\* An entity holds a []byte or a *list.List; both as a sequence of values.
Absent == [type |-> "none", val |-> <<>>]
Str(v) == [type |-> "string", val |-> <<v>>]
List(l) == [type |-> "list", val |-> l]

Entities == {Absent} \cup [type : {"string", "list"}, val : Seq(Values)]

Put(k, e) == [key |-> k, entity |-> e]
Reads(rep) == [puts |-> <<>>, flush |-> FALSE, logged |-> FALSE, reply |-> rep]
Writes(puts, rep) == [puts |-> puts, flush |-> FALSE, logged |-> TRUE, reply |-> rep]

\* What the writes of a command leave in the database.
Stored(db, result) ==
    [k \in Keys |->
        LET at == {i \in 1 .. Len(result.puts) : result.puts[i].key = k} IN
        IF at # {}
          THEN result.puts[CHOOSE i \in at : \A j \in at : j <= i].entity
          ELSE IF result.flush THEN Absent ELSE db[k]]

-----------------------------------------------------------------------------
(* Helpers                                                                 *)

Exists(db, k) == db[k] # Absent
IsString(db, k) == db[k].type = "string"
IsList(db, k) == db[k].type = "list"
Key(cmd) == cmd.keys[1]
Listed(db, cmd) == db[Key(cmd)].val

\* LPUSH pushes its values to the front one by one.
PushFront(vals, l) == [i \in 1 .. Len(vals) |-> vals[Len(vals) + 1 - i]] \o l

\* A negative index counts from the end.
FromEnd(i, size) == IF i < 0 THEN size + i ELSE i

-----------------------------------------------------------------------------
(* strings.go                                                              *)

execGet(db, cmd) ==
    Reads(IF ~Exists(db, Key(cmd)) THEN NullBulk
          ELSE IF IsString(db, Key(cmd)) THEN Bulk(Listed(db, cmd)[1]) ELSE Panic)

execSet(db, cmd) == Writes(<<Put(Key(cmd), Str(cmd.vals[1]))>>, Ok)

\* Logged whether or not the key was there.
execSetNX(db, cmd) ==
    IF Exists(db, Key(cmd))
      THEN Writes(<<>>, IntReply(0))
      ELSE Writes(<<Put(Key(cmd), Str(cmd.vals[1]))>>, IntReply(1))

\* The type of the old value is looked at after the write and the log.
execGetSet(db, cmd) ==
    Writes(<<Put(Key(cmd), Str(cmd.vals[1]))>>,
           IF ~Exists(db, Key(cmd)) THEN NullBulk
           ELSE IF IsString(db, Key(cmd)) THEN Bulk(Listed(db, cmd)[1]) ELSE Panic)

\* STRLEN that calls addAof, as GETSET does.
execStrlenLogged(db, cmd) ==
    Writes(<<>>, IF ~Exists(db, Key(cmd)) THEN NullBulk
                 ELSE IF IsString(db, Key(cmd)) THEN IntReply(bytes[Listed(db, cmd)[1]]) ELSE Panic)

execStrlen(db, cmd) ==
    Reads(IF ~Exists(db, Key(cmd)) THEN NullBulk
          ELSE IF IsString(db, Key(cmd)) THEN IntReply(bytes[Listed(db, cmd)[1]]) ELSE Panic)

-----------------------------------------------------------------------------
(* key.go                                                                  *)

\* The arguments that Removes finds in the database: a key named twice is
\* gone the second time.
Removed(db, cmd) ==
    {i \in 1 .. Len(cmd.keys) :
        Exists(db, cmd.keys[i]) /\ \A j \in 1 .. i - 1 : cmd.keys[j] # cmd.keys[i]}

\* A set of positions in ascending order.
Ascending(S) ==
    CHOOSE s \in [1 .. Cardinality(S) -> S] : \A i, j \in 1 .. Cardinality(S) : i < j => s[i] < s[j]

execDel(db, cmd) ==
    LET deleted == Removed(db, cmd)
        n == Cardinality(deleted)
    IN  IF deleted = {}
          THEN Reads(IntReply(0))
          ELSE Writes([i \in 1 .. n |-> Put(cmd.keys[Ascending(deleted)[i]], Absent)], IntReply(n))

execExist(db, cmd) ==
    Reads(IntReply(Cardinality({i \in 1 .. Len(cmd.keys) : Exists(db, cmd.keys[i])})))

execFlushDBNotLogged(db, cmd) == [Reads(Ok) EXCEPT !.flush = TRUE]

execFlushDB(db, cmd) == [Writes(<<>>, Ok) EXCEPT !.flush = TRUE]

\* Only strings have a name; anything else is answered as unknown.
execType(db, cmd) ==
    Reads(IF ~Exists(db, Key(cmd)) THEN Reply("none")
          ELSE IF IsString(db, Key(cmd)) THEN Reply("string") ELSE Reply("unknown"))

MoveCopies(db, cmd) == <<Put(cmd.keys[2], db[cmd.keys[1]])>>

\* PutEntity(dst), then Remove(src).
Move(db, cmd) ==
    <<Put(cmd.keys[2], db[cmd.keys[1]]), Put(cmd.keys[1], Absent)>>

execRename(db, cmd) ==
    IF Exists(db, cmd.keys[1]) THEN Writes(Move(db, cmd), Ok) ELSE Reads(Reply("nosuchkey"))

execRenameNX(db, cmd) ==
    IF ~Exists(db, cmd.keys[1]) THEN Reads(Reply("nosuchkey"))
    ELSE IF Exists(db, cmd.keys[2]) THEN Reads(IntReply(0))
    ELSE Writes(Move(db, cmd), IntReply(1))

-----------------------------------------------------------------------------
(* list.go                                                                 *)

\* getAsList: a key that is absent reads as a new, empty list.
BadType(db, cmd) == Exists(db, Key(cmd)) /\ ~IsList(db, Key(cmd))

execPush(db, cmd, l) ==
    IF BadType(db, cmd) THEN Reads(WrongType)
    ELSE Writes(<<Put(Key(cmd), List(l))>>, IntReply(Len(l)))

execLPush(db, cmd) == execPush(db, cmd, PushFront(cmd.vals, Listed(db, cmd)))

execRPush(db, cmd) == execPush(db, cmd, Listed(db, cmd) \o cmd.vals)

\* The list loses one element; the key goes with the last one.
execPop(db, cmd, at, rest) ==
    IF ~Exists(db, Key(cmd)) THEN Reads(NullBulk)
    ELSE IF BadType(db, cmd) THEN Reads(WrongType)
    ELSE IF Listed(db, cmd) = <<>> THEN Reads(NullBulk)
    ELSE Writes(<<Put(Key(cmd), IF Len(Listed(db, cmd)) = 1 THEN Absent ELSE List(rest))>>,
                Bulk(Listed(db, cmd)[at]))

execLPop(db, cmd) == execPop(db, cmd, 1, Tail(Listed(db, cmd)))

execRPop(db, cmd) ==
    LET l == Listed(db, cmd) IN execPop(db, cmd, Len(l), SubSeq(l, 1, Len(l) - 1))

ClampedExclusive(start, stop, size) ==
    LET from == FromEnd(start, size)
        to == FromEnd(stop, size)
    IN  <<IF from < 0 THEN 0 ELSE from, (IF to >= size THEN size ELSE to) - 1>>

\* The bounds as the code clamps them, then the elements between them.
Clamped(start, stop, size) ==
    LET from == FromEnd(start, size)
        to == FromEnd(stop, size)
    IN  <<IF from < 0 THEN 0 ELSE from, IF to >= size THEN size - 1 ELSE to>>

execLRange(db, cmd) ==
    LET l == Listed(db, cmd)
        b == Clamped(cmd.nums[1], cmd.nums[2], Len(l))
    IN  IF NotInt \in {cmd.nums[1], cmd.nums[2]} THEN Reads(Reply("notinteger"))
        ELSE IF ~Exists(db, Key(cmd)) THEN Reads(MultiBulk(<<>>))
        ELSE IF BadType(db, cmd) THEN Reads(WrongType)
        ELSE IF b[1] > b[2] THEN Reads(MultiBulk(<<>>))
        ELSE Reads(MultiBulk(SubSeq(l, b[1] + 1, b[2] + 1)))

execLLen(db, cmd) ==
    IF BadType(db, cmd) THEN Reads(WrongType) ELSE Reads(IntReply(Len(Listed(db, cmd))))

\* The element an index stands for: walked to from the nearer end.
Position(index, size) ==
    IF index < size \div 2 THEN 1 + index ELSE size - (size - 1 - index)

InRange(index, size) == FromEnd(index, size) >= 0 /\ FromEnd(index, size) < size

execLIndex(db, cmd) ==
    LET l == Listed(db, cmd)
        index == cmd.nums[1]
    IN  IF index = NotInt THEN Reads(Reply("notinteger"))
        ELSE IF ~Exists(db, Key(cmd)) THEN Reads(NullBulk)
        ELSE IF BadType(db, cmd) THEN Reads(WrongType)
        ELSE IF ~InRange(index, Len(l)) THEN Reads(NullBulk)
        ELSE Reads(Bulk(l[Position(FromEnd(index, Len(l)), Len(l))]))

execLSet(db, cmd) ==
    LET l == Listed(db, cmd)
        index == cmd.nums[1]
        at == Position(FromEnd(index, Len(l)), Len(l))
    IN  IF index = NotInt THEN Reads(Reply("notinteger"))
        ELSE IF ~Exists(db, Key(cmd)) THEN Reads(Reply("nosuchkey"))
        ELSE IF BadType(db, cmd) THEN Reads(WrongType)
        ELSE IF ~InRange(index, Len(l)) THEN Reads(Reply("outofrange"))
        ELSE Writes(<<Put(Key(cmd), List([l EXCEPT ![at] = cmd.vals[1]]))>>, Ok)

Ping(db, cmd) == Reads(Reply("pong"))

-----------------------------------------------------------------------------
(* The command table                                                       *)

Entry(p, a) == [prepare |-> p, arity |-> a]

cmdTable ==
    [GET    |-> Entry("readFirstKey", 2),   SET      |-> Entry("writeFirstKey", 3),
     SETNX  |-> Entry("writeFirstKey", 3),  GETSET   |-> Entry("readFirstKey", 3),
     STRLEN |-> Entry("readFirstKey", 2),
     DEL    |-> Entry("writeAllKeys", -2),  EXIST    |-> Entry("readAllKeys", -2),
     TYPE   |-> Entry("readFirstKey", 2),   FLUSHDB  |-> Entry("writeAllKeys", 1),
     RENAME |-> Entry("prepareRename", 3),  RENAMENX |-> Entry("prepareRename", 3),
     LPUSH  |-> Entry("writeFirstKey", -3), RPUSH    |-> Entry("writeFirstKey", -3),
     LPOP   |-> Entry("writeFirstKey", 2),  RPOP     |-> Entry("writeFirstKey", 2),
     LRANGE |-> Entry("readFirstKey", 4),   LLEN     |-> Entry("readFirstKey", 2),
     LINDEX |-> Entry("readFirstKey", 3),   LSET     |-> Entry("writeFirstKey", 4),
     PING   |-> Entry("noPrepare", 1)]

ArgCount(cmd) == 1 + Len(cmd.keys) + Len(cmd.vals) + Len(cmd.nums)

ValidateArity(arity, n) == IF arity >= 0 THEN arity = n ELSE -arity <= n

Accepted(cmd) ==
    cmd.op \in DOMAIN cmdTable /\ ValidateArity(cmdTable[cmd.op].arity, ArgCount(cmd))

\* A command line, and how many of the arguments of a command it accepts are
\* keys and integers: the others are values.
CmdLineType == [op : STRING, keys : Seq(Keys), vals : Seq(Values), nums : Seq(Int \cup {NotInt})]

NumArgs(op) ==
    IF op = "LRANGE" THEN 2 ELSE IF op \in {"LINDEX", "LSET"} THEN 1 ELSE 0

WellFormed(cmd) ==
    /\ Len(cmd.nums) = NumArgs(cmd.op)
    /\ cmdTable[cmd.op].prepare \in {"readFirstKey", "writeFirstKey"} => Len(cmd.keys) = 1
    /\ cmdTable[cmd.op].prepare = "prepareRename" => Len(cmd.keys) = 2
    /\ cmdTable[cmd.op].prepare \in {"readAllKeys", "writeAllKeys"} => cmd.vals = <<>>

KeySet(cmd) == {cmd.keys[i] : i \in 1 .. Len(cmd.keys)}

prepareReadsFirst(cmd) == [write |-> {}, read |-> KeySet(cmd)]

\* The keys RWLocks is asked to lock.
prepare(cmd) ==
    LET f == cmdTable[cmd.op].prepare IN
    CASE f = "readFirstKey"  -> [write |-> {}, read |-> {Key(cmd)}]
      [] f = "writeFirstKey" -> [write |-> {Key(cmd)}, read |-> {}]
      [] f = "writeAllKeys"  -> [write |-> KeySet(cmd), read |-> {}]
      [] f = "readAllKeys"   -> [write |-> {}, read |-> KeySet(cmd)]
      [] f = "prepareRename" -> [write |-> {cmd.keys[2]}, read |-> {cmd.keys[1]}]
      [] f = "noPrepare"     -> [write |-> {}, read |-> {}]

exec(db, cmd) ==
    CASE cmd.op = "GET"      -> execGet(db, cmd)
      [] cmd.op = "SET"      -> execSet(db, cmd)
      [] cmd.op = "SETNX"    -> execSetNX(db, cmd)
      [] cmd.op = "GETSET"   -> execGetSet(db, cmd)
      [] cmd.op = "STRLEN"   -> execStrlen(db, cmd)
      [] cmd.op = "DEL"      -> execDel(db, cmd)
      [] cmd.op = "EXIST"    -> execExist(db, cmd)
      [] cmd.op = "TYPE"     -> execType(db, cmd)
      [] cmd.op = "FLUSHDB"  -> execFlushDB(db, cmd)
      [] cmd.op = "RENAME"   -> execRename(db, cmd)
      [] cmd.op = "RENAMENX" -> execRenameNX(db, cmd)
      [] cmd.op = "LPUSH"    -> execLPush(db, cmd)
      [] cmd.op = "RPUSH"    -> execRPush(db, cmd)
      [] cmd.op = "LPOP"     -> execLPop(db, cmd)
      [] cmd.op = "RPOP"     -> execRPop(db, cmd)
      [] cmd.op = "LRANGE"   -> execLRange(db, cmd)
      [] cmd.op = "LLEN"     -> execLLen(db, cmd)
      [] cmd.op = "LINDEX"   -> execLIndex(db, cmd)
      [] cmd.op = "LSET"     -> execLSet(db, cmd)
      [] cmd.op = "PING"     -> Ping(db, cmd)

\* An unknown name and a wrong number of arguments are refused without a lock.
execNormalCommand(db, cmd) ==
    IF cmd.op \notin DOMAIN cmdTable THEN Reads(Reply("unknowncommand"))
    ELSE IF ~Accepted(cmd) THEN Reads(Reply("argnum"))
    ELSE exec(db, cmd)
=============================================================================
