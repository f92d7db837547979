---------------------------- MODULE Collections -----------------------------
(***************************************************************************)
(* The set, hash and sorted-set commands of package database on a          *)
(* database, and next to it the database that LoadAof would build from the *)
(* append-only file at that moment.                                        *)
(*                                                                         *)
(* A command line is [op, keys, args, vals, nums]: members or fields,      *)
(* values, and numbers (counts, ranks or scores; NotInt if not a number).  *)
(* The commands run one at a time: DB.tla has the locks around them.       *)
(***************************************************************************)
EXTENDS HashSet, Hash, ZSet, Replies

LOCAL Ext == INSTANCE SequencesExt

CONSTANTS
    Keys,
    Workloads    \* by name, sets of command lines that are used together

VARIABLES
    work,        \* the name of this behaviour's workload
    mem,         \* the database in memory
    file,        \* what LoadAof would make of the file
    unsure       \* keys whose command is logged in a way that may differ

vars == <<work, mem, file, unsure>>

-----------------------------------------------------------------------------
(* Entities and outcomes                                                   *)

Entity(t, o) == [type |-> t, obj |-> o]
Absent == Entity("none", [none |-> TRUE])
Str(v) == Entity("string", [value |-> v])

Is(db, k, t) == db[k].type = t
Has(db, k) == ~Is(db, k, "none")

\* An outcome of a command: the database, the lines given to addAof, the reply.
Result(db, log, rep) == [db |-> db, log |-> log, reply |-> rep]
Answer(db, rep) == Result(db, <<>>, rep)
Put(db, k, t, o) == [db EXCEPT ![k] = Entity(t, o)]
Remove(db, k) == [db EXCEPT ![k] = Absent]

Key(line) == line.keys[1]

\* x after each of the arguments in turn.
After(Op(_, _), x, args) ==
    LET after[i \in 0 .. Len(args)] == IF i = 0 THEN x ELSE Op(after[i - 1], args[i]) IN after

\* The number of arguments that find the object as Test says.
Counted(after, args, Test(_, _)) == Cardinality({i \in DOMAIN args : Test(after[i - 1], args[i])})

-----------------------------------------------------------------------------
(* set.go                                                                  *)

\* getAsSet and getOrInitSet: an absent key reads as a new set.
SetAt(db, k) == IF Is(db, k, "set") THEN db[k].obj ELSE NewHashSet
NoSet(db, k) == Has(db, k) /\ ~Is(db, k, "set")

\* An empty set goes with its key.
PutSet(db, k, set) == IF SetLen(set) = 0 THEN Remove(db, k) ELSE Put(db, k, "set", set)

execSAdd(db, line) ==
    LET after == After(SetAdd, SetAt(db, Key(line)), line.args)
        count == Counted(after, line.args, LAMBDA set, m : ~SetContains(set, m))
    IN  IF NoSet(db, Key(line)) THEN {Answer(db, WrongType)}
        ELSE IF ~Has(db, Key(line)) \/ count > 0
        THEN {Result(Put(db, Key(line), "set", after[Len(line.args)]), <<line>>, IntReply(count))}
        ELSE {Answer(db, IntReply(0))}

execSCard(db, line) ==
    {Answer(db, IF NoSet(db, Key(line)) THEN WrongType ELSE IntReply(SetLen(SetAt(db, Key(line)))))}

execSIsMember(db, line) ==
    {Answer(db, IF NoSet(db, Key(line)) THEN WrongType
                ELSE IntReply(IF SetContains(SetAt(db, Key(line)), line.args[1]) THEN 1 ELSE 0))}

\* A set is replied in no order of its own.
execSMembers(db, line) ==
    {Answer(db, IF NoSet(db, Key(line)) THEN WrongType
                ELSE MultiBulk(Ext!SetToSeq(SetMembers(SetAt(db, Key(line))))))}

execSRem(db, line) ==
    LET after == After(SetRemove, SetAt(db, Key(line)), line.args)
        count == Counted(after, line.args, SetContains)
    IN  IF NoSet(db, Key(line)) THEN {Answer(db, WrongType)}
        ELSE IF count = 0 THEN {Answer(db, IntReply(0))}
        ELSE {Result(PutSet(db, Key(line), after[Len(line.args)]), <<line>>, IntReply(count))}

\* Logged as SPOP key count, with the count that was there to be popped.
execSPop(db, line) ==
    LET set == SetAt(db, Key(line))
        asked == IF line.nums = <<>> THEN 1 ELSE line.nums[1]
        count == IF asked > SetLen(set) THEN SetLen(set) ELSE asked
        logged == [line EXCEPT !.nums = <<count>>]
        popped(ms) == Ext!FoldLeft(SetRemove, set, Ext!SetToSeq(ms))
        rep(ms) == IF count = 1 THEN Bulk(Ext!SetToSeq(ms)[1]) ELSE MultiBulk(Ext!SetToSeq(ms))
    IN  IF asked = NotInt THEN {Answer(db, Error)}
        ELSE IF asked < 0 THEN {Answer(db, Error)}
        ELSE IF NoSet(db, Key(line)) THEN {Answer(db, WrongType)}
        ELSE IF SetLen(set) = 0 THEN {Answer(db, NullBulk)}
        ELSE IF asked = 0 THEN {Answer(db, MultiBulk(<<>>))}
        ELSE {Result(PutSet(db, Key(line), popped(ms)), <<logged>>, rep(ms)) :
                ms \in RandomDistinctMembers(set, count)}

\* A negative count draws with replacement.
execSRandMember(db, line) ==
    LET set == SetAt(db, Key(line))
        asked == IF line.nums = <<>> THEN 1 ELSE line.nums[1]
        drawn == IF asked < 0 THEN [1 .. -asked -> SetMembers(set)]
                 ELSE {Ext!SetToSeq(ms) : ms \in RandomDistinctMembers(set, asked)}
        rep(ms) == IF asked \in {1, -1} THEN Bulk(ms[1]) ELSE MultiBulk(ms)
    IN  IF NoSet(db, Key(line)) THEN {Answer(db, WrongType)}
        ELSE IF SetLen(set) = 0 THEN {Answer(db, NullBulk)}
        ELSE IF asked = NotInt THEN {Answer(db, Error)}
        ELSE {Answer(db, rep(ms)) : ms \in drawn}

\* SUNION, SINTER and SDIFF build a set of their own; each gives the replies
\* it may end with.  Which strings of one integer it keeps depends on the
\* order in which a hash table is enumerated.
MembersReplies(sets) == {MultiBulk(Ext!SetToSeq(SetMembers(s))) : s \in sets}

execSUnion(db, keys) ==
    LET bad == {i \in DOMAIN keys : NoSet(db, keys[i])}
        result[i \in 0 .. Len(keys)] ==
            IF i = 0 THEN {NewHashSet}
            ELSE UNION {AddedInAnyOrder(s, SetMembers(SetAt(db, keys[i]))) : s \in result[i - 1]}
    IN  IF bad # {} THEN {WrongType} ELSE MembersReplies(result[Len(keys)])

RemoveAll(set, ms) == Ext!FoldLeft(SetRemove, set, Ext!SetToSeq(ms))

\* The later sets in turn, until one is of another type (WrongType), ends the
\* computation (EmptyMultiBulk), or none is left (Ok).
Narrowed(db, keys, first, Narrow(_, _), Ends(_)) ==
    LET after[i \in 1 .. Len(keys)] ==
            IF i = 1 THEN [rep |-> Ok, set |-> first]
            ELSE LET now == after[i - 1]
                     set == IF Has(db, keys[i]) THEN Narrow(now.set, SetAt(db, keys[i])) ELSE now.set
                 IN  IF now.rep # Ok THEN now
                     ELSE IF NoSet(db, keys[i]) THEN [now EXCEPT !.rep = WrongType]
                     ELSE IF Ends(keys[i]) \/ (Has(db, keys[i]) /\ SetLen(set) = 0) THEN [now EXCEPT !.rep = EmptyMultiBulk]
                     ELSE [now EXCEPT !.set = set]
        last == after[Len(keys)]
    IN  IF last.rep # Ok THEN last.rep ELSE MultiBulk(Ext!SetToSeq(SetMembers(last.set)))

FromFirst(db, keys, Narrow(_, _), Ends(_)) ==
    IF NoSet(db, keys[1]) THEN {WrongType}
    ELSE IF ~Has(db, keys[1]) THEN {EmptyMultiBulk}
    ELSE {Narrowed(db, keys, s, Narrow, Ends) : s \in AddedInAnyOrder(NewHashSet, SetMembers(SetAt(db, keys[1])))}

execSInterSkipsAbsent(db, keys) ==
    FromFirst(db, keys,
              LAMBDA r, s : RemoveAll(r, {m \in SetMembers(r) : ~SetContains(s, m)}),
              LAMBDA k : FALSE)

execSInter(db, keys) ==
    FromFirst(db, keys,
              LAMBDA r, s : RemoveAll(r, {m \in SetMembers(r) : ~SetContains(s, m)}),
              LAMBDA k : ~Has(db, k))

execSDiff(db, keys) ==
    FromFirst(db, keys, LAMBDA r, s : RemoveAll(r, SetMembers(s)), LAMBDA k : FALSE)

\* SUNIONSTORE, SINTERSTORE and SDIFFSTORE store what the other command
\* replied.  An EmptyMultiBulk is answered and the destination left as it was.
Store(db, line, replies, empty) ==
    UNION {IF r.kind = "wrongtype" THEN {Answer(db, r)}
           ELSE IF r = EmptyMultiBulk THEN {Answer(db, empty)}
           ELSE {Result(Put(db, Key(line), "set", s), <<line>>, IntReply(SetLen(s))) :
                    s \in AddedInAnyOrder(NewHashSet, Ext!ToSet(r.vals))}
           : r \in replies}

execSUnionStore(db, line) == Store(db, line, execSUnion(db, Tail(line.keys)), EmptyMultiBulk)
execSInterStore(db, line) == Store(db, line, execSInter(db, Tail(line.keys)), EmptyMultiBulk)
execSDiffStore(db, line) == Store(db, line, execSDiff(db, Tail(line.keys)), IntReply(0))

-----------------------------------------------------------------------------
(* hash.go: a key of another type gives a nil *Hash, which panics when it  *)
(* is used.                                                                *)

HashAt(db, k) == IF Is(db, k, "hash") THEN db[k].obj ELSE MakeHash
NoHash(db, k) == Has(db, k) /\ ~Is(db, k, "hash")

SetPairs(h, line) ==
    LET after[i \in 0 .. Len(line.args)] ==
            IF i = 0 THEN h ELSE HashSetField(after[i - 1], line.args[i], line.vals[i])
    IN  after[Len(line.args)]

execHSet(db, line) ==
    LET old == HashAt(db, Key(line))
        new == SetPairs(old, line)
    IN  IF NoHash(db, Key(line)) THEN {Answer(db, Panic)}
        ELSE {Result(Put(db, Key(line), "hash", new), <<line>>, IntReply(IF HashExists(old, line.args[1]) THEN 0 ELSE 1))}

execHMSet(db, line) ==
    IF Len(line.args) # Len(line.vals) THEN {Answer(db, Error)}
    ELSE IF NoHash(db, Key(line)) THEN {Answer(db, Panic)}
    ELSE {Result(Put(db, Key(line), "hash", SetPairs(HashAt(db, Key(line)), line)), <<line>>, Ok)}

execHSetNXNotLogged(db, line) ==
    IF NoHash(db, Key(line)) THEN {Answer(db, Panic)}
    ELSE IF HashExists(HashAt(db, Key(line)), line.args[1]) THEN {Answer(db, IntReply(0))}
    ELSE {Answer(Put(db, Key(line), "hash", SetPairs(HashAt(db, Key(line)), line)), IntReply(1))}

execHSetNX(db, line) ==
    IF NoHash(db, Key(line)) THEN {Answer(db, Panic)}
    ELSE IF HashExists(HashAt(db, Key(line)), line.args[1]) THEN {Answer(db, IntReply(0))}
    ELSE {Result(Put(db, Key(line), "hash", SetPairs(HashAt(db, Key(line)), line)), <<line>>, IntReply(1))}

execHDel(db, line) ==
    LET after == After(HashDelete, HashAt(db, Key(line)), line.args)
        new == after[Len(line.args)]
        deleted == Counted(after, line.args, HashExists)
        left == IF HashLen(new) = 0 THEN Remove(db, Key(line)) ELSE Put(db, Key(line), "hash", new)
    IN  IF ~Has(db, Key(line)) THEN {Answer(db, IntReply(0))}
        ELSE IF NoHash(db, Key(line)) THEN {Answer(db, Panic)}
        ELSE {Result(left, IF deleted > 0 THEN <<line>> ELSE <<>>, IntReply(deleted))}

\* HGET, HEXISTS, HLEN, HGETALL, HKEYS, HVALS, HMGET and HENCODING answer
\* absent for an absent key and panic on another type.
ReadHash(db, line, absent, Of(_)) ==
    {Answer(db, IF ~Has(db, Key(line)) THEN absent
                ELSE IF NoHash(db, Key(line)) THEN Panic ELSE Of(HashAt(db, Key(line))))}

GetField(h, f) == IF HashExists(h, f) THEN HashGet(h, f) ELSE NullBulk.kind

execHGet(db, line) ==
    ReadHash(db, line, NullBulk,
             LAMBDA h : IF HashExists(h, line.args[1]) THEN Bulk(HashGet(h, line.args[1])) ELSE NullBulk)
execHExists(db, line) ==
    ReadHash(db, line, IntReply(0), LAMBDA h : IntReply(IF HashExists(h, line.args[1]) THEN 1 ELSE 0))
execHLen(db, line) == ReadHash(db, line, IntReply(0), LAMBDA h : IntReply(HashLen(h)))
execHGetAll(db, line) ==
    ReadHash(db, line, EmptyMultiBulk,
             LAMBDA h : MultiBulk(Ext!FlattenSeq([i \in 1 .. HashLen(h) |-> <<Fields(h)[i], HashGet(h, Fields(h)[i])>>])))
execHKeys(db, line) == ReadHash(db, line, EmptyMultiBulk, LAMBDA h : MultiBulk(Fields(h)))
execHVals(db, line) ==
    ReadHash(db, line, EmptyMultiBulk, LAMBDA h : MultiBulk([i \in 1 .. HashLen(h) |-> HashGet(h, Fields(h)[i])]))
execHMGet(db, line) ==
    ReadHash(db, line, MultiBulk([i \in DOMAIN line.args |-> NullBulk.kind]),
             LAMBDA h : MultiBulk([i \in DOMAIN line.args |-> GetField(h, line.args[i])]))
execHEncoding(db, line) ==
    ReadHash(db, line, NullBulk, LAMBDA h : IntReply(IF h.encoding = "listpack" THEN 0 ELSE 1))

-----------------------------------------------------------------------------
(* zset.go                                                                 *)

ZSetAt(db, k) == IF Is(db, k, "zset") THEN db[k].obj ELSE NewZSet
NoZSet(db, k) == Has(db, k) /\ ~Is(db, k, "zset")

\* What adding the first n pairs may give.
ZAddPairs(z, line, n, heights) ==
    LET after[i \in 0 .. n] ==
            IF i = 0 THEN {z} ELSE UNION {ZAdd(y, line.args[i], line.nums[i], heights) : y \in after[i - 1]}
    IN  after[n]

ZAddStoresRefused(db, k, zs) == {Answer(Put(db, k, "zset", z), Error) : z \in zs}

\* The pairs before the first that is no score are added to the object, which
\* is in the database already unless the key is new.
ZAddRefused(db, k, zs) ==
    IF Has(db, k) THEN {Answer(Put(db, k, "zset", z), Error) : z \in zs} ELSE {Answer(db, Error)}

execZAdd(db, line, heights) ==
    LET old == ZSetAt(db, Key(line))
        bad == {i \in DOMAIN line.nums : line.nums[i] = NotInt}
        good == IF bad = {} THEN Len(line.nums) ELSE (CHOOSE i \in bad : \A j \in bad : i <= j) - 1
        after == ZAddPairs(old, line, good, heights)
    IN  IF Len(line.nums) # Len(line.args) THEN {Answer(db, Error)}
        ELSE IF NoZSet(db, Key(line)) THEN {Answer(db, WrongType)}
        ELSE IF bad = {}
        THEN {Result(Put(db, Key(line), "zset", z), <<line>>, IntReply(ZLen(z) - ZLen(old))) : z \in after}
        ELSE ZAddRefused(db, Key(line), after)

\* The key stays when the last member is removed.
execZRem(db, line) ==
    LET after == After(ZRemove, ZSetAt(db, Key(line)), line.args)
        removed == Counted(after, line.args, LAMBDA z, m : m \in ZMembers(z))
    IN  IF NoZSet(db, Key(line)) THEN {Answer(db, WrongType)}
        ELSE IF removed = 0 THEN {Answer(db, IntReply(0))}
        ELSE {Result(Put(db, Key(line), "zset", after[Len(line.args)]), <<line>>, IntReply(removed))}

ReadZSet(db, line, absent, Of(_)) ==
    IF ~Has(db, Key(line)) THEN {Answer(db, absent)}
    ELSE IF NoZSet(db, Key(line)) THEN {Answer(db, WrongType)}
    ELSE {Answer(db, r) : r \in Of(ZSetAt(db, Key(line)))}

execZScore(db, line) ==
    ReadZSet(db, line, NullBulk,
             LAMBDA z : {IF line.args[1] \in ZMembers(z) THEN IntReply(Score(z, line.args[1])) ELSE NullBulk})

execZCard(db, line) == ReadZSet(db, line, IntReply(0), LAMBDA z : {IntReply(ZLen(z))})

\* A value after the ranks is WITHSCORES.
execZRange(db, line) ==
    LET shown(z, r) == IF line.vals = <<>> THEN r ELSE Ext!FlattenSeq([i \in DOMAIN r |-> <<r[i], Score(z, r[i])>>])
    IN  IF NotInt \in Ext!ToSet(line.nums) THEN {Answer(db, Error)}
        ELSE ReadZSet(db, line, EmptyMultiBulk,
                      LAMBDA z : {MultiBulk(shown(z, r)) : r \in ZRangeByRank(z, line.nums[1], line.nums[2])})

execZCount(db, line) ==
    IF NotInt \in Ext!ToSet(line.nums) THEN {Answer(db, Error)}
    ELSE ReadZSet(db, line, IntReply(0), LAMBDA z : {IntReply(Count(z, line.nums[1], line.nums[2]))})

\* A listpack is sorted and searched; a skip list is asked.
Ranks(z, m) ==
    IF z.encoding = "skiplist" THEN {GetRank(z.skiplist, m, z.dict[m])}
    ELSE {Ext!SelectInSeq(p, LAMBDA n : n = m) - 1 : p \in ZRangeByRank(z, 0, -1)}

execZRank(db, line) ==
    ReadZSet(db, line, NullBulk,
             LAMBDA z : IF line.args[1] \notin ZMembers(z) THEN {NullBulk}
                        ELSE {IF r = -1 THEN NullBulk ELSE IntReply(r) : r \in Ranks(z, line.args[1])})

-----------------------------------------------------------------------------
(* The commands; SET and DEL of the other files give and take keys of      *)
(* another type.                                                           *)

execSet(db, line) == {Result([db EXCEPT ![Key(line)] = Str(line.vals[1])], <<line>>, Ok)}

execDel(db, line) ==
    IF Has(db, Key(line)) THEN {Result(Remove(db, Key(line)), <<line>>, IntReply(1))} ELSE {Answer(db, IntReply(0))}

\* heights are the levels that new nodes of skip lists may get.
Outcomes(db, line, heights) ==
    CASE line.op = "SADD"        -> execSAdd(db, line)
      [] line.op = "SCARD"       -> execSCard(db, line)
      [] line.op = "SISMEMBER"   -> execSIsMember(db, line)
      [] line.op = "SMEMBERS"    -> execSMembers(db, line)
      [] line.op = "SREM"        -> execSRem(db, line)
      [] line.op = "SPOP"        -> execSPop(db, line)
      [] line.op = "SRANDMEMBER" -> execSRandMember(db, line)
      [] line.op = "SUNION"      -> {Answer(db, r) : r \in execSUnion(db, line.keys)}
      [] line.op = "SINTER"      -> {Answer(db, r) : r \in execSInter(db, line.keys)}
      [] line.op = "SDIFF"       -> {Answer(db, r) : r \in execSDiff(db, line.keys)}
      [] line.op = "SUNIONSTORE" -> execSUnionStore(db, line)
      [] line.op = "SINTERSTORE" -> execSInterStore(db, line)
      [] line.op = "SDIFFSTORE"  -> execSDiffStore(db, line)
      [] line.op = "HSET"        -> execHSet(db, line)
      [] line.op = "HGET"        -> execHGet(db, line)
      [] line.op = "HEXISTS"     -> execHExists(db, line)
      [] line.op = "HDEL"        -> execHDel(db, line)
      [] line.op = "HLEN"        -> execHLen(db, line)
      [] line.op = "HGETALL"     -> execHGetAll(db, line)
      [] line.op = "HKEYS"       -> execHKeys(db, line)
      [] line.op = "HVALS"       -> execHVals(db, line)
      [] line.op = "HMGET"       -> execHMGet(db, line)
      [] line.op = "HMSET"       -> execHMSet(db, line)
      [] line.op = "HENCODING"   -> execHEncoding(db, line)
      [] line.op = "HSETNX"      -> execHSetNX(db, line)
      [] line.op = "ZADD"        -> execZAdd(db, line, heights)
      [] line.op = "ZSCORE"      -> execZScore(db, line)
      [] line.op = "ZCARD"       -> execZCard(db, line)
      [] line.op = "ZRANGE"      -> execZRange(db, line)
      [] line.op = "ZREM"        -> execZRem(db, line)
      [] line.op = "ZCOUNT"      -> execZCount(db, line)
      [] line.op = "ZRANK"       -> execZRank(db, line)
      [] line.op = "SET"         -> execSet(db, line)
      [] line.op = "DEL"         -> execDel(db, line)

-----------------------------------------------------------------------------
(* The system                                                              *)

Init ==
    /\ work \in DOMAIN Workloads
    /\ mem = [k \in Keys |-> Absent]
    /\ file = mem
    /\ unsure = {}

Stores == {"SUNIONSTORE", "SINTERSTORE", "SDIFFSTORE"}

\* A ghost: the keys whose contents the file need not give back, because the
\* command draws at random, or enumerates a map, or was refused half-way, or
\* took something from such a key.
UnsureAfter(line, outcome) ==
    LET k == Key(line)
        exact == CASE line.op = "SPOP" -> k \notin unsure /\ ~Has(outcome.db, k)
                   [] line.op \in Stores ->
                        /\ unsure \cap Ext!ToSet(Tail(line.keys)) = {}
                        /\ Cardinality({<<o.db, o.log>> : o \in Outcomes(mem, line, {1})}) = 1
                   [] line.op \in {"SET", "DEL"} -> TRUE
                   [] OTHER -> k \notin unsure
    IN  IF outcome.log # <<>> THEN IF exact THEN unsure \ {k} ELSE unsure \cup {k}
        ELSE IF line.op = "ZADD" /\ outcome.db # mem THEN unsure \cup {k} ELSE unsure

\* A client's command.  What is logged is also replayed from the file; a
\* replay draws again.
Exec(line) ==
    \E outcome \in Outcomes(mem, line, 1 .. maxLevel) :
        /\ mem' = outcome.db
        /\ unsure' = UnsureAfter(line, outcome)
        /\ IF outcome.log = <<>> THEN UNCHANGED file
           ELSE \E again \in Outcomes(file, outcome.log[1], {1}) : file' = again.db
        /\ UNCHANGED work

\* The server is started again and loads the file.
Restart ==
    /\ mem' = file
    /\ unsure' = {}
    /\ UNCHANGED <<work, file>>

Next == (\E line \in Workloads[work] : Exec(line)) \/ Restart

Spec == Init /\ [][Next]_vars
=============================================================================
