--------------------------- MODULE CollectionLaws ---------------------------
(***************************************************************************)
(* The set, hash and sorted-set commands against reference definitions, on *)
(* every database that the commands of a run build.                        *)
(***************************************************************************)
EXTENDS Collections

LOCAL Seqs == INSTANCE SequencesExt

CONSTANTS
    RankArgs,    \* the integers tried as ranks, beyond both ends of a range
    Bounds       \* the numbers tried as bounds of scores

-----------------------------------------------------------------------------
(* Reference definitions                                                   *)

Line(op, keys, args, vals, nums) ==
    [op |-> op, keys |-> keys, args |-> args, vals |-> vals, nums |-> nums]

\* The string that an intset returns for m.
Canon(m) == IF parse[m] = NotInt THEN m ELSE format[parse[m]]

SetsOf(db) == {k \in Keys : Is(db, k, "set")}
ZSetsOf(db) == {k \in Keys : Is(db, k, "zset")}

\* What a key holds, as a function of members or fields.
Content(e) ==
    CASE e.type = "set" -> [m \in SetMembers(e.obj) |-> 0]
      [] e.type = "hash" -> GetAll(e.obj)
      [] e.type = "zset" -> [m \in ZMembers(e.obj) |-> Score(e.obj, m)]
      [] OTHER -> <<>>

Size(db, k) == Cardinality(DOMAIN Content(db[k]))

Adds == {"SADD", "HSET", "HSETNX", "ZADD"}
Removes == {"SREM", "HDEL", "ZREM"}
Edits == Adds \cup Removes \cup {"HMSET"}
Errors == {"wrongtype", "panic", "error"}

\* The outcomes of the workload's commands on the database in memory.
Tried(ops) ==
    UNION {{[line |-> line, out |-> o] : o \in Outcomes(mem, line, 1 .. maxLevel)} :
              line \in {l \in Workloads[work] : l.op \in ops}}

\* The last index of x in s.
LastOf(s, x) == CHOOSE i \in DOMAIN s : s[i] = x /\ \A j \in DOMAIN s : s[j] = x => j <= i

\* The elements of p whose zero-based position lies between two ranks.
Slice(p, i, j) ==
    LET at(x) == IF x < 0 THEN Len(p) + x ELSE x
        inside == {q \in 1 .. Len(p) : at(i) <= q - 1 /\ q - 1 <= at(j)}
        first == CHOOSE q \in inside : \A r \in inside : q <= r
    IN  [n \in 1 .. Cardinality(inside) |-> p[first + n - 1]]

\* The members in the order of their scores, those of a score in the order of
\* the strings.
InOrder(z) ==
    LET below(m) == {n \in ZMembers(z) : Score(z, n) < Score(z, m)
                                         \/ (Score(z, n) = Score(z, m) /\ order[n] < order[m])}
    IN  [i \in 1 .. Cardinality(ZMembers(z)) |->
            CHOOSE m \in ZMembers(z) : Cardinality(below(m)) = i - 1]

-----------------------------------------------------------------------------
(* Properties                                                              *)

\* An intset is strictly sorted and every element fits its encoding, however
\* additions, removals, upgrades of the encoding and restarts alternate: what
\* findPosition's binary search relies on.
IntSetSound ==
    \A k \in SetsOf(mem) : mem[k].obj.isIntset =>
        LET is == mem[k].obj.intset IN
        /\ is.length <= Len(is.contents) /\ is.length <= intsetMax
        /\ \A i \in 1 .. is.length : Fits(is.contents[i], is.encoding) /\ is.contents[i] \in DOMAIN format
        /\ \A i \in 1 .. is.length - 1 : is.contents[i] < is.contents[i + 1]

\* A command that adds, sets or removes elements leaves every element it does
\* not name (under any string of the same integer) as it was, also when it
\* changes the encoding of the collection, and leaves other keys alone.
OthersKept ==
    \A t \in Tried(Edits) : \A k \in Keys :
        LET named == {m \in Members : \E i \in DOMAIN t.line.args : Canon(m) = Canon(t.line.args[i])}
            before == Content(mem[k])
            after == Content(t.out.db[k])
            others == DOMAIN before \ (IF k = Key(t.line) THEN named ELSE {})
        IN  /\ \A m \in others : m \in DOMAIN after /\ after[m] = before[m]
            /\ DOMAIN after \subseteq others \cup (IF k = Key(t.line) THEN named ELSE {})

\* A command that answers without an error has done what it was asked for
\* each element it names: an added member is found (under the string that
\* FormatInt writes for it, if the set has become a hash table), a field has
\* the last value given for it, a member the last score given for it (as exact
\* as the encoding keeps it), and a removed element is not found.
AsAsked ==
    \A t \in Tried(Edits) : t.out.reply.kind \notin Errors =>
        LET e == t.out.db[Key(t.line)]
            args == t.line.args
        IN  \A i \in DOMAIN args :
            CASE t.line.op = "SADD" -> SetContains(e.obj, args[i]) \/ SetContains(e.obj, Canon(args[i]))
              [] t.line.op = "SREM" -> e.type = "set" => ~SetContains(e.obj, args[i])
              [] t.line.op \in {"HSET", "HMSET"} -> Content(e)[args[i]] = t.line.vals[LastOf(args, args[i])]
              [] t.line.op = "HSETNX" ->
                    Content(e)[args[i]] = IF t.out.reply.n = 1 THEN t.line.vals[i] ELSE Content(mem[Key(t.line)])[args[i]]
              [] t.line.op = "ZADD" ->
                    LET s == t.line.nums[LastOf(args, args[i])] IN
                    Content(e)[args[i]] \in
                        IF e.obj.encoding = "listpack" THEN {formatScore(s)}
                        ELSE {s} \cup (IF Size(mem, Key(t.line)) <= listpackMaxSize THEN {formatScore(s)} ELSE {})
              [] OTHER -> args[i] \notin DOMAIN Content(e)

\* The number that SADD, HSET, HSETNX, ZADD, SREM, HDEL or ZREM answers is
\* the number of elements that came or went, and SCARD, HLEN and ZCARD answer
\* how many SMEMBERS, HKEYS and ZRANGE list.
CountsExact ==
    /\ \A t \in Tried(Adds \cup Removes) : t.out.reply.kind = "int" =>
        t.out.reply.n = (IF t.line.op \in Adds THEN 1 ELSE -1) * (Size(t.out.db, Key(t.line)) - Size(mem, Key(t.line)))
    /\ \A k \in Keys : \A ops \in {<<"set", "SCARD", "SMEMBERS">>, <<"hash", "HLEN", "HKEYS">>, <<"zset", "ZCARD", "ZRANGE">>} :
        Is(mem, k, ops[1]) =>
            \A n \in Outcomes(mem, Line(ops[2], <<k>>, <<>>, <<>>, <<>>), {1}),
               l \in Outcomes(mem, Line(ops[3], <<k>>, <<>>, <<>>, <<0, -1>>), {1}) :
                n.reply.n = Len(l.reply.vals) /\ Seqs!ToSet(l.reply.vals) = DOMAIN Content(mem[k])

\* SUNION, SINTER and SDIFF return the union, intersection and difference
\* (SUNION of the integers, when several strings of one are members), and the
\* STORE commands store it and answer its size.  SINTERSTORE and SDIFFSTORE may
\* store nothing only if the result is empty; what is then in the destination
\* (the code leaves the old set there) is not judged.
SetAlgebra ==
    \A j, k \in Keys : (~NoSet(mem, j) /\ ~NoSet(mem, k)) =>
        LET a == SetMembers(SetAt(mem, j))
            b == SetMembers(SetAt(mem, k))
            canonical == \A m \in a \cup b : Canon(m) = m
            lists(rs, ms) == \A r \in rs : Seqs!ToSet(r.vals) = ms
            stored(op, ms) == \A d \in Keys : \A o \in Outcomes(mem, Line(op, <<d, j, k>>, <<>>, <<>>, <<>>), {1}) :
                IF o.log = <<>> THEN ms = {}
                ELSE SetMembers(o.db[d].obj) = ms /\ o.reply.n = Cardinality(ms)
        IN  /\ \A r \in execSUnion(mem, <<j, k>>) : {Canon(r.vals[i]) : i \in DOMAIN r.vals} = {Canon(m) : m \in a \cup b}
            /\ canonical => /\ lists(execSUnion(mem, <<j, k>>), a \cup b) /\ stored("SUNIONSTORE", a \cup b)
                            /\ lists(execSInter(mem, <<j, k>>), a \cap b) /\ stored("SINTERSTORE", a \cap b)
                            /\ lists(execSDiff(mem, <<j, k>>), a \ b) /\ stored("SDIFFSTORE", a \ b)

\* A skip list is one: the lowest level links the members in the order of
\* their scores, every higher level those of them that have the level, tail,
\* level and length agree with it, and the map has the same scores.
SkipListSound ==
    \A k \in ZSetsOf(mem) : mem[k].obj.encoding = "skiplist" =>
        LET z == mem[k].obj
            sl == z.skiplist
            all == InOrder(z)
        IN  /\ sl.Score = z.dict /\ sl.length = Len(all)
            /\ \A i \in 1 .. maxLevel :
                /\ Chain(sl, i) = SelectSeq(all, LAMBDA m : Len(sl.Forward[m]) >= i)
                /\ (Chain(sl, i) # <<>> \/ i = 1) <=> i <= sl.level
            /\ sl.tail = IF all = <<>> THEN Nil ELSE all[Len(all)]

\* ZRANGE returns the members at the ranks asked for in the order of their
\* scores (in a skip list also of their strings), ZCOUNT the number of scores
\* in an interval, and RangeByScore a window of those members.
RangesExact ==
    \A k \in ZSetsOf(mem) :
        LET z == mem[k].obj
            within(min, max) == SelectSeq(InOrder(z), LAMBDA m : Score(z, m) >= min /\ Score(z, m) <= max)
        IN  /\ \A i, j \in RankArgs : \A r \in ZRangeByRank(z, i, j) :
                IF z.encoding = "skiplist" THEN r = Slice(InOrder(z), i, j)
                ELSE /\ [n \in DOMAIN r |-> Score(z, r[n])]
                          = [n \in DOMAIN Slice(InOrder(z), i, j) |-> Score(z, Slice(InOrder(z), i, j)[n])]
                     /\ Cardinality(Seqs!ToSet(r)) = Len(r)
            /\ \A min, max \in Bounds :
                /\ Count(z, min, max) = Len(within(min, max))
                /\ z.encoding = "skiplist" =>
                    /\ RangeByScore(z.skiplist, min, max, -1, 0) = within(min, max)
                    /\ RangeByScore(z.skiplist, min, max, 1, 1) = Slice(within(min, max), 1, 1)

\* ZRANK finds every member.  In a listpack it answers a rank that the score
\* allows; in a skip list no more than the rank, for GetRank counts the links
\* it follows and not the nodes they pass: 0 only for the first member, and
\* the rank itself when every node has height 1.
RankBound ==
    \A k \in ZSetsOf(mem) :
        LET z == mem[k].obj
            less(m) == Cardinality({n \in ZMembers(z) : Score(z, n) < Score(z, m)})
            same(m) == Cardinality({n \in ZMembers(z) : Score(z, n) = Score(z, m)})
            rank(m) == LastOf(InOrder(z), m) - 1
        IN  \A m \in ZMembers(z) : \A r \in Ranks(z, m) :
            IF z.encoding = "listpack" THEN less(m) <= r /\ r < less(m) + same(m)
            ELSE r <= rank(m) /\ (r = 0 <=> rank(m) = 0) /\ (z.skiplist.level = 1 => r = rank(m))

\* A command that answers an error or panics (a key of another type, a number
\* that is none) has changed nothing; a ZADD that meets a bad score has done
\* exactly what the pairs before it ask for, on a key that was there.
ErrorsChangeNothing ==
    \A t \in Tried({l.op : l \in Workloads[work]}) : t.out.reply.kind \in Errors =>
        /\ t.out.log = <<>>
        /\ \/ t.out.db = mem
           \/ /\ t.line.op = "ZADD" /\ Is(mem, Key(t.line), "zset")
              /\ \E n \in 1 .. Len(t.line.args) - 1 :
                    /\ t.line.nums[n + 1] = NotInt
                    /\ t.out.db \in {o.db : o \in Outcomes(mem,
                          [t.line EXCEPT !.args = SubSeq(@, 1, n), !.nums = SubSeq(@, 1, n)], 1 .. maxLevel)}

\* What LoadAof would build from the file is what is in memory, encodings
\* included, for every key whose commands are logged as they were executed:
\* all but the ones that SPOP drew from, that a refused ZADD changed, that were
\* stored from hash tables with several strings of one integer, or that were
\* stored from such a key.
Restores ==
    \A k \in Keys \ unsure :
        IF Is(mem, k, "zset")
        THEN /\ file[k].type = "zset"
             /\ [file[k].obj EXCEPT !.skiplist = Nil] = [mem[k].obj EXCEPT !.skiplist = Nil]
        ELSE mem[k] = file[k]

\* However the commands of set.go and zset.go alternate, the encodings are well
\* formed: the binary search of an intset and the descent in a skip list find
\* what is there.
EncodingsSound == IntSetSound /\ SkipListSound

\* A command that adds, sets or removes does what it is asked, nothing else,
\* and answers how many elements that were, through every upgrade and
\* conversion of int_set.go, hash_set.go, hash.go and zset.go.
EditsExact == OthersKept /\ AsAsked /\ CountsExact

\* ZRANGE, ZCOUNT and ZRANK answer by the order of the scores, in both
\* encodings of zset.go; ZRANK as far as GetRank counts.
RangesAndRanks == RangesExact /\ RankBound
=============================================================================
