-------------------------------- MODULE Scan --------------------------------
(***************************************************************************)
(* The scans of datastruct/dict/concurrent_dict.go, which lock one shard   *)
(* at a time while other goroutines change the dictionary: ForEach (the    *)
(* KEYS command), Keys, which sizes its result before it scans, and        *)
(* DictScan, which is called again with the cursor it returned.            *)
(*                                                                         *)
(* A scan goes through the keys of a shard one by one, in any order, with  *)
(* the read lock of the shard; a write is one step, because it holds the   *)
(* write lock.                                                             *)
(***************************************************************************)
EXTENDS Integers, Sequences, FiniteSets

Ext == INSTANCE SequencesExt
WC == INSTANCE Wildcard

CONSTANTS
    Keys,        \* names, sequences of bytes
    shardCount,
    spread,
    Names,       \* names of keys, those that GlobExact tries KEYS' globs on
    Globs,       \* the patterns of KEYS and DictScan, in the terms of Wildcard
    ScanGlobs,   \* those of them that DictScan is called with
    Modes,       \* the scans to run, of "KEYS", "Keys" and "DictScan"
    Counts,      \* values of DictScan's count argument
    MaxClears    \* bound on the calls of Clear

Shards == 0 .. shardCount - 1
Tables == 0 .. MaxClears

ASSUME ShardsAssumption == shardCount \in Nat \ {0} /\ spread \in [Keys -> Shards]
ASSUME KeysAssumption == Keys \subseteq Seq(0 .. 255) \ {<<>>}
ASSUME ModesAssumption == Modes \subseteq {"KEYS", "Keys", "DictScan"}
ASSUME NamesAssumption == Names \subseteq Seq(0 .. 255)
ASSUME GlobsAssumption == ScanGlobs \subseteq Globs /\ \A g \in Globs : WC!IsGlob(g)
ASSUME CountsAssumption == Counts \subseteq Nat /\ MaxClears \in Nat

VARIABLES
    present,   \* the keys in each table that Clear has made so far
    table,     \* the current one
    mode,      \* the scan that is running, or "none"
    range,     \* the table whose shards are visited
    glob,      \* KEYS and DictScan: the pattern
    index,     \* the shard to visit next
    rest,      \* the keys still to come of the shard before it
    cursor,    \* DictScan: where this call started
    count,     \* DictScan: its argument; Keys: what Len() returned
    page,      \* the result of this call
    filled,    \* Keys: its variable i
    found,     \* the set of keys of the calls before it
    seen,      \* history: the keys that this call has come to
    since,     \* history: the keys there at some time since this call read Len()
    atStart,   \* history: the keys there when the scan started
    always,    \* history: the keys there all the time since
    ever       \* history: the keys there at some time since

scanvars == <<mode, range, glob, index, rest, cursor, count, page, filled, found, seen>>
vars == <<present, table, scanvars, since, atStart, always, ever>>

Scanning == mode # "none"
Finished == Scanning /\ index >= shardCount /\ rest = {}

\* The keys of one shard of a table.
Shard(t, s) == {k \in present[t] : spread[k] = s}

\* The scan holds the read lock of the shard of k.
Locked(k) == rest # {} /\ range = table /\ spread[k] = index - 1

-----------------------------------------------------------------------------
(* Other goroutines                                                        *)

Put(k) ==
    /\ ~Locked(k)
    /\ k \notin present[table]
    /\ present' = [present EXCEPT ![table] = @ \cup {k}]
    /\ since' = IF Scanning THEN since \cup {k} ELSE {}
    /\ ever' = IF Scanning THEN ever \cup {k} ELSE {}
    /\ UNCHANGED <<table, scanvars, atStart, always>>

Remove(k) ==
    /\ ~Locked(k)
    /\ k \in present[table]
    /\ present' = [present EXCEPT ![table] = @ \ {k}]
    /\ always' = always \ {k}
    /\ UNCHANGED <<table, scanvars, since, atStart, ever>>

Clear ==
    /\ table < MaxClears
    /\ table' = table + 1
    /\ always' = {}
    /\ UNCHANGED <<present, scanvars, since, atStart, ever>>

-----------------------------------------------------------------------------
(* Scans                                                                   *)

\* "", a name no key has here.
Blank == <<>>

\* One call of KEYS, Keys or DictScan, with its result so far.
Call(m, n, result) ==
    /\ mode' = m
    /\ count' = n
    /\ page' = result
    /\ filled' = 0
    /\ seen' = {}
    /\ since' = present[table]

Begin(m, g, n, result) ==
    /\ mode = "none"
    /\ Call(m, n, result)
    /\ glob' = g
    /\ range' = table
    /\ index' = 0
    /\ cursor' = 0
    /\ found' = {}
    /\ atStart' = present[table]
    /\ always' = present[table]
    /\ ever' = present[table]
    /\ UNCHANGED <<present, table, rest>>

\* keys := make([]string, dict.Len())
Blanks(n) == [i \in 1 .. n |-> Blank]
Size == Cardinality(present[table])

\* A call of DictScan that returns Keys().
AllAtOnce(g, n) == g = <<WC!Many>> /\ n >= Size

BeginKEYS(g) == "KEYS" \in Modes /\ Begin("KEYS", g, 0, <<>>)
BeginKeys == "Keys" \in Modes /\ Begin("Keys", <<>>, Size, Blanks(Size))
BeginDictScan(g, n) == "DictScan" \in Modes /\ ~AllAtOnce(g, n) /\ Begin("DictScan", g, n, <<>>)

VisitSkipsShard ==
    /\ mode \in {"KEYS", "Keys"}
    /\ rest = {} /\ index < shardCount
    /\ rest' = Shard(range, index)
    /\ index' = IF Shard(range, index) = {} THEN shardCount ELSE index + 1
    /\ UNCHANGED <<present, table, mode, range, glob, cursor, count, page, filled, found, seen, since, atStart, always, ever>>

\* ForEach goes on with the table it started with.
Visit ==
    /\ mode \in {"KEYS", "Keys"}
    /\ rest = {} /\ index < shardCount
    /\ rest' = Shard(range, index)
    /\ index' = index + 1
    /\ UNCHANGED <<present, table, mode, range, glob, cursor, count, page, filled, found, seen, since, atStart, always, ever>>

FullAtFirstShard == Len(page) + Cardinality(Shard(table, index)) > count

\* DictScan returns early only after the first shard of a call.
Full == Len(page) + Cardinality(Shard(table, index)) > count /\ index > cursor

\* DictScan looks its shard up in the current table.
VisitPage ==
    /\ mode = "DictScan"
    /\ rest = {} /\ index < shardCount
    /\ ~Full
    /\ range' = table
    /\ rest' = Shard(table, index)
    /\ index' = index + 1
    /\ UNCHANGED <<present, table, mode, glob, cursor, count, page, filled, found, seen, since, atStart, always, ever>>

\* What a pattern compiles to.
pattern == [g \in Globs |-> WC!CompilePattern(WC!Notation(g))]

\* The scan comes to a key.  KEYS' consumer and DictScan take it if it matches.
Take(k) ==
    /\ mode \in {"KEYS", "DictScan"}
    /\ k \in rest
    /\ rest' = rest \ {k}
    /\ seen' = seen \cup {k}
    /\ page' = IF WC!IsMatch(pattern[glob], k) THEN Append(page, k) ELSE page
    /\ UNCHANGED <<present, table, mode, range, glob, index, cursor, count, filled, found, since, atStart, always, ever>>

\* Keys' consumer.  The key that it appends to a full result goes where i is,
\* but i stays, so the next key is written over it.
Fill(k) ==
    /\ mode = "Keys"
    /\ k \in rest
    /\ rest' = rest \ {k}
    /\ seen' = seen \cup {k}
    /\ IF filled < Len(page)
         THEN page' = [page EXCEPT ![filled + 1] = k] /\ filled' = filled + 1
         ELSE page' = Append(page, k) /\ filled' = filled
    /\ UNCHANGED <<present, table, mode, range, glob, index, cursor, count, found, since, atStart, always, ever>>

\* DictScan returns the next shard as the cursor, with which it is called
\* again.  A call for everything, with a count that is not below Len(), returns
\* Keys(), whatever its cursor.
NextPage ==
    /\ mode = "DictScan"
    /\ rest = {} /\ index < shardCount
    /\ Full
    /\ found' = found \cup Ext!ToSet(page)
    /\ IF AllAtOnce(glob, count)
         THEN /\ Call("Keys", Size, Blanks(Size))
              /\ range' = table
              /\ index' = 0
              /\ cursor' = 0
         ELSE /\ Call("DictScan", count, <<>>)
              /\ cursor' = index
              /\ UNCHANGED <<range, index>>
    /\ UNCHANGED <<present, table, glob, rest, atStart, always, ever>>

End ==
    /\ Finished
    /\ mode' = "none"
    /\ range' = 0
    /\ glob' = <<>>
    /\ index' = 0
    /\ cursor' = 0
    /\ count' = 0
    /\ page' = <<>>
    /\ filled' = 0
    /\ found' = {}
    /\ seen' = {}
    /\ since' = {}
    /\ atStart' = {}
    /\ always' = {}
    /\ ever' = {}
    /\ UNCHANGED <<present, table, rest>>

-----------------------------------------------------------------------------
Init ==
    /\ present = [t \in Tables |-> {}]
    /\ table = 0
    /\ mode = "none"
    /\ range = 0
    /\ glob = <<>>
    /\ index = 0
    /\ rest = {}
    /\ cursor = 0
    /\ count = 0
    /\ page = <<>>
    /\ filled = 0
    /\ found = {}
    /\ seen = {}
    /\ since = {}
    /\ atStart = {}
    /\ always = {}
    /\ ever = {}

ScanStep == Visit \/ VisitPage \/ (\E k \in Keys : Take(k) \/ Fill(k)) \/ NextPage \/ End

Next ==
    \/ \E k \in Keys : Put(k) \/ Remove(k)
    \/ Clear
    \/ \E g \in Globs : BeginKEYS(g)
    \/ BeginKeys
    \/ \E g \in ScanGlobs, n \in Counts : BeginDictScan(g, n)
    \/ ScanStep

Spec == Init /\ [][Next]_vars

FairSpec == Spec /\ WF_vars(ScanStep)

-----------------------------------------------------------------------------
(* Properties                                                              *)

Reported == (found \cup Ext!ToSet(page)) \ {Blank}

\* The keys of a set that the scan is asked for.
Wanted(keys) == IF mode \in {"KEYS", "DictScan"} THEN {k \in keys : WC!Matches(glob, k)} ELSE keys

\* The keys inserted since Keys read Len(), for which it has made no room.
Unforeseen == IF mode = "Keys" THEN Cardinality(since) - count ELSE 0

\* KEYS and DictScan report every key that was there from their start to their
\* end and that their glob matches, however the other goroutines change the
\* rest of the dictionary meanwhile.  Keys may lose one of them for every two
\* keys that are inserted while it runs, and no more.
ScanComplete == Finished => 2 * Cardinality(Wanted(always) \ Reported) <= Unforeseen

\* A key is reported only if it was there at some time during the scan (also
\* by a scan that Clear left with an old table) and is asked for, and once in
\* a call; [^a-b] is the one pattern for which more may be reported than asked
\* for.  Keys leaves an empty string in its result only if keys were removed
\* meanwhile.
ScanSound ==
    /\ Reported \subseteq ever
    /\ ~WC!NegatedRange(glob) => Reported \subseteq Wanted(ever)
    /\ \A i, j \in 1 .. Len(page) : page[i] = page[j] /\ page[i] # Blank => i = j
    /\ Finished /\ Blank \in Ext!ToSet(page) => always # atStart

\* KEYS finds what its argument means, whichever of its parts are *, and
\* nothing else, for every glob in the notation of execKeys' comment: what the
\* argument compiles to, and the table that IsMatch fills for it, take every
\* name that the glob matches, and only those unless it has a part [^a-b].
GlobExact ==
    mode = "KEYS" /\ index = 0 =>
        \A k \in Names :
            /\ WC!Matches(glob, k) => WC!IsMatch(pattern[glob], k)
            /\ WC!IsMatch(pattern[glob], k) => WC!Matches(glob, k) \/ WC!NegatedRange(glob)

\* A scan ends, whatever is inserted before it: DictScan visits at least one
\* shard in every call.
ScanEnds == Scanning ~> ~Scanning

\* ForEach and DictScan miss nothing that is there throughout, Keys only what
\* insertions push out of its result, and none of them reports what never is
\* there, though they hold the lock of one shard at a time.
ScanExact == ScanComplete /\ ScanSound
=============================================================================
