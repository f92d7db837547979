-------------------------------- MODULE ZSet --------------------------------
(***************************************************************************)
(* datastruct/zset: members and scores, in a listpack (a slice of pairs)   *)
(* while there are few, in a skip list and a map from then on.             *)
(*                                                                         *)
(* A score is an integer number of units.  A listpack keeps it as "%f"     *)
(* prints it, with six decimals: a multiple of sixth units.                *)
(***************************************************************************)
EXTENDS SkipList

LOCAL Ext == INSTANCE SequencesExt

CONSTANTS
    sixth,             \* the units of the sixth decimal
    listpackMaxSize

\* sixth is odd, so that no score lies halfway between two printed ones.
ASSUME SixthAssumption == sixth \in Nat /\ sixth % 2 = 1
ASSUME ListpackMaxSizeAssumption == listpackMaxSize \in Nat

\* What parseScore reads of what formatScore wrote.
formatScore(s) == sixth * ((s + sixth \div 2) \div sixth)

NewZSet == [encoding |-> "listpack", listpack |-> <<>>, dict |-> <<>>, skiplist |-> NewSkipList]

PairOf(z, m) == Ext!SelectInSeq(z.listpack, LAMBDA p : p.member = m)

ZMembers(z) ==
    IF z.encoding = "listpack" THEN {z.listpack[i].member : i \in 1 .. Len(z.listpack)} ELSE DOMAIN z.dict

ZLen(z) == IF z.encoding = "listpack" THEN Len(z.listpack) ELSE Cardinality(DOMAIN z.dict)

Score(z, m) == IF z.encoding = "listpack" THEN z.listpack[PairOf(z, m)].score ELSE z.dict[m]

WithScore(dict, m, s) == [n \in DOMAIN dict \cup {m} |-> IF n = m THEN s ELSE dict[n]]

\* randomLevel may give each node any of the heights.
convertToSkiplist(z, heights) ==
    LET n == Len(z.listpack)
        inserted[i \in 0 .. n] ==
            IF i = 0 THEN {NewSkipList}
            ELSE {Insert(sl, z.listpack[i].member, z.listpack[i].score, h) : sl \in inserted[i - 1], h \in heights}
        dict == [m \in ZMembers(z) |-> Score(z, m)]
    IN  {[encoding |-> "skiplist", listpack |-> <<>>, dict |-> dict, skiplist |-> sl] : sl \in inserted[n]}

\* Add.  A new score moves the node: it is deleted and inserted anew.
ZAdd(z, m, s, heights) ==
    LET at == PairOf(z, m)
        appended == [z EXCEPT !.listpack = Append(@, [member |-> m, score |-> formatScore(s)])]
        without == IF m \in DOMAIN z.dict THEN Delete(z.skiplist, m, z.dict[m]) ELSE z.skiplist
    IN  IF z.encoding = "listpack"
        THEN IF at # 0 THEN {[z EXCEPT !.listpack[at].score = formatScore(s)]}
             ELSE IF Len(appended.listpack) > listpackMaxSize THEN convertToSkiplist(appended, heights)
             ELSE {appended}
        ELSE IF m \in DOMAIN z.dict /\ z.dict[m] = s THEN {z}
        ELSE {[z EXCEPT !.dict = WithScore(@, m, s), !.skiplist = Insert(without, m, s, h)] : h \in heights}

ZRemove(z, m) ==
    IF m \notin ZMembers(z) THEN z
    ELSE IF z.encoding = "listpack" THEN [z EXCEPT !.listpack = Ext!RemoveAt(@, PairOf(z, m))]
    ELSE [z EXCEPT !.dict = [n \in DOMAIN @ \ {m} |-> @[n]],
                   !.skiplist = Delete(@, m, z.dict[m])]

\* sort.Slice puts pairs of the same score in any order.
Sorted(z) ==
    {p \in Ext!SetToSeqs(ZMembers(z)) : \A i, j \in DOMAIN p : i < j => Score(z, p[i]) <= Score(z, p[j])}

\* The ranges that RangeByRank may return.
ZRangeByRank(z, start, stop) ==
    LET b == Clamped(start, stop, ZLen(z))
    IN  IF z.encoding = "skiplist" THEN {RangeByRank(z.skiplist, start, stop)}
        ELSE {IF b[1] > b[2] THEN <<>> ELSE SubSeq(p, b[1] + 1, b[2] + 1) : p \in Sorted(z)}

Count(z, min, max) ==
    IF z.encoding = "listpack"
    THEN Cardinality({m \in ZMembers(z) : Score(z, m) >= min /\ Score(z, m) <= max})
    ELSE CountInRange(z.skiplist, min, max)
=============================================================================
