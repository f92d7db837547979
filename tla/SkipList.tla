------------------------------ MODULE SkipList ------------------------------
(***************************************************************************)
(* datastruct/skiplist: nodes in the order of their scores, then of their  *)
(* members, each with as many Forward pointers as it has levels.           *)
(*                                                                         *)
(* A node is named by its member, for a sorted set has a member once; the  *)
(* header by Header; the nil pointer by Nil.  No score is a NaN.           *)
(***************************************************************************)
EXTENDS Strings, Sequences, FiniteSets

CONSTANTS
    Header, Nil,
    maxLevel

ASSUME NodesAssumption == Header \notin Members /\ Nil \notin Members /\ Header # Nil
ASSUME MaxLevelAssumption == maxLevel \in Nat \ {0}

\* Forward[i] of level i + 1; the header has all levels.
NewSkipList ==
    [Forward |-> [x \in {Header} |-> [i \in 1 .. maxLevel |-> Nil]], Score |-> <<>>,
     tail |-> Nil, level |-> 1, length |-> 0]

Nodes(sl) == DOMAIN sl.Score

\* Node x lies before the place of (member, score), or before a score.
Before(sl, x, m, s) ==
    x # Nil /\ (sl.Score[x] < s \/ (sl.Score[x] = s /\ order[x] < order[m]))
BeforeScore(sl, x, min) == x # Nil /\ sl.Score[x] < min

\* From x along level i while the next node lies before the place: the node
\* reached and the steps made.
Walk(sl, i, x, Less(_)) ==
    LET from[y \in Nodes(sl) \cup {Header}] ==
            LET next == sl.Forward[y][i] IN
            IF Less(next) THEN [from[next] EXCEPT !.hops = @ + 1] ELSE [node |-> y, hops |-> 0]
    IN  from[x]

\* The walks from the highest level down, each from where the last one ended.
Descent(sl, Less(_)) ==
    LET walk[i \in 1 .. sl.level] ==
            Walk(sl, i, IF i = sl.level THEN Header ELSE walk[i + 1].node, Less)
    IN  walk

\* The node behind which (m, s) belongs, on every level.
update(sl, m, s) ==
    LET walk == Descent(sl, LAMBDA x : Before(sl, x, m, s))
    IN  [i \in 1 .. maxLevel |-> IF i <= sl.level THEN walk[i].node ELSE Header]

Linked(sl, m, s, before, height) ==
    [Forward |-> [x \in DOMAIN sl.Forward \cup {m} |->
                    IF x = m THEN [i \in 1 .. height |-> sl.Forward[before[i]][i]]
                    ELSE [i \in DOMAIN sl.Forward[x] |->
                            IF i <= height /\ before[i] = x THEN m ELSE sl.Forward[x][i]]],
     Score |-> [x \in Nodes(sl) \cup {m} |-> IF x = m THEN s ELSE sl.Score[x]],
     tail |-> IF sl.Forward[before[1]][1] = Nil THEN m ELSE sl.tail,
     level |-> IF height > sl.level THEN height ELSE sl.level,
     length |-> sl.length + 1]

\* randomLevel returns a level of its own for each node: height.
Insert(sl, m, s, height) == Linked(sl, m, s, update(sl, m, s), height)

\* Unlinked from the lowest level only.
UnlinkedBottom(sl, target, before) ==
    [sl EXCEPT !.Forward = [x \in DOMAIN @ \ {target} |->
                    [i \in DOMAIN @[x] |-> IF x = before[1] /\ i = 1 THEN @[target][1] ELSE @[x][i]]],
               !.Score = [x \in Nodes(sl) \ {target} |-> sl.Score[x]],
               !.length = @ - 1]

\* The node is unlinked from the levels below the first that it is not found
\* on; then empty levels at the top are dropped.
Unlinked(sl, target, before) ==
    LET linked == {i \in 1 .. sl.level : \A j \in 1 .. i : sl.Forward[before[j]][j] = target}
        left == [x \in DOMAIN sl.Forward \ {target} |->
                    [i \in DOMAIN sl.Forward[x] |->
                        IF i \in linked /\ before[i] = x THEN sl.Forward[target][i] ELSE sl.Forward[x][i]]]
        levels == {i \in 1 .. sl.level : i = 1 \/ left[Header][i] # Nil}
    IN  [Forward |-> left,
         Score |-> [x \in Nodes(sl) \ {target} |-> sl.Score[x]],
         tail |-> IF sl.tail # target THEN sl.tail ELSE IF before[1] = Header THEN Nil ELSE before[1],
         level |-> CHOOSE i \in levels : \A j \in levels : j <= i,
         length |-> sl.length - 1]

UnlinkedIfFound(sl, m, s, before) ==
    LET target == sl.Forward[before[1]][1] IN
    IF target = Nil \/ target # m \/ sl.Score[target] # s THEN sl ELSE Unlinked(sl, target, before)

Delete(sl, m, s) == UnlinkedIfFound(sl, m, s, update(sl, m, s))

\* The nodes from x on along level i.
From(sl, x, i) ==
    LET rest[y \in Nodes(sl) \cup {Nil}] ==
            IF y = Nil THEN <<>> ELSE <<y>> \o rest[sl.Forward[y][i]]
    IN  rest[x]

Chain(sl, i) == From(sl, sl.Forward[Header][i], i)

\* The bounds of a range of ranks, as both encodings of a ZSet clamp them.
Clamped(start, stop, size) ==
    LET from == IF start < 0 THEN size + start ELSE start
        to == IF stop < 0 THEN size + stop ELSE stop
    IN  <<IF from < 0 THEN 0 ELSE from, IF to >= size THEN size - 1 ELSE to>>

InScoreRangeOpen(sl, min, max) ==
    SelectSeq(Chain(sl, 1), LAMBDA x : sl.Score[x] >= min /\ sl.Score[x] < max)

\* The nodes with min <= score <= max: a descent to the first, then the
\* lowest level.
InScoreRange(sl, min, max) ==
    LET x == Descent(sl, LAMBDA y : BeforeScore(sl, y, min))[1].node
        nodes == From(sl, sl.Forward[x][1], 1)
        beyond == {i \in 1 .. Len(nodes) : sl.Score[nodes[i]] > max}
    IN  IF beyond = {} THEN nodes
        ELSE SubSeq(nodes, 1, (CHOOSE i \in beyond : \A j \in beyond : i <= j) - 1)

CountInRange(sl, min, max) == Len(InScoreRange(sl, min, max))

\* Without the first offset of them, and at most count if that is positive.
RangeByScore(sl, min, max, offset, count) ==
    LET all == InScoreRange(sl, min, max)
        first == IF offset < 0 THEN 1 ELSE offset + 1
        last == IF count > 0 /\ first + count - 1 < Len(all) THEN first + count - 1 ELSE Len(all)
    IN  SubSeq(all, first, last)

\* The members at the ranks start to stop, negative ones counted from the end.
RangeByRank(sl, start, stop) ==
    LET b == Clamped(start, stop, sl.length)
    IN  IF b[1] > b[2] THEN <<>> ELSE SubSeq(Chain(sl, 1), b[1] + 1, b[2] + 1)

\* Every step counts as one rank, also a step on a level that leaves nodes out.
GetRank(sl, m, s) ==
    LET walk == Descent(sl, LAMBDA x : Before(sl, x, m, s))
        hops[i \in 0 .. sl.level] == IF i = 0 THEN 0 ELSE walk[i].hops + hops[i - 1]
    IN  IF sl.Forward[walk[1].node][1] = m THEN hops[sl.level] ELSE -1
=============================================================================
