------------------------------ MODULE HashSet -------------------------------
(***************************************************************************)
(* datastruct/set: a set of strings that is an IntSet, a sorted array of   *)
(* integers of 16, 32 or 64 bits, as long as all its members are integers  *)
(* and few, and a hash table from then on.                                 *)
(*                                                                         *)
(* A cell of an IntSet's contents is encoding bytes; bits gives its width. *)
(***************************************************************************)
EXTENDS Strings, Sequences, FiniteSets

LOCAL Ext == INSTANCE SequencesExt

CONSTANTS
    bits,         \* the bits of a cell of each encoding
    intsetMax     \* SET_MAX_INTSET_ENTRIES

Encodings == {2, 4, 8}

ASSUME BitsAssumption ==
    bits \in [Encodings -> Nat \ {0}] /\ bits[2] < bits[4] /\ bits[4] < bits[8]
ASSUME IntsetMaxAssumption == intsetMax \in Nat

-----------------------------------------------------------------------------
(* int_set.go                                                              *)

NewIntSet == [encoding |-> 2, length |-> 0, contents |-> <<>>]

\* What is left of v in a cell.
Truncated(v, enc) ==
    LET half == 2 ^ (bits[enc] - 1) IN ((v + half) % (2 * half)) - half

Fits(v, enc) == Truncated(v, enc) = v

requiredEncoding(v) == IF ~Fits(v, 4) THEN 8 ELSE IF ~Fits(v, 2) THEN 4 ELSE 2

getValueAt(is, i) == is.contents[i + 1]

ToSlice(is) == SubSeq(is.contents, 1, is.length)

\* Binary search: the position of v, or -(p + 1) if it belongs before p.
findPosition(is, v) ==
    LET search[low \in 0 .. is.length, high \in -1 .. is.length - 1] ==
            LET mid == (low + high) \div 2 IN
            IF low > high THEN -(low + 1)
            ELSE IF getValueAt(is, mid) < v THEN search[mid + 1, high]
            ELSE IF getValueAt(is, mid) > v THEN search[low, mid - 1]
            ELSE mid
    IN  search[0, is.length - 1]

\* contents grows by a cell.  What lies behind the elements, which an upgrade
\* leaves there, moves along with them.
insertAt(is, pos, v) ==
    [is EXCEPT !.length = @ + 1,
               !.contents = [i \in 1 .. Len(@) + 1 |->
                    IF i = pos + 1 THEN Truncated(v, is.encoding)
                    ELSE IF i > pos + 1 /\ pos < is.length THEN @[i - 1]
                    ELSE IF i <= Len(@) THEN @[i] ELSE 0]]

InsertSorted(is, v) == insertAt(is, -(findPosition(is, v) + 1), v)

upgradeEncodingInPlace(is, enc) == [is EXCEPT !.encoding = enc, !.length = 0]

\* contents is made as long as the elements need, and they are inserted anew.
upgradeEncoding(is, enc) ==
    Ext!FoldLeft(InsertSorted,
                 [encoding |-> enc, length |-> 0, contents |-> [i \in 1 .. is.length |-> 0]],
                 ToSlice(is))

IntSetContains(is, v) == findPosition(is, v) >= 0

InsertIfAbsent(is, v) == IF IntSetContains(is, v) THEN is ELSE InsertSorted(is, v)

IntSetAdd(is, v) ==
    LET enc == requiredEncoding(v)
    IN  InsertIfAbsent(IF enc > is.encoding THEN upgradeEncoding(is, enc) ELSE is, v)

\* What lies behind the elements is cut off.
removeAt(is, pos) ==
    [is EXCEPT !.length = @ - 1,
               !.contents = SubSeq(@, 1, pos) \o SubSeq(@, pos + 2, is.length)]

IntSetRemove(is, v) == IF IntSetContains(is, v) THEN removeAt(is, findPosition(is, v)) ELSE is

-----------------------------------------------------------------------------
(* hash_set.go                                                             *)

NewHashSet == [isIntset |-> TRUE, intset |-> NewIntSet, dict |-> {}]

SetMembers(set) ==
    IF set.isIntset THEN {format[v] : v \in Ext!ToSet(ToSlice(set.intset))} ELSE set.dict

SetLen(set) == IF set.isIntset THEN set.intset.length ELSE Cardinality(set.dict)

SetContains(set, m) ==
    IF set.isIntset THEN parse[m] # NotInt /\ IntSetContains(set.intset, parse[m]) ELSE m \in set.dict

\* The intset is not looked at any more.
convertToHashTable(set) == [isIntset |-> FALSE, intset |-> NewIntSet, dict |-> SetMembers(set)]

\* Converted when the addition has made it too large.
WithIntSet(set, added) ==
    LET new == [set EXCEPT !.intset = added] IN
    IF added.length > intsetMax /\ added.length > set.intset.length THEN convertToHashTable(new) ELSE new

SetAdd(set, m) ==
    IF set.isIntset /\ parse[m] # NotInt THEN WithIntSet(set, IntSetAdd(set.intset, parse[m]))
    ELSE [convertToHashTable(set) EXCEPT !.dict = @ \cup {m}]

\* In an intset a string that is no integer is not found.
SetRemove(set, m) ==
    IF set.isIntset
    THEN IF parse[m] = NotInt THEN set ELSE [set EXCEPT !.intset = IntSetRemove(@, parse[m])]
    ELSE [set EXCEPT !.dict = @ \ {m}]

\* RandomDistinctMembers: any count of them.
RandomDistinctMembers(set, count) ==
    {s \in SUBSET SetMembers(set) : Cardinality(s) = (IF count < SetLen(set) THEN count ELSE SetLen(set))}

\* The sets that adding ms to set may give: ForEach and Members enumerate a
\* hash table in any order, and whether set is still an intset when a string
\* is added may depend on it.
AddedInAnyOrder(set, ms) ==
    LET after[s \in SUBSET ms] ==
            IF s = {} THEN {set} ELSE UNION {{SetAdd(r, m) : r \in after[s \ {m}]} : m \in s}
    IN  after[ms]
=============================================================================
