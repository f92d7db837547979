----------------------------- MODULE CommandLaws ----------------------------
(***************************************************************************)
(* The list and key commands against reference definitions, on every       *)
(* database that the commands of a run build.                              *)
(***************************************************************************)
EXTENDS DB

CONSTANT Indices   \* the integers tried as indices, beyond both ends of a list

ASSUME IndicesAssumption == Indices \subseteq Int

\* Nothing is under way and the file is up to date: every contents that the
\* database can have is that of such a state.
AtRest == data = image /\ aofChan = <<>> /\ \A c \in Clients : cmd[c] = NoCmd

CmdLine(op, keys, vals, nums) == [op |-> op, keys |-> keys, vals |-> vals, nums |-> nums]

Run(db, line) == Stored(db, execNormalCommand(db, line))
AnswerTo(db, line) == execNormalCommand(db, line).reply

-----------------------------------------------------------------------------
(* Reference definitions                                                   *)

\* The elements of l whose zero-based position lies between the two indices,
\* negative ones counted from the end.
Slice(l, i, j) ==
    LET at(x) == IF x < 0 THEN Len(l) + x ELSE x
        inside == {p \in 1 .. Len(l) : at(i) <= p - 1 /\ p - 1 <= at(j)}
        first == CHOOSE p \in inside : \A q \in inside : p <= q
    IN  [n \in 1 .. Cardinality(inside) |-> l[first + n - 1]]

-----------------------------------------------------------------------------
(* Properties                                                              *)

\* LRANGE, with its clamping of both bounds, returns exactly the elements
\* between them, and LINDEX, with its own range check and its walk from the
\* nearer end, returns what LRANGE from an index to itself does.
RangeAndIndexAgree ==
    AtRest => \A k \in Keys : data[k].type # "string" =>
        \A i \in Indices :
            /\ \A j \in Indices : AnswerTo(data, CmdLine("LRANGE", <<k>>, <<>>, <<i, j>>)).vals = Slice(data[k].val, i, j)
            /\ AnswerTo(data, CmdLine("LINDEX", <<k>>, <<>>, <<i>>)).vals
                 = AnswerTo(data, CmdLine("LRANGE", <<k>>, <<>>, <<i, i>>)).vals

\* LSET changes the element that LINDEX of the same index returns, and no
\* other; when it is refused nothing changes.
LSetChangesOne ==
    AtRest => \A k \in Keys, i \in Indices, v \in Values :
        LET line == CmdLine("LSET", <<k>>, <<v>>, <<i>>)
            after == Run(data, line)
            at == IF i < 0 THEN Len(data[k].val) + i + 1 ELSE i + 1
        IN  IF AnswerTo(data, line) = Ok
              THEN /\ AnswerTo(data, CmdLine("LINDEX", <<k>>, <<>>, <<i>>)).kind = "bulk"
                   /\ AnswerTo(after, CmdLine("LINDEX", <<k>>, <<>>, <<i>>)) = Bulk(v)
                   /\ Len(after[k].val) = Len(data[k].val)
                   /\ \A p \in 1 .. Len(data[k].val) : p # at => after[k].val[p] = data[k].val[p]
              ELSE after = data

\* A pop takes back what a push of several values at the same end did, the
\* last value first, and leaves the database as it was: an absent key is
\* absent again.
PopUndoesPush ==
    AtRest => \A k \in Keys, v, w \in Values, e \in {<<"LPUSH", "LPOP">>, <<"RPUSH", "RPOP">>} :
        data[k].type # "string" =>
            LET pop == CmdLine(e[2], <<k>>, <<>>, <<>>)
                pushed == Run(data, CmdLine(e[1], <<k>>, <<v, w>>, <<>>))
                popped == Run(pushed, pop)
            IN  /\ AnswerTo(pushed, pop) = Bulk(w)
                /\ AnswerTo(popped, pop) = Bulk(v)
                /\ Run(popped, pop) = data

\* DEL answers the number of keys that are gone and EXIST the number of
\* arguments that are there: they differ when a key is named twice.
DelCountsKeys ==
    AtRest => \A j, k \in Keys :
        LET line == CmdLine("DEL", <<j, k>>, <<>>, <<>>) IN
        /\ AnswerTo(data, line).n = Cardinality({x \in Keys : data[x] # Absent /\ Run(data, line)[x] = Absent})
        /\ AnswerTo(data, CmdLine("EXIST", <<j, k>>, <<>>, <<>>)).n
             = AnswerTo(data, line).n + (IF j = k /\ data[j] # Absent THEN 1 ELSE 0)

\* RENAME takes a value from one key to the other, over what was there, and
\* back again, whatever its type; RENAMENX does the same to an absent key and
\* nothing to any other.  A key that is renamed to itself is lost with RENAME
\* and kept with RENAMENX.
RenameMoves ==
    AtRest => \A j, k \in Keys :
        LET there == Run(data, CmdLine("RENAME", <<j, k>>, <<>>, <<>>))
            back == Run(there, CmdLine("RENAME", <<k, j>>, <<>>, <<>>))
            nx == Run(data, CmdLine("RENAMENX", <<j, k>>, <<>>, <<>>)) IN
        /\ nx = IF data[k] = Absent THEN there ELSE data
        /\ j # k /\ data[j] # Absent => back = [data EXCEPT ![k] = Absent]
        /\ j = k => there = [data EXCEPT ![k] = Absent]

\* The list commands agree on what an index is and take back what they did:
\* on every list that pushes, pops and LSET of list.go build.
ListLaws == RangeAndIndexAgree /\ LSetChangesOne /\ PopUndoesPush

\* DEL, EXIST, RENAME and RENAMENX of key.go do to the keys what they answer,
\* also when a key is named twice.
KeyLaws == DelCountsKeys /\ RenameMoves
=============================================================================
