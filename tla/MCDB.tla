-------------------------------- MODULE MCDB --------------------------------
(***************************************************************************)
(* Instances of the database.  Keys "a" and "b" are in different shards.   *)
(***************************************************************************)
EXTENDS DB

MCKeys == {"a", "b"}
MCValues == {"x", "yy"}
MCBytes == [v \in MCValues |-> IF v = "x" THEN 1 ELSE 2]
MCSpread == [k \in MCKeys |-> IF k = "a" THEN 0 ELSE 1]

Line(op, keys, vals, nums) == [op |-> op, keys |-> keys, vals |-> vals, nums |-> nums]
On(op, k) == Line(op, <<k>>, <<>>, <<>>)
With(op, k, v) == Line(op, <<k>>, <<v>>, <<>>)

\* Two clients, with commands that lock for writing what they write: strings
\* and a list under key "a", commands of one key and of both.
ConcurrentLines ==
    {With("SET", "b", "yy"), With("RPUSH", "a", "x"), On("LPOP", "a"),
     Line("DEL", <<"b", "a">>, <<>>, <<>>), Line("EXIST", <<"a", "b">>, <<>>, <<>>)}

\* Writing one of the commands to the file fails, at any time and any number of
\* times: the file lacks a list element that memory has, or keeps one that
\* memory has popped.
FailingPush == {With("RPUSH", "a", "x")}
FailingPop == {On("RPOP", "a")}

\* Every command, for one client.
AllLines ==
    LET one == {On(op, "a") : op \in {"GET", "STRLEN", "TYPE", "LPOP", "RPOP", "LLEN"}}
        put == {With("SET", "a", "x"), With("SETNX", "b", "x"), With("RPUSH", "a", "x"),
                With("GETSET", "a", "x"), Line("LPUSH", <<"a">>, <<"x", "yy">>, <<>>)}
        two == {Line(op, <<"a", k>>, <<>>, <<>>) : op \in {"EXIST", "RENAMENX"}, k \in {"b"}}
                 \cup {Line("DEL", <<"a", k>>, <<>>, <<>>) : k \in MCKeys}
                 \cup {Line("RENAME", <<j, k>>, <<>>, <<>>) : j, k \in MCKeys}
        at == {Line("LINDEX", <<"a">>, <<>>, <<i>>) : i \in {-1, 1, NotInt}}
                 \cup {Line("LSET", <<"a">>, <<"yy">>, <<i>>) : i \in {-2, 1, NotInt}}
                 \cup {Line("LRANGE", <<"a">>, <<>>, <<0, j>>) : j \in {-1, NotInt}}
    IN  one \cup put \cup two \cup at
          \cup {Line("FLUSHDB", <<>>, <<>>, <<>>), Line("PING", <<>>, <<>>, <<>>),
                Line("EXISTS", <<"a">>, <<>>, <<>>), Line("GET", <<>>, <<>>, <<>>)}
=============================================================================
