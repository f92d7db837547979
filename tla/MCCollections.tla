--------------------------- MODULE MCCollections ----------------------------
(***************************************************************************)
(* Collections of up to four elements.  The cells of an intset have 2, 3   *)
(* and 4 bits, and the limits of the small encodings are 2 or 3 elements,  *)
(* so that every upgrade and conversion happens.                           *)
(***************************************************************************)
EXTENDS CollectionLaws, TLC

MCMembers == {"1", "01", "3", "-5", "x"}
MCParse == "1" :> 1 @@ "01" :> 1 @@ "3" :> 3 @@ "-5" :> -5 @@ "x" :> NotInt
MCFormat == 1 :> "1" @@ 3 :> "3" @@ -5 :> "-5"
MCOrder == "-5" :> 0 @@ "01" :> 1 @@ "1" :> 2 @@ "3" :> 3 @@ "x" :> 4
MCBits == 2 :> 2 @@ 4 :> 3 @@ 8 :> 4
MCRankArgs == {-4, -2, -1, 0, 1, 3}
MCBounds == {0, 1, 2, 3}

One(ops, k) == {Line(op, <<k>>, <<m>>, <<>>, <<>>) : op \in ops, m \in Members}
Plain(ops, k) == {Line(op, <<k>>, <<>>, <<>>, <<>>) : op \in ops}
String(k) == {Line("SET", <<k>>, <<>>, <<"v">>, <<>>)}

\* One set with every member, and keys of another type.
Sets ==
    One({"SADD", "SREM", "SISMEMBER"}, "a") \cup Plain({"SCARD", "SMEMBERS", "SPOP", "SRANDMEMBER", "DEL"}, "a")
    \cup {Line("SADD", <<"a">>, <<"x", "01">>, <<>>, <<>>), Line("SREM", <<"a">>, <<"x", "01">>, <<>>, <<>>)}
    \cup {Line(op, <<"a">>, <<>>, <<>>, <<n>>) : op \in {"SPOP", "SRANDMEMBER"}, n \in {0, 2, NotInt}}
    \cup {Line(op, <<"a">>, <<>>, <<>>, <<-2>>) : op \in {"SPOP", "SRANDMEMBER"}} \cup String("a")
    \cup One({"HGET", "ZREM"}, "a")

\* Three sets and what is computed from them.
Algebra ==
    {Line("SADD", <<"a">>, <<m>>, <<>>, <<>>) : m \in {"1", "01", "x"}}
    \cup {Line("SADD", <<"b">>, <<m>>, <<>>, <<>>) : m \in {"3", "x"}}
    \cup {Line("SREM", <<"a">>, <<"1">>, <<>>, <<>>), Line("SPOP", <<"b">>, <<>>, <<>>, <<>>)}
    \cup {Line(op, <<"c", "a", "b">>, <<>>, <<>>, <<>>) : op \in Stores}
    \cup {Line(op, <<"a", "b", "c">>, <<>>, <<>>, <<>>) : op \in {"SUNION", "SINTER", "SDIFF"}}
    \cup String("c") \cup Plain({"DEL"}, "c")

\* One hash: two fields and one that is too long, and as many values.
Hashes ==
    {Line(op, <<"a">>, <<f>>, <<v>>, <<>>) : op \in {"HSET", "HSETNX"}, f \in {"1", "3", "x"}, v \in {"1", "x"}}
    \cup {Line("HMSET", <<"a">>, <<"1", "-5">>, <<"1", "3">>, <<>>), Line("HMSET", <<"a">>, <<"1", "3">>, <<"1">>, <<>>),
          Line("HMSET", <<"a">>, <<"3", "3">>, <<"1", "3">>, <<>>),
          Line("HDEL", <<"a">>, <<"1", "3">>, <<>>, <<>>), Line("HMGET", <<"a">>, <<"1", "3">>, <<>>, <<>>)}
    \cup One({"HDEL", "HGET", "HEXISTS"}, "a")
    \cup Plain({"HLEN", "HGETALL", "HKEYS", "HVALS", "HENCODING", "DEL", "SCARD", "ZCARD"}, "a") \cup String("a")

\* One sorted set; scores that are printed as others, and none.
ZSets ==
    {Line("ZADD", <<"a">>, <<"1">>, <<>>, <<s>>) : s \in {1, 2, 3}}
    \cup {Line("ZADD", <<"a">>, <<m>>, <<>>, <<2>>) : m \in {"3", "x"}}
    \cup {Line("ZADD", <<"a">>, <<"1", "3">>, <<>>, <<2, NotInt>>), Line("ZADD", <<"a">>, <<"x", "1">>, <<>>, <<1>>),
          Line("ZADD", <<"a">>, <<"01", "01">>, <<>>, <<2, 3>>),
          Line("ZREM", <<"a">>, <<"1", "3">>, <<>>, <<>>), Line("ZRANGE", <<"a">>, <<>>, <<"WITHSCORES">>, <<0, -1>>)}
    \cup {Line(op, <<"a">>, <<>>, <<>>, ns) : op \in {"ZRANGE", "ZCOUNT"}, ns \in {<<0, 2>>, <<0, NotInt>>}}
    \cup One({"ZREM", "ZSCORE", "ZRANK"}, "a") \cup Plain({"ZCARD", "DEL", "SCARD", "HLEN"}, "a") \cup String("a")

MCWorkloads == [sets |-> Sets, algebra |-> Algebra, hashes |-> Hashes, zsets |-> ZSets]
=============================================================================
