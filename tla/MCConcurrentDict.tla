-------------------------- MODULE MCConcurrentDict --------------------------
(***************************************************************************)
(* Instances of the lock layer.  Keys "a" and "c" share a shard, so that a *)
(* command can write and read keys of one shard; the requests are what the *)
(* prepare functions of SET, RENAME, SUNIONSTORE and FLUSHDB ask for.      *)
(***************************************************************************)
EXTENDS ConcurrentDict

MCKeys == {"a", "b", "c"}
MCSpread == [k \in MCKeys |-> IF k = "b" THEN 1 ELSE 0]

Req(w, r) == [write |-> w, read |-> r]

SetRequest == Req({"a"}, {})
RenameRequest == Req({"b"}, {"a"})
StoreRequest == Req({"a"}, {"b", "c"})   \* SUNIONSTORE a b c
FlushRequest == Req({}, {})

\* The two lock the two shards the other way round.
MCRequests == {RenameRequest, StoreRequest, FlushRequest}
MCSmallFlush == {SetRequest, FlushRequest}
=============================================================================
