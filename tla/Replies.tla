------------------------------ MODULE Replies -------------------------------
(***************************************************************************)
(* The replies of package resp/reply, as the commands build them.          *)
(***************************************************************************)

Reply(k) == [kind |-> k, vals |-> <<>>, n |-> 0]
NullBulk == Reply("null")
Ok == Reply("ok")
Error == Reply("error")
WrongType == Reply("wrongtype")
EmptyMultiBulk == Reply("empty")
Bulk(v) == [Reply("bulk") EXCEPT !.vals = <<v>>]
MultiBulk(s) == [Reply("multi") EXCEPT !.vals = s]
IntReply(i) == [Reply("int") EXCEPT !.n = i]

\* A panic in exec is recovered in StandaloneDatabase.Exec, which then
\* returns nil; the connection handler answers "-ERR unknown".
Panic == Reply("panic")
=============================================================================
