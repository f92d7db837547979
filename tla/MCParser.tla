------------------------------ MODULE MCParser ------------------------------
(***************************************************************************)
(* Arguments that look like protocol, and every kind of message.           *)
(***************************************************************************)
EXTENDS Parser

Multi(args) == [kind |-> "multi", args |-> args]

MCMessages ==
    {Multi(<<<<"a">>, <<"b">>>>), Multi(<<<<"CR", "LF">>>>), Multi(<<<<"*", "2">>, <<"a">>>>),
     Multi(<<<<"a">>, <<>>>>), Multi(<<<<>>, <<"a">>>>), Multi(<<<<"a">>, <<"$", "1">>>>), Multi(<<Null, <<"a">>>>),
     [kind |-> "bulk", args |-> <<<<"a">>>>], [kind |-> "bulk", args |-> <<<<>>>>],
     [kind |-> "null", args |-> <<>>], [kind |-> "empty", args |-> <<>>],
     [kind |-> "status", args |-> <<<<"a">>>>], [kind |-> "error", args |-> <<<<"a">>>>],
     [kind |-> "int", args |-> <<<<"-", "1">>>>]}
=============================================================================
