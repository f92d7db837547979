------------------------------- MODULE MCScan -------------------------------
(* Three keys in three shards, one of them empty.                          *)
EXTENDS Scan

a == 97
b == 98
c == 99

MCKeys == {<<b>>, <<a, c>>, <<a, WC!Star>>}
MCSpread == [k \in MCKeys |-> IF k = <<b>> THEN 0 ELSE 2]

\* GlobExact: the names of up to three letters, and some with a star.
MCNames == UNION {[1 .. n -> {a, b, c}] : n \in 0 .. 3} \cup {<<WC!Star>>, <<a, WC!Star>>, <<b, WC!Star>>}

\* Every kind of part, * at both ends, in the middle and twice.
MCGlobs ==
    {<<>>,
     <<WC!Many>>,
     <<WC!One>>,
     <<WC!Char(a), WC!Many>>,
     <<WC!Many, WC!Char(a), WC!Many, WC!Char(c)>>,
     <<WC!Char(a), WC!Char(WC!Star)>>,
     <<WC!Among({a, b})>>,
     <<WC!Between(a, c), WC!NotAmong({a, b}), WC!Many>>,
     <<WC!Many, WC!NotBetween(a, c)>>,
     <<WC!Many, WC!One, WC!Many, WC!Between(b, c)>>}

\* Everything, and a pattern that some keys match.
MCScanGlobs == {<<WC!Many>>, <<WC!Char(a), WC!Many>>}
=============================================================================
