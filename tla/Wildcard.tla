------------------------------ MODULE Wildcard ------------------------------
(***************************************************************************)
(* lib/wildcard/wildcard.go, the patterns of the KEYS command.  Patterns   *)
(* and names are sequences of bytes.  (CompilePattern goes over the runes  *)
(* of the pattern, which are its bytes as long as it is ASCII.)            *)
(***************************************************************************)
EXTENDS Integers, Sequences, FiniteSets, SequencesExt

Star == 42
Dash == 45
Question == 63
Open == 91
Backslash == 92
Close == 93
Caret == 94

\* A normal item has its character in chars.
item(typeCode, chars) == [typeCode |-> typeCode, chars |-> chars]

Chosen(set) ==
    item(IF Caret \in set THEN "neg" ELSE IF Dash \in set THEN "range" ELSE "set",
         set \ {Caret, Dash})

\* The variables of the loop over the pattern.
Loop(items, escape, inSet, set) == [items |-> items, escape |-> escape, inSet |-> inSet, set |-> set]

compiler == Loop(<<>>, FALSE, FALSE, {})

\* One byte of the pattern.  An escape, * and ? mean the same between
\* brackets as outside them; a set that is not closed is dropped.
compileByte(p, c) ==
    LET Emit(i, inSet) == Loop(Append(p.items, i), FALSE, inSet, p.set) IN
    IF p.escape THEN Emit(item("normal", {c}), p.inSet)
    ELSE CASE c = Star -> Emit(item("all", {}), p.inSet)
           [] c = Question -> Emit(item("any", {}), p.inSet)
           [] c = Backslash -> Loop(p.items, TRUE, p.inSet, p.set)
           [] c = Open /\ ~p.inSet -> Loop(p.items, FALSE, TRUE, {})
           [] c = Close /\ p.inSet -> Emit(Chosen(p.set), FALSE)
           [] OTHER -> IF p.inSet THEN Loop(p.items, FALSE, TRUE, p.set \cup {c})
                       ELSE Emit(item("normal", {c}), FALSE)

\* The loop over the pattern, from a state of it.
compile(p, src) ==
    LET after[n \in 0 .. Len(src)] == IF n = 0 THEN p ELSE compileByte(after[n - 1], src[n])
    IN  after[Len(src)]

CompilePattern(src) == compile(compiler, src).items

contains(i, c) ==
    CASE i.typeCode = "range" -> /\ \E d \in i.chars : d <= c
                                 /\ \E d \in i.chars : c <= d
      [] i.typeCode = "neg" -> c \notin i.chars
      [] OTHER -> c \in i.chars

\* * for one character or more.
RowStarTakesOne(items, key, i, above) ==
    LET row[j \in 0 .. Len(items)] ==
            IF j = 0 THEN i = 0
            ELSE IF items[j].typeCode = "all" THEN i > 0 /\ (above[j - 1] \/ above[j])
            ELSE i > 0 /\ above[j - 1] /\ (items[j].typeCode = "any" \/ contains(items[j], key[i]))
    IN  row

\* A row of the table, from the row above it: the first i bytes of the key
\* match the first j items.
Row(items, key, i, above) ==
    LET row[j \in 0 .. Len(items)] ==
            IF j = 0 THEN i = 0
            ELSE IF items[j].typeCode = "all" THEN row[j - 1] \/ (i > 0 /\ above[j])
            ELSE i > 0 /\ above[j - 1] /\ (items[j].typeCode = "any" \/ contains(items[j], key[i]))
    IN  row

IsMatch(items, key) ==
    LET table[i \in 0 .. Len(key)] == Row(items, key, i, IF i = 0 THEN <<>> ELSE table[i - 1])
    IN  table[Len(key)][Len(items)]

-----------------------------------------------------------------------------
(* What a pattern means, from the comment of execKeys: a glob is a         *)
(* sequence of parts, each written in the notation of that comment.        *)

One == [part |-> "any"]
Many == [part |-> "all"]
Char(c) == [part |-> "char", char |-> c]
Among(cs) == [part |-> "among", chars |-> cs]
NotAmong(cs) == [part |-> "notAmong", chars |-> cs]
Between(a, b) == [part |-> "between", from |-> a, to |-> b]
NotBetween(a, b) == [part |-> "notBetween", from |-> a, to |-> b]

Special == {Star, Question, Open, Close, Backslash}

Written(p) ==
    CASE p.part = "any" -> <<Question>>
      [] p.part = "all" -> <<Star>>
      [] p.part = "char" -> (IF p.char \in Special THEN <<Backslash>> ELSE <<>>) \o <<p.char>>
      [] p.part = "among" -> <<Open>> \o SetToSeq(p.chars) \o <<Close>>
      [] p.part = "notAmong" -> <<Open, Caret>> \o SetToSeq(p.chars) \o <<Close>>
      [] p.part = "between" -> <<Open, p.from, Dash, p.to, Close>>
      [] p.part = "notBetween" -> <<Open, Caret, p.from, Dash, p.to, Close>>

Notation(g) == FlattenSeq([i \in DOMAIN g |-> Written(g[i])])

\* What the notation can express: between brackets there are bytes without a
\* meaning of their own, and the ends of a range are in order.
Plain == (0 .. 255) \ (Special \cup {Dash, Caret})

IsPart(p) ==
    \/ p \in {One, Many}
    \/ p.part = "char" /\ p = Char(p.char) /\ p.char \in 0 .. 255
    \/ p.part = "among" /\ p = Among(p.chars) /\ p.chars \subseteq Plain
    \/ p.part = "notAmong" /\ p = NotAmong(p.chars) /\ p.chars \subseteq Plain
    \/ p.part = "between" /\ p = Between(p.from, p.to) /\ {p.from, p.to} \subseteq Plain /\ p.from <= p.to
    \/ p.part = "notBetween" /\ p = NotBetween(p.from, p.to) /\ {p.from, p.to} \subseteq Plain /\ p.from <= p.to

IsGlob(g) == g \in Seq(ToSet(g)) /\ \A i \in DOMAIN g : IsPart(g[i])

Accepts(p, c) ==
    CASE p.part = "any" -> TRUE
      [] p.part = "char" -> c = p.char
      [] p.part = "among" -> c \in p.chars
      [] p.part = "notAmong" -> c \notin p.chars
      [] p.part = "between" -> c \in p.from .. p.to
      [] p.part = "notBetween" -> c \notin p.from .. p.to

\* The name can be cut into as many pieces as the glob has parts, each for
\* its part: of any length for *, of one accepted byte otherwise.
Matches(g, name) ==
    \E cut \in [0 .. Len(g) -> 0 .. Len(name)] :
        /\ cut[0] = 0 /\ cut[Len(g)] = Len(name)
        /\ \A i \in DOMAIN g :
            IF g[i].part = "all" THEN cut[i - 1] <= cut[i]
            ELSE cut[i] = cut[i - 1] + 1 /\ Accepts(g[i], name[cut[i]])

\* The glob has a part [^a-b].
NegatedRange(g) == \E i \in DOMAIN g : g[i].part = "notBetween"
=============================================================================
