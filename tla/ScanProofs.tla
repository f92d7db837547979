----------------------------- MODULE ScanProofs -----------------------------
(***************************************************************************)
(* Proofs about the scans of ConcurrentDict and the patterns of KEYS, for  *)
(* any keys, shards, globs of execKeys' notation, counts and number of     *)
(* calls of Clear: first the table that IsMatch fills, then the compiler   *)
(* of patterns, then the scans.                                            *)
(***************************************************************************)
EXTENDS Scan, FiniteSetTheorems, SequenceTheorems, WellFoundedInduction, TLAPS

\* A nonempty set of natural numbers has a least member.
LEMMA LeastMember ==
    ASSUME NEW T \in SUBSET Nat, T # {}
    PROVE  \E x \in T : \A y \in T : x <= y
<1>1. PICK x \in T : \A y \in T : <<y, x>> \notin OpToRel(<, Nat)
  BY NatLessThanWellFounded, WFMin
<1>2. \A y \in T : y \in Nat /\ x \in Nat /\ ~ (y < x)
  BY <1>1 DEF OpToRel
<1> QED BY <1>2

-----------------------------------------------------------------------------
(* The table of IsMatch                                                    *)

\* What a part takes of a name, from one cut to the next.
Piece(p, name, from, to) ==
    IF p.part = "all" THEN from <= to ELSE to = from + 1 /\ WC!Accepts(p, name[to])

Cuts(g, name, i, j, cut) ==
    /\ cut \in [0 .. j -> 0 .. Len(name)]
    /\ cut[0] = 0 /\ cut[j] = i
    /\ \A n \in 1 .. j : Piece(g[n], name, cut[n - 1], cut[n])

\* The first j parts match the first i bytes.
Cut(g, name, i, j) == \E cut : Cuts(g, name, i, j, cut)

LEMMA CutNothing ==
    ASSUME NEW g, NEW name, Len(name) \in Nat, NEW i \in 0 .. Len(name)
    PROVE  Cut(g, name, i, 0) <=> i = 0
<1>1. ASSUME i = 0 PROVE Cut(g, name, i, 0)
  <2> DEFINE cut == [n \in 0 .. 0 |-> 0]
  <2>1. Cuts(g, name, i, 0, cut)
    BY <1>1 DEF Cuts
  <2> QED BY <2>1 DEF Cut
<1>2. ASSUME Cut(g, name, i, 0) PROVE i = 0
  BY <1>2 DEF Cut, Cuts
<1> QED BY <1>1, <1>2

\* The cuts of j - 1 parts, and one more.
LEMMA CutMore ==
    ASSUME NEW g, NEW name, Len(name) \in Nat, NEW j \in Nat, j # 0,
           NEW h \in 0 .. Len(name), NEW i \in 0 .. Len(name),
           Cut(g, name, h, j - 1), Piece(g[j], name, h, i)
    PROVE  Cut(g, name, i, j)
<1>1. PICK cut : Cuts(g, name, h, j - 1, cut)
  BY DEF Cut
<1> DEFINE c == [n \in 0 .. j |-> IF n = j THEN i ELSE cut[n]]
<1>2. \A n \in 0 .. j : n # j => n \in 0 .. j - 1
  OBVIOUS
<1>3. /\ c \in [0 .. j -> 0 .. Len(name)]
      /\ c[j] = i /\ c[j - 1] = h /\ c[0] = 0
      /\ \A n \in 0 .. j - 1 : c[n] = cut[n]
  BY <1>1, <1>2 DEF Cuts
<1> HIDE DEF c
<1>4. ASSUME NEW n \in 1 .. j PROVE Piece(g[n], name, c[n - 1], c[n])
  <2>1. CASE n = j
    BY <1>3, <2>1
  <2>2. CASE n # j
    <3>1. n \in 1 .. j - 1 /\ n \in 0 .. j - 1 /\ n - 1 \in 0 .. j - 1
      BY <2>2
    <3>2. Piece(g[n], name, cut[n - 1], cut[n])
      BY <1>1, <3>1 DEF Cuts
    <3> QED BY <1>3, <3>1, <3>2
  <2> QED BY <2>1, <2>2
<1>5. Cuts(g, name, i, j, c)
  BY <1>3, <1>4 DEF Cuts
<1> QED BY <1>5 DEF Cut

LEMMA CutLess ==
    ASSUME NEW g, NEW name, Len(name) \in Nat, NEW j \in Nat, j # 0,
           NEW i \in 0 .. Len(name), Cut(g, name, i, j)
    PROVE  \E h \in 0 .. Len(name) : Cut(g, name, h, j - 1) /\ Piece(g[j], name, h, i)
<1>1. PICK cut : Cuts(g, name, i, j, cut)
  BY DEF Cut
<1> DEFINE c == [n \in 0 .. j - 1 |-> cut[n]]
           h == cut[j - 1]
<1>2. /\ c \in [0 .. j - 1 -> 0 .. Len(name)]
      /\ c[j - 1] = h /\ c[0] = 0 /\ h \in 0 .. Len(name)
      /\ \A n \in 0 .. j - 1 : c[n] = cut[n]
  BY <1>1 DEF Cuts
<1> HIDE DEF c
<1>3. ASSUME NEW n \in 1 .. j - 1 PROVE Piece(g[n], name, c[n - 1], c[n])
  <2>1. n \in 1 .. j /\ n \in 0 .. j - 1 /\ n - 1 \in 0 .. j - 1
    OBVIOUS
  <2>2. Piece(g[n], name, cut[n - 1], cut[n])
    BY <1>1, <2>1 DEF Cuts
  <2> QED BY <1>2, <2>1, <2>2
<1>4. Cuts(g, name, h, j - 1, c)
  BY <1>2, <1>3 DEF Cuts
<1>5. Piece(g[j], name, h, i)
  BY <1>1 DEF Cuts
<1> QED BY <1>2, <1>4, <1>5 DEF Cut

\* The two lines of the table: for * and for every other item.
LEMMA CutMany ==
    ASSUME NEW g, NEW name, Len(name) \in Nat, NEW j \in Nat, j # 0,
           NEW i \in 0 .. Len(name), g[j].part = "all"
    PROVE  Cut(g, name, i, j) <=> Cut(g, name, i, j - 1) \/ (i > 0 /\ Cut(g, name, i - 1, j))
<1>1. ASSUME Cut(g, name, i, j - 1) PROVE Cut(g, name, i, j)
  <2>1. Piece(g[j], name, i, i)
    BY DEF Piece
  <2> QED BY <1>1, <2>1, CutMore
<1>2. ASSUME i > 0, Cut(g, name, i - 1, j) PROVE Cut(g, name, i, j)
  <2>1. i - 1 \in 0 .. Len(name)
    BY <1>2
  <2>2. PICK h \in 0 .. Len(name) : Cut(g, name, h, j - 1) /\ Piece(g[j], name, h, i - 1)
    BY <1>2, <2>1, CutLess
  <2>3. Piece(g[j], name, h, i)
    BY <2>2 DEF Piece
  <2> QED BY <2>2, <2>3, CutMore
<1>3. ASSUME Cut(g, name, i, j) PROVE Cut(g, name, i, j - 1) \/ (i > 0 /\ Cut(g, name, i - 1, j))
  <2>1. PICK h \in 0 .. Len(name) : Cut(g, name, h, j - 1) /\ Piece(g[j], name, h, i)
    BY <1>3, CutLess
  <2>2. CASE h # i
    <3>1. i > 0 /\ i - 1 \in 0 .. Len(name) /\ Piece(g[j], name, h, i - 1)
      BY <2>1, <2>2 DEF Piece
    <3> QED BY <2>1, <3>1, CutMore
  <2> QED BY <2>1, <2>2
<1> QED BY <1>1, <1>2, <1>3

LEMMA CutOne ==
    ASSUME NEW g, NEW name, Len(name) \in Nat, NEW j \in Nat, j # 0,
           NEW i \in 0 .. Len(name), g[j].part # "all"
    PROVE  Cut(g, name, i, j) <=> i > 0 /\ Cut(g, name, i - 1, j - 1) /\ WC!Accepts(g[j], name[i])
<1>1. ASSUME i > 0, Cut(g, name, i - 1, j - 1), WC!Accepts(g[j], name[i]) PROVE Cut(g, name, i, j)
  <2>1. i - 1 \in 0 .. Len(name) /\ Piece(g[j], name, i - 1, i)
    BY <1>1 DEF Piece
  <2> QED BY <1>1, <2>1, CutMore
<1>2. ASSUME Cut(g, name, i, j)
      PROVE  i > 0 /\ Cut(g, name, i - 1, j - 1) /\ WC!Accepts(g[j], name[i])
  <2>1. PICK h \in 0 .. Len(name) : Cut(g, name, h, j - 1) /\ Piece(g[j], name, h, i)
    BY <1>2, CutLess
  <2>2. i = h + 1 /\ WC!Accepts(g[j], name[i])
    BY <2>1 DEF Piece
  <2>3. h = i - 1 /\ i > 0
    BY <2>2
  <2> QED BY <2>1, <2>2, <2>3
<1> QED BY <1>1, <1>2

\* An item takes the bytes that a part accepts.
Alike(item, part) ==
    /\ item.typeCode = "all" <=> part.part = "all"
    /\ part.part # "all" => \A c \in 0 .. 255 : item.typeCode = "any" \/ WC!contains(item, c) <=> WC!Accepts(part, c)

\* A row of the table as it should be.
Reference(g, name, i) == [j \in 0 .. Len(g) |-> Cut(g, name, i, j)]

Filled(items, key, i, above, row) ==
    row = [j \in 0 .. Len(items) |->
            IF j = 0 THEN i = 0
            ELSE IF items[j].typeCode = "all" THEN row[j - 1] \/ (i > 0 /\ above[j])
            ELSE i > 0 /\ above[j - 1] /\ (items[j].typeCode = "any" \/ WC!contains(items[j], key[i]))]

LEMMA RowChosen == \A items, key, i, above : WC!Row(items, key, i, above) = CHOOSE row : Filled(items, key, i, above, row)
  BY DEF WC!Row, Filled

LEMMA ReferenceStep ==
    ASSUME NEW items, NEW g, NEW name \in Seq(0 .. 255), Len(g) \in Nat, Len(items) = Len(g),
           \A j \in 1 .. Len(g) : Alike(items[j], g[j]),
           NEW i \in 0 .. Len(name), NEW above, i > 0 => above = Reference(g, name, i - 1),
           NEW j \in 0 .. Len(g)
    PROVE  Cut(g, name, i, j) <=>
              IF j = 0 THEN i = 0
              ELSE IF items[j].typeCode = "all" THEN Cut(g, name, i, j - 1) \/ (i > 0 /\ above[j])
              ELSE i > 0 /\ above[j - 1] /\ (items[j].typeCode = "any" \/ WC!contains(items[j], name[i]))
<1>1. Len(name) \in Nat /\ j \in Nat
  OBVIOUS
<1>2. CASE j = 0
  BY <1>1, <1>2, CutNothing
<1>5. ASSUME j # 0 PROVE Alike(items[j], g[j])
  <2>1. j \in 1 .. Len(g)
    BY <1>5
  <2> QED BY <2>1
<1>3. CASE j # 0 /\ items[j].typeCode = "all"
  <2>1. g[j].part = "all"
    BY <1>3, <1>5 DEF Alike
  <2>2. i > 0 => above[j] = Cut(g, name, i - 1, j)
    BY DEF Reference
  <2>3. Cut(g, name, i, j) <=> Cut(g, name, i, j - 1) \/ (i > 0 /\ Cut(g, name, i - 1, j))
    BY <1>1, <1>3, <2>1, CutMany
  <2> QED BY <1>3, <2>2, <2>3
<1>4. CASE j # 0 /\ items[j].typeCode # "all"
  <2>1. g[j].part # "all"
    BY <1>4, <1>5 DEF Alike
  <2>2. i > 0 => above[j - 1] = Cut(g, name, i - 1, j - 1)
    BY <1>4 DEF Reference
  <2>3. ASSUME i > 0 PROVE name[i] \in 0 .. 255
    <3>1. i \in 1 .. Len(name)
      BY <1>1, <2>3
    <3>2. \A n \in 1 .. Len(name) : name[n] \in 0 .. 255
      BY ElementOfSeq
    <3> QED BY <3>1, <3>2
  <2>4. i > 0 => (items[j].typeCode = "any" \/ WC!contains(items[j], name[i]) <=> WC!Accepts(g[j], name[i]))
    BY <1>4, <1>5, <2>1, <2>3 DEF Alike
  <2>5. Cut(g, name, i, j) <=> i > 0 /\ Cut(g, name, i - 1, j - 1) /\ WC!Accepts(g[j], name[i])
    BY <1>1, <1>4, <2>1, CutOne
  <2> QED BY <1>4, <2>2, <2>4, <2>5
<1> QED BY <1>2, <1>3, <1>4

\* Row i is as it should be if row i - 1 is.
LEMMA RowIs ==
    ASSUME NEW items, NEW g, NEW name \in Seq(0 .. 255), Len(g) \in Nat, Len(items) = Len(g),
           \A j \in 1 .. Len(g) : Alike(items[j], g[j]),
           NEW i \in 0 .. Len(name), NEW above, i > 0 => above = Reference(g, name, i - 1)
    PROVE  WC!Row(items, name, i, above) = Reference(g, name, i)
<1> DEFINE D == 0 .. Len(g)
           Entry(row, j) ==
              IF j = 0 THEN i = 0
              ELSE IF items[j].typeCode = "all" THEN row[j - 1] \/ (i > 0 /\ above[j])
              ELSE i > 0 /\ above[j - 1] /\ (items[j].typeCode = "any" \/ WC!contains(items[j], name[i]))
           R == Reference(g, name, i)
<1>1. \A row : Filled(items, name, i, above, row) <=> row = [j \in D |-> Entry(row, j)]
  BY DEF Filled
<1>2. R = [j \in D |-> R[j]] /\ \A j \in D : R[j] = Cut(g, name, i, j)
  BY DEF Reference
<1>3. \A j \in D : R[j] \in BOOLEAN
  <2>1. \A j : Cut(g, name, i, j) \in BOOLEAN
    BY DEF Cut
  <2> QED BY <1>2, <2>1
<1>4. ASSUME NEW j \in D, NEW row, j > 0 => row[j - 1] = R[j - 1] PROVE Entry(row, j) = R[j]
  <2>1. Cut(g, name, i, j) <=>
          IF j = 0 THEN i = 0
          ELSE IF items[j].typeCode = "all" THEN Cut(g, name, i, j - 1) \/ (i > 0 /\ above[j])
          ELSE i > 0 /\ above[j - 1] /\ (items[j].typeCode = "any" \/ WC!contains(items[j], name[i]))
    BY ReferenceStep
  <2>2. j > 0 => row[j - 1] = Cut(g, name, i, j - 1)
    <3>1. j > 0 => j - 1 \in D
      OBVIOUS
    <3> QED BY <1>2, <1>4, <3>1
  <2>3. R[j] <=> Entry(row, j)
    BY <1>2, <2>1, <2>2
  <2>4. Entry(row, j) \in BOOLEAN
    BY <2>2 DEF Cut
  <2> QED BY <1>3, <2>3, <2>4
<1>5. Filled(items, name, i, above, R)
  <2>1. \A j \in D : j > 0 => R[j - 1] = R[j - 1]
    OBVIOUS
  <2>2. \A j \in D : Entry(R, j) = R[j]
    BY <1>4, <2>1
  <2> HIDE DEF Entry, R
  <2> QED BY <1>1, <1>2, <2>2
<1>6. ASSUME NEW row, Filled(items, name, i, above, row) PROVE row = R
  <2>1. row = [j \in D |-> row[j]] /\ \A j \in D : row[j] = Entry(row, j)
    <3> HIDE DEF Entry
    <3> QED BY <1>1, <1>6
  <2> DEFINE Bad == {j \in D : row[j] # R[j]}
  <2>2. ASSUME Bad # {} PROVE FALSE
    <3>1. PICK j \in Bad : \A k \in Bad : j <= k
      <4>1. Bad \in SUBSET Nat /\ Bad # {}
        BY <2>2
      <4> HIDE DEF Bad
      <4> QED BY <4>1, LeastMember
    <3>2. j \in D /\ row[j] # R[j] /\ (j > 0 => j - 1 \in D /\ ~ (j <= j - 1))
      BY <3>1
    <3>3. j > 0 => row[j - 1] = R[j - 1]
      BY <3>1, <3>2
    <3>4. Entry(row, j) = R[j]
      BY <1>4, <3>2, <3>3
    <3> QED BY <2>1, <3>2, <3>4
  <2>3. \A j \in D : row[j] = R[j]
    BY <2>2
  <2> HIDE DEF R, Bad
  <2> QED BY <1>2, <2>1, <2>3
<1> HIDE DEF R, Entry
<1>7. WC!Row(items, name, i, above) = CHOOSE row : Filled(items, name, i, above, row)
  BY RowChosen
<1>8. WC!Row(items, name, i, above) = R
  BY <1>5, <1>6, <1>7
<1> QED BY <1>8 DEF R

Tabled(items, key, rows) ==
    rows = [i \in 0 .. Len(key) |-> WC!Row(items, key, i, IF i = 0 THEN <<>> ELSE rows[i - 1])]

LEMMA TableChosen ==
    \A items, key : WC!IsMatch(items, key) = (CHOOSE rows : Tabled(items, key, rows))[Len(key)][Len(items)]
  BY DEF WC!IsMatch, Tabled

\* IsMatch finds whether the name can be cut as the glob asks.
LEMMA MatchIs ==
    ASSUME NEW items, NEW g, NEW name \in Seq(0 .. 255), Len(g) \in Nat, Len(items) = Len(g),
           \A j \in 1 .. Len(g) : Alike(items[j], g[j])
    PROVE  WC!IsMatch(items, name) <=> Cut(g, name, Len(name), Len(g))
<1> DEFINE D == 0 .. Len(name)
           R == [i \in D |-> Reference(g, name, i)]
           Above(rows, i) == IF i = 0 THEN <<>> ELSE rows[i - 1]
<1>1. \A rows : Tabled(items, name, rows) <=> rows = [i \in D |-> WC!Row(items, name, i, Above(rows, i))]
  BY DEF Tabled
<1>2. ASSUME NEW i \in D, NEW rows, i > 0 => rows[i - 1] = R[i - 1]
      PROVE  WC!Row(items, name, i, Above(rows, i)) = R[i]
  <2>1. i > 0 => Above(rows, i) = Reference(g, name, i - 1)
    <3>1. i > 0 => i - 1 \in D /\ i # 0
      OBVIOUS
    <3> QED BY <1>2, <3>1
  <2> HIDE DEF Above
  <2>2. WC!Row(items, name, i, Above(rows, i)) = Reference(g, name, i)
    BY <2>1, RowIs
  <2> QED BY <2>2
<1>3. R = [i \in D |-> R[i]]
  OBVIOUS
<1> HIDE DEF R, Above
<1>4. Tabled(items, name, R)
  <2>1. \A i \in D : WC!Row(items, name, i, Above(R, i)) = R[i]
    BY <1>2
  <2> QED BY <1>1, <1>3, <2>1
<1>5. ASSUME NEW rows, Tabled(items, name, rows) PROVE rows = R
  <2>1. rows = [i \in D |-> rows[i]] /\ \A i \in D : rows[i] = WC!Row(items, name, i, Above(rows, i))
    BY <1>1, <1>5
  <2> DEFINE Bad == {i \in D : rows[i] # R[i]}
  <2>2. ASSUME Bad # {} PROVE FALSE
    <3>1. PICK i \in Bad : \A k \in Bad : i <= k
      <4>1. Bad \in SUBSET Nat /\ Bad # {}
        BY <2>2
      <4> HIDE DEF Bad
      <4> QED BY <4>1, LeastMember
    <3>2. i \in D /\ rows[i] # R[i] /\ (i > 0 => i - 1 \in D /\ ~ (i <= i - 1))
      BY <3>1
    <3>3. i > 0 => rows[i - 1] = R[i - 1]
      BY <3>1, <3>2
    <3>4. WC!Row(items, name, i, Above(rows, i)) = R[i]
      BY <1>2, <3>2, <3>3
    <3> QED BY <2>1, <3>2, <3>4
  <2>3. \A i \in D : rows[i] = R[i]
    BY <2>2
  <2> HIDE DEF Bad
  <2> QED BY <1>3, <2>1, <2>3
<1>6. (CHOOSE rows : Tabled(items, name, rows)) = R
  BY <1>4, <1>5
<1>7. WC!IsMatch(items, name) = R[Len(name)][Len(items)]
  BY <1>6, TableChosen
<1>8. R[Len(name)] = Reference(g, name, Len(name))
  BY DEF R
<1>9. Reference(g, name, Len(name))[Len(g)] = Cut(g, name, Len(name), Len(g))
  BY DEF Reference
<1> QED BY <1>7, <1>8, <1>9
-----------------------------------------------------------------------------
(* The loop of CompilePattern                                              *)

Steps(p, src, f) ==
    f = [n \in 0 .. Len(src) |-> IF n = 0 THEN p ELSE WC!compileByte(f[n - 1], src[n])]

\* The bytes of src take the compiler from p to q.
Runs(p, src, q) == \E f : Steps(p, src, f) /\ f[Len(src)] = q

LEMMA RunsCompiles ==
    ASSUME NEW p, NEW src, Len(src) \in Nat, NEW q, Runs(p, src, q)
    PROVE  WC!compile(p, src) = q
<1>1. PICK f : Steps(p, src, f) /\ f[Len(src)] = q
  BY DEF Runs
<1> DEFINE D == 0 .. Len(src)
<1>2. \A h : Steps(p, src, h) =>
          /\ h = [n \in D |-> h[n]]
          /\ \A n \in D : h[n] = IF n = 0 THEN p ELSE WC!compileByte(h[n - 1], src[n])
  BY DEF Steps
<1>3. ASSUME NEW h, Steps(p, src, h) PROVE h = f
  <2> DEFINE Bad == {n \in D : h[n] # f[n]}
  <2>1. ASSUME Bad # {} PROVE FALSE
    <3>1. PICK n \in Bad : \A k \in Bad : n <= k
      <4>1. Bad \in SUBSET Nat /\ Bad # {}
        BY <2>1
      <4> HIDE DEF Bad
      <4> QED BY <4>1, LeastMember
    <3>2. n \in D /\ h[n] # f[n] /\ (n # 0 => n - 1 \in D /\ ~ (n <= n - 1))
      BY <3>1
    <3>3. n # 0 => h[n - 1] = f[n - 1]
      BY <3>1, <3>2
    <3> QED BY <1>1, <1>2, <1>3, <3>2, <3>3
  <2>2. \A n \in D : h[n] = f[n]
    BY <2>1
  <2> HIDE DEF Bad
  <2> QED BY <1>1, <1>2, <1>3, <2>2
<1>4. WC!compile(p, src) = (CHOOSE h : Steps(p, src, h))[Len(src)]
  BY DEF WC!compile, Steps
<1>5. (CHOOSE h : Steps(p, src, h)) = f
  BY <1>1, <1>3
<1> QED BY <1>1, <1>4, <1>5

LEMMA StepsFacts ==
    ASSUME NEW p, NEW src, Len(src) \in Nat, NEW f, Steps(p, src, f)
    PROVE  f[0] = p /\ \A n \in 1 .. Len(src) : f[n] = WC!compileByte(f[n - 1], src[n])
<1>1. \A n \in 0 .. Len(src) : f[n] = IF n = 0 THEN p ELSE WC!compileByte(f[n - 1], src[n])
  BY DEF Steps
<1>2. 0 \in 0 .. Len(src) /\ \A n \in 1 .. Len(src) : n \in 0 .. Len(src) /\ n # 0
  OBVIOUS
<1> QED BY <1>1, <1>2

LEMMA RunsNone ==
    ASSUME NEW p
    PROVE  Runs(p, <<>>, p)
<1> DEFINE f == [n \in 0 .. 0 |-> p]
<1>1. Len(<<>>) = 0 /\ f[0] = p /\ f = [n \in 0 .. 0 |-> f[n]] /\ \A n \in 0 .. 0 : n = 0
  OBVIOUS
<1> HIDE DEF f
<1>2. Steps(p, <<>>, f)
  BY <1>1 DEF Steps
<1> QED BY <1>1, <1>2 DEF Runs

LEMMA RunsByte ==
    ASSUME NEW p, NEW c
    PROVE  Runs(p, <<c>>, WC!compileByte(p, c))
<1> DEFINE f == [n \in 0 .. 1 |-> IF n = 0 THEN p ELSE WC!compileByte(p, c)]
<1>1. /\ Len(<<c>>) = 1 /\ f[0] = p /\ f[1] = WC!compileByte(p, c) /\ f = [n \in 0 .. 1 |-> f[n]]
      /\ \A n \in 0 .. 1 : n # 0 => n = 1 /\ n - 1 = 0
      /\ <<c>>[1] = c
  OBVIOUS
<1> HIDE DEF f
<1>2. Steps(p, <<c>>, f)
  BY <1>1 DEF Steps
<1> QED BY <1>1, <1>2 DEF Runs

LEMMA RunsConcat ==
    ASSUME NEW a \in Seq(0 .. 255), NEW b \in Seq(0 .. 255), NEW p, NEW q, NEW r,
           Runs(p, a, q), Runs(q, b, r)
    PROVE  Runs(p, a \o b, r)
<1>1. PICK f : Steps(p, a, f) /\ f[Len(a)] = q
  BY DEF Runs
<1>2. PICK h : Steps(q, b, h) /\ h[Len(b)] = r
  BY DEF Runs
<1> DEFINE m == Len(a)
           k == Len(b)
           w == a \o b
<1>3. m \in Nat /\ k \in Nat /\ Len(w) = m + k
  OBVIOUS
<1>4. /\ \A n \in 1 .. m : w[n] = a[n]
      /\ \A n \in 1 .. m + k : ~ (n <= m) => w[n] = b[n - m]
  BY ConcatProperties
<1>5. /\ f[0] = p /\ \A n \in 1 .. m : f[n] = WC!compileByte(f[n - 1], a[n])
      /\ h[0] = q /\ \A n \in 1 .. k : h[n] = WC!compileByte(h[n - 1], b[n])
  BY <1>1, <1>2, <1>3, StepsFacts
<1> HIDE DEF m, k, w
<1> DEFINE e == [n \in 0 .. m + k |-> IF n <= m THEN f[n] ELSE h[n - m]]
<1>6. e = [n \in 0 .. m + k |-> e[n]] /\ \A n \in 0 .. m + k : e[n] = IF n <= m THEN f[n] ELSE h[n - m]
  OBVIOUS
<1> HIDE DEF e
<1>7. ASSUME NEW n \in 0 .. m + k PROVE e[n] = IF n = 0 THEN p ELSE WC!compileByte(e[n - 1], w[n])
  <2>1. CASE n = 0
    <3>1. 0 <= m
      BY <1>3
    <3>2. e[0] = f[0]
      BY <1>6, <2>1, <3>1
    <3> QED BY <1>5, <2>1, <3>2
  <2>2. CASE n # 0 /\ n <= m
    <3>1. n \in 0 .. m /\ n \in 1 .. m /\ n - 1 \in 0 .. m + k /\ n - 1 <= m
      BY <1>3, <2>2
    <3> QED BY <1>4, <1>5, <1>6, <2>2, <3>1
  <2>3. CASE n = m + 1
    <3>1. n # 0 /\ ~ (n <= m) /\ n - m = 1 /\ 1 - 1 = 0 /\ 1 \in 1 .. k /\ n - 1 = m /\ m \in 0 .. m + k /\ m <= m /\ n \in 1 .. m + k
      BY <1>3, <2>3
    <3>2. e[n] = h[1] /\ e[n - 1] = q /\ w[n] = b[1]
      BY <1>1, <1>4, <1>6, <3>1 DEF m
    <3> QED BY <1>5, <3>1, <3>2
  <2>4. CASE n > m + 1
    <3>1. /\ n # 0 /\ ~ (n <= m) /\ ~ (n - 1 <= m) /\ n - 1 \in 0 .. m + k /\ n \in 1 .. m + k
          /\ n - m \in 1 .. k /\ (n - 1) - m = (n - m) - 1
      BY <1>3, <2>4
    <3>2. e[n] = h[n - m] /\ e[n - 1] = h[(n - m) - 1] /\ w[n] = b[n - m]
      BY <1>4, <1>6, <3>1
    <3> QED BY <1>5, <3>1, <3>2
  <2> QED BY <1>3, <2>1, <2>2, <2>3, <2>4
<1>8. Steps(p, w, e)
  BY <1>3, <1>6, <1>7 DEF Steps
<1>9. e[Len(w)] = r
  <2>1. CASE k = 0
    <3>1. m + k = m /\ m <= m /\ m \in 0 .. m + k
      BY <1>3, <2>1
    <3> QED BY <1>1, <1>2, <1>3, <1>5, <1>6, <2>1, <3>1 DEF m, k
  <2>2. CASE k # 0
    <3>1. ~ (m + k <= m) /\ (m + k) - m = k /\ m + k \in 0 .. m + k
      BY <1>3, <2>2
    <3> QED BY <1>2, <1>3, <1>6, <3>1 DEF k
  <2> QED BY <2>1, <2>2
<1> QED BY <1>8, <1>9 DEF Runs, w
-----------------------------------------------------------------------------
(* Bytes and parts                                                         *)

\* The states of the compiler between two parts, behind a backslash, and
\* between brackets.
Ready(items, set) == WC!Loop(items, FALSE, FALSE, set)
Escaped(items, set) == WC!Loop(items, TRUE, FALSE, set)
Inside(items, set) == WC!Loop(items, FALSE, TRUE, set)

LEMMA Distinct ==
    /\ WC!Star # WC!Question /\ WC!Star # WC!Backslash /\ WC!Star # WC!Open /\ WC!Star # WC!Close
    /\ WC!Question # WC!Backslash /\ WC!Question # WC!Open /\ WC!Question # WC!Close
    /\ WC!Backslash # WC!Open /\ WC!Backslash # WC!Close /\ WC!Open # WC!Close
  BY DEF WC!Star, WC!Question, WC!Backslash, WC!Open, WC!Close

LEMMA Outside ==
    ASSUME NEW items, NEW set
    PROVE  /\ WC!compileByte(Ready(items, set), WC!Star) = Ready(Append(items, WC!item("all", {})), set)
           /\ WC!compileByte(Ready(items, set), WC!Question) = Ready(Append(items, WC!item("any", {})), set)
           /\ WC!compileByte(Ready(items, set), WC!Backslash) = Escaped(items, set)
           /\ WC!compileByte(Ready(items, set), WC!Open) = Inside(items, {})
<1> DEFINE p == Ready(items, set)
<1>1. p.items = items /\ p.escape = FALSE /\ p.inSet = FALSE /\ p.set = set
  BY DEF Ready, WC!Loop
<1>2. WC!compileByte(p, WC!Star) = WC!Loop(Append(items, WC!item("all", {})), FALSE, FALSE, set)
  <2> HIDE DEF p
  <2> QED BY <1>1, Distinct DEF WC!compileByte
<1>3. WC!compileByte(p, WC!Question) = WC!Loop(Append(items, WC!item("any", {})), FALSE, FALSE, set)
  <2> HIDE DEF p
  <2> QED BY <1>1, Distinct DEF WC!compileByte
<1>4. WC!compileByte(p, WC!Backslash) = WC!Loop(items, TRUE, FALSE, set)
  <2> HIDE DEF p
  <2> QED BY <1>1, Distinct DEF WC!compileByte
<1>5. WC!compileByte(p, WC!Open) = WC!Loop(items, FALSE, TRUE, {})
  <2> HIDE DEF p
  <2> QED BY <1>1, Distinct DEF WC!compileByte
<1> QED BY <1>2, <1>3, <1>4, <1>5 DEF Ready, Escaped, Inside

LEMMA BehindBackslash ==
    ASSUME NEW items, NEW set, NEW c
    PROVE  WC!compileByte(Escaped(items, set), c) = Ready(Append(items, WC!item("normal", {c})), set)
<1> DEFINE p == Escaped(items, set)
<1>1. p.items = items /\ p.escape = TRUE /\ p.inSet = FALSE /\ p.set = set
  BY DEF Escaped, WC!Loop
<1>2. WC!compileByte(p, c) = WC!Loop(Append(items, WC!item("normal", {c})), FALSE, FALSE, set)
  <2> HIDE DEF p
  <2> QED BY <1>1 DEF WC!compileByte
<1> QED BY <1>2 DEF Ready

LEMMA Ordinary ==
    ASSUME NEW c, c \notin WC!Special
    PROVE  c # WC!Star /\ c # WC!Question /\ c # WC!Backslash /\ c # WC!Open /\ c # WC!Close
  BY DEF WC!Special

LEMMA OutsideByte ==
    ASSUME NEW items, NEW set, NEW c, c \notin WC!Special
    PROVE  WC!compileByte(Ready(items, set), c) = Ready(Append(items, WC!item("normal", {c})), set)
<1> DEFINE p == Ready(items, set)
<1>1. p.items = items /\ p.escape = FALSE /\ p.inSet = FALSE /\ p.set = set
  BY DEF Ready, WC!Loop
<1>2. WC!compileByte(p, c) = WC!Loop(Append(items, WC!item("normal", {c})), FALSE, FALSE, set)
  <2> HIDE DEF p
  <2> QED BY <1>1, Ordinary DEF WC!compileByte
<1> QED BY <1>2 DEF Ready

LEMMA InsideByte ==
    ASSUME NEW items, NEW set, NEW c, c \notin WC!Special
    PROVE  WC!compileByte(Inside(items, set), c) = Inside(items, set \cup {c})
<1> DEFINE p == Inside(items, set)
<1>1. p.items = items /\ p.escape = FALSE /\ p.inSet = TRUE /\ p.set = set
  BY DEF Inside, WC!Loop
<1>2. WC!compileByte(p, c) = WC!Loop(items, FALSE, TRUE, set \cup {c})
  <2> HIDE DEF p
  <2> QED BY <1>1, Ordinary DEF WC!compileByte
<1> QED BY <1>2 DEF Inside

LEMMA InsideEnds ==
    ASSUME NEW items, NEW set
    PROVE  WC!compileByte(Inside(items, set), WC!Close) = Ready(Append(items, WC!Chosen(set)), set)
<1> DEFINE p == Inside(items, set)
<1>1. p.items = items /\ p.escape = FALSE /\ p.inSet = TRUE /\ p.set = set
  BY DEF Inside, WC!Loop
<1>2. WC!compileByte(p, WC!Close) = WC!Loop(Append(items, WC!Chosen(set)), FALSE, FALSE, set)
  <2> HIDE DEF p
  <2> QED BY <1>1, Distinct DEF WC!compileByte
<1> QED BY <1>2 DEF Ready

\* The bytes between brackets are collected.
LEMMA InsideBytes ==
    ASSUME NEW items, NEW set, NEW w \in Seq(0 .. 255), \A n \in 1 .. Len(w) : w[n] \notin WC!Special
    PROVE  Runs(Inside(items, set), w, Inside(items, set \cup {w[n] : n \in 1 .. Len(w)}))
<1> DEFINE So(n) == set \cup {w[k] : k \in 1 .. n}
           f == [n \in 0 .. Len(w) |-> Inside(items, So(n))]
<1>1. Len(w) \in Nat
  OBVIOUS
<1>2. So(0) = set
  OBVIOUS
<1>3. ASSUME NEW n \in 1 .. Len(w) PROVE So(n) = So(n - 1) \cup {w[n]}
  <2>1. \A k : k \in 1 .. n <=> k \in 1 .. n - 1 \/ k = n
    BY <1>1
  <2> QED BY <2>1
<1> HIDE DEF So
<1>4. f = [n \in 0 .. Len(w) |-> f[n]] /\ \A n \in 0 .. Len(w) : f[n] = Inside(items, So(n))
  OBVIOUS
<1> HIDE DEF f
<1>5. ASSUME NEW n \in 0 .. Len(w)
      PROVE  f[n] = IF n = 0 THEN Inside(items, set) ELSE WC!compileByte(f[n - 1], w[n])
  <2>1. CASE n = 0
    BY <1>2, <1>4, <2>1
  <2>2. CASE n # 0
    <3>1. n \in 1 .. Len(w) /\ n - 1 \in 0 .. Len(w)
      BY <1>1, <2>2
    <3>2. w[n] \notin WC!Special
      BY <3>1
    <3>3. WC!compileByte(Inside(items, So(n - 1)), w[n]) = Inside(items, So(n - 1) \cup {w[n]})
      BY <3>2, InsideByte
    <3> QED BY <1>3, <1>4, <2>2, <3>1, <3>3
  <2> QED BY <2>1, <2>2
<1>6. Steps(Inside(items, set), w, f)
  BY <1>4, <1>5 DEF Steps
<1>7. f[Len(w)] = Inside(items, So(Len(w)))
  BY <1>1, <1>4
<1> QED BY <1>6, <1>7 DEF Runs, So

\* An order of a finite set.
Enumerates(f, T) ==
    /\ f \in [1 .. Cardinality(T) -> T]
    /\ \A a, b \in DOMAIN f : f[a] = f[b] => a = b

LEMMA Enumeration ==
    ASSUME NEW T, IsFiniteSet(T)
    PROVE  \E f : Enumerates(f, T)
<1>1. ExistsBijection(1 .. Cardinality(T), T)
  BY FS_CardinalityType
<1> QED BY <1>1 DEF ExistsBijection, Bijection, Injection, Surjection, IsInjective, Enumerates

LEMMA EnumerationIs ==
    ASSUME NEW T, IsFiniteSet(T), NEW f, Enumerates(f, T)
    PROVE  /\ f \in Seq(T) /\ Len(f) = Cardinality(T) /\ Cardinality(T) \in Nat
           /\ T = {f[n] : n \in 1 .. Len(f)}
           /\ \A a, b \in 1 .. Len(f) : f[a] = f[b] => a = b
<1>1. Cardinality(T) \in Nat
  BY FS_CardinalityType
<1>2. f \in [1 .. Cardinality(T) -> T] /\ f \in Seq(T) /\ Len(f) = Cardinality(T) /\ DOMAIN f = 1 .. Len(f)
  BY <1>1 DEF Enumerates
<1>3. \A a, b \in 1 .. Len(f) : f[a] = f[b] => a = b
  BY <1>2 DEF Enumerates
<1>4. f \in Injection(1 .. Cardinality(T), T)
  BY <1>2, <1>3 DEF Injection, IsInjective
<1>5. IsFiniteSet(1 .. Cardinality(T)) /\ Cardinality(1 .. Cardinality(T)) = Cardinality(T)
  <2>1. 1 \in Int /\ Cardinality(T) \in Int
    BY <1>1
  <2>2. IsFiniteSet(1 .. Cardinality(T)) /\ Cardinality(1 .. Cardinality(T)) = IF 1 > Cardinality(T) THEN 0 ELSE Cardinality(T) - 1 + 1
    BY <2>1, FS_Interval
  <2>3. Cardinality(T) = 0 \/ ~ (1 > Cardinality(T))
    BY <1>1
  <2> QED BY <1>1, <2>2, <2>3
<1>6. f \in Surjection(1 .. Cardinality(T), T)
  BY <1>4, <1>5, FS_Injection
<1>7. \A x \in T : \E n \in 1 .. Len(f) : f[n] = x
  BY <1>2, <1>6 DEF Surjection
<1> QED BY <1>1, <1>2, <1>3, <1>7

\* The module that is instantiated has a Cardinality of its own.
LEMMA SameCardinality == \A T : WC!Cardinality(T) = Cardinality(T)
  BY DEF WC!Cardinality, Cardinality

LEMMA SetToSeqWC ==
    ASSUME NEW T, IsFiniteSet(T)
    PROVE  Enumerates(WC!SetToSeq(T), T)
<1>1. WC!SetToSeq(T) = CHOOSE f : f \in [1 .. Cardinality(T) -> T] /\ \A a, b \in DOMAIN f : f[a] = f[b] => a = b
  BY SameCardinality DEF WC!SetToSeq, WC!IsInjective
<1>2. WC!SetToSeq(T) = CHOOSE f : Enumerates(f, T)
  BY <1>1 DEF Enumerates
<1> QED BY <1>2, Enumeration

\* What CompilePattern makes of a part.
ItemOf(p) ==
    CASE p.part = "any" -> WC!item("any", {})
      [] p.part = "all" -> WC!item("all", {})
      [] p.part = "char" -> WC!item("normal", {p.char})
      [] p.part = "among" -> WC!item("set", p.chars)
      [] p.part = "notAmong" -> WC!item("neg", p.chars)
      [] p.part = "between" -> WC!item("range", {p.from, p.to})
      [] p.part = "notBetween" -> WC!item("neg", {p.from, p.to})

LEMMA OneByte == \A c \in 0 .. 255 : <<c>> \in Seq(0 .. 255)
  OBVIOUS

LEMMA SpecialBytes == WC!Special \subseteq 0 .. 255 /\ WC!Dash \in 0 .. 255 /\ WC!Caret \in 0 .. 255
  BY DEF WC!Special, WC!Dash, WC!Caret, WC!Star, WC!Question, WC!Backslash, WC!Open, WC!Close

LEMMA Brackets == <<WC!Open>> \in Seq(0 .. 255) /\ <<WC!Close>> \in Seq(0 .. 255)
  BY SpecialBytes, OneByte DEF WC!Special

LEMMA Bracketed ==
    ASSUME NEW items, NEW set, NEW w \in Seq(0 .. 255), \A n \in 1 .. Len(w) : w[n] \notin WC!Special,
           NEW T, T = {w[n] : n \in 1 .. Len(w)}
    PROVE  /\ <<WC!Open>> \o w \o <<WC!Close>> \in Seq(0 .. 255)
           /\ Runs(Ready(items, set), <<WC!Open>> \o w \o <<WC!Close>>, Ready(Append(items, WC!Chosen(T)), T))
<1>1. Runs(Ready(items, set), <<WC!Open>>, Inside(items, {}))
  BY RunsByte, Outside
<1>2. Runs(Inside(items, {}), w, Inside(items, T))
  <2>1. {} \cup {w[n] : n \in 1 .. Len(w)} = T
    OBVIOUS
  <2>2. Runs(Inside(items, {}), w, Inside(items, {} \cup {w[n] : n \in 1 .. Len(w)}))
    BY InsideBytes
  <2> QED BY <2>1, <2>2
<1>3. Runs(Inside(items, T), <<WC!Close>>, Ready(Append(items, WC!Chosen(T)), T))
  BY RunsByte, InsideEnds
<1>4. PICK a \in Seq(0 .. 255), b \in Seq(0 .. 255) : a = <<WC!Open>> /\ b = <<WC!Close>>
  BY Brackets
<1>5. a \o w \in Seq(0 .. 255) /\ a \o w \o b \in Seq(0 .. 255)
  OBVIOUS
<1>6. Runs(Ready(items, set), a \o w, Inside(items, T))
  BY <1>1, <1>2, <1>4, RunsConcat
<1>7. Runs(Ready(items, set), a \o w \o b, Ready(Append(items, WC!Chosen(T)), T))
  BY <1>3, <1>4, <1>5, <1>6, RunsConcat
<1> QED BY <1>4, <1>5, <1>7

Compiles(items, set, w, item) ==
    w \in Seq(0 .. 255) /\ \E s : Runs(Ready(items, set), w, Ready(Append(items, item), s))

LEMMA CompilesOne ==
    ASSUME NEW items, NEW set
    PROVE  Compiles(items, set, WC!Written(WC!One), ItemOf(WC!One))
<1>1. WC!Written(WC!One) = <<WC!Question>> /\ ItemOf(WC!One) = WC!item("any", {})
  BY DEF WC!Written, ItemOf, WC!One
<1>2. <<WC!Question>> \in Seq(0 .. 255)
  BY SpecialBytes, OneByte DEF WC!Special
<1>3. Runs(Ready(items, set), <<WC!Question>>, Ready(Append(items, WC!item("any", {})), set))
  BY RunsByte, Outside
<1> QED BY <1>1, <1>2, <1>3 DEF Compiles

LEMMA CompilesMany ==
    ASSUME NEW items, NEW set
    PROVE  Compiles(items, set, WC!Written(WC!Many), ItemOf(WC!Many))
<1>1. WC!Written(WC!Many) = <<WC!Star>> /\ ItemOf(WC!Many) = WC!item("all", {})
  BY DEF WC!Written, ItemOf, WC!Many
<1>2. <<WC!Star>> \in Seq(0 .. 255)
  BY SpecialBytes, OneByte DEF WC!Special
<1>3. Runs(Ready(items, set), <<WC!Star>>, Ready(Append(items, WC!item("all", {})), set))
  BY RunsByte, Outside
<1> QED BY <1>1, <1>2, <1>3 DEF Compiles

LEMMA CompilesChar ==
    ASSUME NEW items, NEW set, NEW c \in 0 .. 255
    PROVE  Compiles(items, set, WC!Written(WC!Char(c)), ItemOf(WC!Char(c)))
<1>1. /\ WC!Written(WC!Char(c)) = (IF c \in WC!Special THEN <<WC!Backslash>> ELSE <<>>) \o <<c>>
      /\ ItemOf(WC!Char(c)) = WC!item("normal", {c})
  BY DEF WC!Written, ItemOf, WC!Char
<1>2. <<c>> \in Seq(0 .. 255) /\ <<WC!Backslash>> \in Seq(0 .. 255)
  BY SpecialBytes, OneByte DEF WC!Special
<1> DEFINE next == Ready(Append(items, WC!item("normal", {c})), set)
<1>3. CASE c \in WC!Special
  <2>1. Runs(Ready(items, set), <<WC!Backslash>>, Escaped(items, set))
    BY RunsByte, Outside
  <2>2. Runs(Escaped(items, set), <<c>>, next)
    BY RunsByte, BehindBackslash
  <2>3. PICK a \in Seq(0 .. 255), b \in Seq(0 .. 255) : a = <<WC!Backslash>> /\ b = <<c>>
    BY <1>2
  <2> HIDE DEF next
  <2>4. Runs(Ready(items, set), a, Escaped(items, set)) /\ Runs(Escaped(items, set), b, next)
    BY <2>1, <2>2, <2>3
  <2>5. Runs(Ready(items, set), a \o b, next)
    BY <2>4, RunsConcat
  <2>6. a \o b \in Seq(0 .. 255)
    OBVIOUS
  <2> QED BY <1>1, <1>3, <2>3, <2>5, <2>6 DEF Compiles, next
<1>4. CASE c \notin WC!Special
  <2>1. Runs(Ready(items, set), <<c>>, next)
    BY <1>4, RunsByte, OutsideByte
  <2>2. <<>> \o <<c>> = <<c>>
    OBVIOUS
  <2> QED BY <1>1, <1>2, <1>4, <2>1, <2>2 DEF Compiles
<1> QED BY <1>3, <1>4

\* A set of plain bytes, in any order.
LEMMA PlainBytes ==
    ASSUME NEW T \in SUBSET WC!Plain
    PROVE  LET w == WC!SetToSeq(T) IN
           /\ w \in Seq(0 .. 255) /\ T = {w[n] : n \in 1 .. Len(w)}
           /\ \A n \in 1 .. Len(w) : w[n] \notin WC!Special
<1>1. \A c \in T : c \in 0 .. 255 /\ c \notin WC!Special
  BY DEF WC!Plain
<1>2. IsFiniteSet(0 .. 255)
  <2>1. 0 \in Int /\ 255 \in Int
    OBVIOUS
  <2> QED BY <2>1, FS_Interval
<1>3. IsFiniteSet(T)
  BY <1>1, <1>2, FS_Subset
<1>4. PICK w : w = WC!SetToSeq(T) /\ Enumerates(w, T)
  BY <1>3, SetToSeqWC
<1>5. w \in Seq(T) /\ T = {w[n] : n \in 1 .. Len(w)}
  BY <1>3, <1>4, EnumerationIs
<1>6. \A n \in 1 .. Len(w) : w[n] \in T
  BY <1>5
<1>7. w \in Seq(0 .. 255)
  <2>1. PICK m, B : m = Cardinality(T) /\ B = 0 .. 255
    OBVIOUS
  <2>2. w \in [1 .. m -> T]
    BY <1>4, <2>1 DEF Enumerates
  <2>3. w \in [1 .. m -> B]
    BY <1>1, <2>1, <2>2
  <2>4. m \in Nat
    BY <1>3, <2>1, FS_CardinalityType
  <2>5. w \in Seq(B)
    BY <2>3, <2>4
  <2> QED BY <2>1, <2>5
<1>8. \A n \in 1 .. Len(w) : w[n] \notin WC!Special
  BY <1>1, <1>6
<1> QED BY <1>4, <1>5, <1>7, <1>8, Zenon

LEMMA PlainChosen ==
    ASSUME NEW T \in SUBSET WC!Plain
    PROVE  /\ WC!Chosen(T) = WC!item("set", T)
           /\ WC!Chosen(T \cup {WC!Caret}) = WC!item("neg", T)
           /\ WC!Chosen(T \cup {WC!Dash}) = WC!item("range", T)
           /\ WC!Chosen(T \cup {WC!Caret, WC!Dash}) = WC!item("neg", T)
<1>1. WC!Caret \notin T /\ WC!Dash \notin T /\ WC!Caret # WC!Dash
  BY DEF WC!Plain, WC!Caret, WC!Dash
<1>2. T \ {WC!Caret, WC!Dash} = T
  BY <1>1
<1>3. (T \cup {WC!Caret}) \ {WC!Caret, WC!Dash} = T
  BY <1>1
<1>4. (T \cup {WC!Dash}) \ {WC!Caret, WC!Dash} = T
  BY <1>1
<1>5. (T \cup {WC!Caret, WC!Dash}) \ {WC!Caret, WC!Dash} = T
  BY <1>1
<1>6. WC!Caret \notin T \cup {WC!Dash} /\ WC!Dash \notin T \cup {WC!Caret}
  BY <1>1
<1>7. WC!Chosen(T) = WC!item("set", T)
  BY <1>1, <1>2 DEF WC!Chosen
<1>8. WC!Chosen(T \cup {WC!Caret}) = WC!item("neg", T)
  BY <1>3 DEF WC!Chosen
<1>9. WC!Chosen(T \cup {WC!Dash}) = WC!item("range", T)
  BY <1>4, <1>6 DEF WC!Chosen
<1>10. WC!Chosen(T \cup {WC!Caret, WC!Dash}) = WC!item("neg", T)
  BY <1>5 DEF WC!Chosen
<1> QED BY <1>7, <1>8, <1>9, <1>10

\* The four forms with brackets.
LEMMA CompilesSet ==
    ASSUME NEW items, NEW set, NEW p, NEW w \in Seq(0 .. 255), \A n \in 1 .. Len(w) : w[n] \notin WC!Special,
           WC!Written(p) = <<WC!Open>> \o w \o <<WC!Close>>,
           ItemOf(p) = WC!Chosen({w[n] : n \in 1 .. Len(w)})
    PROVE  Compiles(items, set, WC!Written(p), ItemOf(p))
<1>1. PICK T : T = {w[n] : n \in 1 .. Len(w)}
  OBVIOUS
<1>2. /\ <<WC!Open>> \o w \o <<WC!Close>> \in Seq(0 .. 255)
      /\ Runs(Ready(items, set), <<WC!Open>> \o w \o <<WC!Close>>, Ready(Append(items, WC!Chosen(T)), T))
  BY <1>1, Bracketed
<1>3. ItemOf(p) = WC!Chosen(T)
  BY <1>1
<1> QED BY <1>2, <1>3 DEF Compiles

LEMMA CompilesAmong ==
    ASSUME NEW items, NEW set, NEW T \in SUBSET WC!Plain
    PROVE  Compiles(items, set, WC!Written(WC!Among(T)), ItemOf(WC!Among(T)))
<1> DEFINE w == WC!SetToSeq(T)
<1>1. WC!Written(WC!Among(T)) = <<WC!Open>> \o w \o <<WC!Close>> /\ ItemOf(WC!Among(T)) = WC!item("set", T)
  BY DEF WC!Written, ItemOf, WC!Among
<1>2. w \in Seq(0 .. 255) /\ T = {w[n] : n \in 1 .. Len(w)} /\ \A n \in 1 .. Len(w) : w[n] \notin WC!Special
  BY PlainBytes
<1> HIDE DEF w
<1>3. WC!Chosen({w[n] : n \in 1 .. Len(w)}) = WC!item("set", T)
  BY <1>2, PlainChosen
<1> QED BY <1>1, <1>2, <1>3, CompilesSet

LEMMA CompilesNotAmong ==
    ASSUME NEW items, NEW set, NEW T \in SUBSET WC!Plain
    PROVE  Compiles(items, set, WC!Written(WC!NotAmong(T)), ItemOf(WC!NotAmong(T)))
<1> DEFINE v == WC!SetToSeq(T)
           w == <<WC!Caret>> \o v
<1>1. WC!Written(WC!NotAmong(T)) = <<WC!Open, WC!Caret>> \o v \o <<WC!Close>> /\ ItemOf(WC!NotAmong(T)) = WC!item("neg", T)
  BY DEF WC!Written, ItemOf, WC!NotAmong
<1>2. v \in Seq(0 .. 255) /\ T = {v[n] : n \in 1 .. Len(v)} /\ \A n \in 1 .. Len(v) : v[n] \notin WC!Special
  BY PlainBytes
<1> HIDE DEF v
<1>3. WC!Caret \in 0 .. 255 /\ WC!Caret \notin WC!Special
  BY DEF WC!Special, WC!Caret, WC!Star, WC!Question, WC!Backslash, WC!Open, WC!Close
<1>4. PICK c \in 0 .. 255 : c = WC!Caret
  BY <1>3
<1>5. PICK o \in 0 .. 255 : o = WC!Open
  BY SpecialBytes DEF WC!Special
<1>6. /\ <<c>> \o v \in Seq(0 .. 255) /\ Len(<<c>> \o v) = Len(v) + 1 /\ (<<c>> \o v)[1] = c
      /\ \A n \in 1 .. Len(v) : (<<c>> \o v)[n + 1] = v[n]
  BY <1>2
<1>7. <<o, c>> \o v = <<o>> \o (<<c>> \o v)
  BY <1>2
<1>8. w \in Seq(0 .. 255) /\ Len(w) = Len(v) + 1 /\ w[1] = c /\ \A n \in 1 .. Len(v) : w[n + 1] = v[n]
  BY <1>4, <1>6
<1>9. WC!Written(WC!NotAmong(T)) = <<WC!Open>> \o w \o <<WC!Close>>
  BY <1>1, <1>4, <1>5, <1>7
<1> HIDE DEF w
<1>10. \A n \in 1 .. Len(w) : n = 1 \/ (n - 1 \in 1 .. Len(v) /\ (n - 1) + 1 = n)
  BY <1>2, <1>8
<1>11. \A n \in 1 .. Len(w) : w[n] = c \/ (n - 1 \in 1 .. Len(v) /\ w[n] = v[n - 1])
  BY <1>8, <1>10
<1>12. \A n \in 1 .. Len(w) : w[n] \notin WC!Special
  BY <1>2, <1>3, <1>4, <1>11
<1>13. {w[n] : n \in 1 .. Len(w)} = T \cup {WC!Caret}
  <2>1. \A n \in 1 .. Len(w) : w[n] \in T \cup {c}
    BY <1>2, <1>11
  <2>2. ASSUME NEW x \in T PROVE \E n \in 1 .. Len(w) : w[n] = x
    <3>1. PICK n \in 1 .. Len(v) : v[n] = x
      BY <1>2
    <3>2. n + 1 \in 1 .. Len(w) /\ w[n + 1] = x
      BY <1>2, <1>8, <3>1
    <3> QED BY <3>2
  <2>3. 1 \in 1 .. Len(w) /\ w[1] = c
    BY <1>2, <1>8
  <2> QED BY <1>4, <2>1, <2>2, <2>3
<1>14. WC!Chosen({w[n] : n \in 1 .. Len(w)}) = WC!item("neg", T)
  BY <1>13, PlainChosen
<1> QED BY <1>1, <1>8, <1>9, <1>12, <1>14, CompilesSet

LEMMA CompilesBetween ==
    ASSUME NEW items, NEW set, NEW a \in WC!Plain, NEW b \in WC!Plain
    PROVE  Compiles(items, set, WC!Written(WC!Between(a, b)), ItemOf(WC!Between(a, b)))
<1>1. /\ WC!Written(WC!Between(a, b)) = <<WC!Open, a, WC!Dash, b, WC!Close>>
      /\ ItemOf(WC!Between(a, b)) = WC!item("range", {a, b})
  BY DEF WC!Written, ItemOf, WC!Between
<1>2. /\ a \in 0 .. 255 /\ b \in 0 .. 255 /\ WC!Dash \in 0 .. 255
      /\ a \notin WC!Special /\ b \notin WC!Special /\ WC!Dash \notin WC!Special
  BY DEF WC!Plain, WC!Special, WC!Dash, WC!Star, WC!Question, WC!Backslash, WC!Open, WC!Close
<1>3. PICK d \in 0 .. 255 : d = WC!Dash
  BY <1>2
<1> DEFINE w == <<a, d, b>>
<1>4. w \in Seq(0 .. 255) /\ Len(w) = 3 /\ w[1] = a /\ w[2] = d /\ w[3] = b
  BY <1>2
<1>5. <<WC!Open, a, d, b, WC!Close>> = <<WC!Open>> \o <<a, d, b>> \o <<WC!Close>>
  OBVIOUS
<1>6. WC!Written(WC!Between(a, b)) = <<WC!Open>> \o w \o <<WC!Close>>
  BY <1>1, <1>3, <1>5
<1> HIDE DEF w
<1>7. \A n \in 1 .. Len(w) : n = 1 \/ n = 2 \/ n = 3
  BY <1>4
<1>8. \A n \in 1 .. Len(w) : w[n] \notin WC!Special
  BY <1>2, <1>3, <1>4, <1>7
<1>9. {w[n] : n \in 1 .. Len(w)} = {a, b} \cup {WC!Dash}
  <2>1. 1 \in 1 .. Len(w) /\ 2 \in 1 .. Len(w) /\ 3 \in 1 .. Len(w)
    BY <1>4
  <2> QED BY <1>3, <1>4, <1>7, <2>1
<1>10. WC!Chosen({w[n] : n \in 1 .. Len(w)}) = WC!item("range", {a, b})
  <2>1. {a, b} \in SUBSET WC!Plain
    OBVIOUS
  <2> QED BY <1>9, <2>1, PlainChosen
<1> QED BY <1>1, <1>4, <1>6, <1>8, <1>10, CompilesSet

LEMMA CompilesNotBetween ==
    ASSUME NEW items, NEW set, NEW a \in WC!Plain, NEW b \in WC!Plain
    PROVE  Compiles(items, set, WC!Written(WC!NotBetween(a, b)), ItemOf(WC!NotBetween(a, b)))
<1>1. /\ WC!Written(WC!NotBetween(a, b)) = <<WC!Open, WC!Caret, a, WC!Dash, b, WC!Close>>
      /\ ItemOf(WC!NotBetween(a, b)) = WC!item("neg", {a, b})
  BY DEF WC!Written, ItemOf, WC!NotBetween
<1>2. /\ a \in 0 .. 255 /\ b \in 0 .. 255 /\ WC!Dash \in 0 .. 255 /\ WC!Caret \in 0 .. 255
      /\ a \notin WC!Special /\ b \notin WC!Special /\ WC!Dash \notin WC!Special /\ WC!Caret \notin WC!Special
  BY DEF WC!Plain, WC!Special, WC!Dash, WC!Caret, WC!Star, WC!Question, WC!Backslash, WC!Open, WC!Close
<1>3. PICK d \in 0 .. 255, e \in 0 .. 255 : d = WC!Dash /\ e = WC!Caret
  BY <1>2
<1> DEFINE w == <<e, a, d, b>>
<1>4. w \in Seq(0 .. 255) /\ Len(w) = 4 /\ w[1] = e /\ w[2] = a /\ w[3] = d /\ w[4] = b
  BY <1>2
<1>5. <<WC!Open, e, a, d, b, WC!Close>> = <<WC!Open>> \o <<e, a, d, b>> \o <<WC!Close>>
  OBVIOUS
<1>6. WC!Written(WC!NotBetween(a, b)) = <<WC!Open>> \o w \o <<WC!Close>>
  BY <1>1, <1>3, <1>5
<1> HIDE DEF w
<1>7. \A n \in 1 .. Len(w) : n = 1 \/ n = 2 \/ n = 3 \/ n = 4
  BY <1>4
<1>8. \A n \in 1 .. Len(w) : w[n] \notin WC!Special
  BY <1>2, <1>3, <1>4, <1>7
<1>9. {w[n] : n \in 1 .. Len(w)} = {a, b} \cup {WC!Caret, WC!Dash}
  <2>1. 1 \in 1 .. Len(w) /\ 2 \in 1 .. Len(w) /\ 3 \in 1 .. Len(w) /\ 4 \in 1 .. Len(w)
    BY <1>4
  <2> QED BY <1>3, <1>4, <1>7, <2>1
<1>10. WC!Chosen({w[n] : n \in 1 .. Len(w)}) = WC!item("neg", {a, b})
  <2>1. {a, b} \in SUBSET WC!Plain
    OBVIOUS
  <2> QED BY <1>9, <2>1, PlainChosen
<1> QED BY <1>1, <1>4, <1>6, <1>8, <1>10, CompilesSet

\* Every part of the notation compiles to its item.
LEMMA CompilesPart ==
    ASSUME NEW items, NEW set, NEW p, WC!IsPart(p)
    PROVE  Compiles(items, set, WC!Written(p), ItemOf(p))
<1>1. \/ p = WC!One \/ p = WC!Many
      \/ p = WC!Char(p.char) /\ p.char \in 0 .. 255
      \/ p = WC!Among(p.chars) /\ p.chars \in SUBSET WC!Plain
      \/ p = WC!NotAmong(p.chars) /\ p.chars \in SUBSET WC!Plain
      \/ p = WC!Between(p.from, p.to) /\ p.from \in WC!Plain /\ p.to \in WC!Plain
      \/ p = WC!NotBetween(p.from, p.to) /\ p.from \in WC!Plain /\ p.to \in WC!Plain
  BY DEF WC!IsPart
<1>2. CASE p = WC!One
  BY <1>2, CompilesOne
<1>3. CASE p = WC!Many
  BY <1>3, CompilesMany
<1>4. CASE p = WC!Char(p.char) /\ p.char \in 0 .. 255
  <2>1. PICK c \in 0 .. 255 : p = WC!Char(c)
    BY <1>4
  <2> QED BY <2>1, CompilesChar
<1>5. CASE p = WC!Among(p.chars) /\ p.chars \in SUBSET WC!Plain
  <2>1. PICK T \in SUBSET WC!Plain : p = WC!Among(T)
    BY <1>5
  <2> QED BY <2>1, CompilesAmong
<1>6. CASE p = WC!NotAmong(p.chars) /\ p.chars \in SUBSET WC!Plain
  <2>1. PICK T \in SUBSET WC!Plain : p = WC!NotAmong(T)
    BY <1>6
  <2> QED BY <2>1, CompilesNotAmong
<1>7. CASE p = WC!Between(p.from, p.to) /\ p.from \in WC!Plain /\ p.to \in WC!Plain
  <2>1. PICK a \in WC!Plain, b \in WC!Plain : p = WC!Between(a, b)
    BY <1>7
  <2> QED BY <2>1, CompilesBetween
<1>8. CASE p = WC!NotBetween(p.from, p.to) /\ p.from \in WC!Plain /\ p.to \in WC!Plain
  <2>1. PICK a \in WC!Plain, b \in WC!Plain : p = WC!NotBetween(a, b)
    BY <1>8
  <2> QED BY <2>1, CompilesNotBetween
<1> QED BY <1>1, <1>2, <1>3, <1>4, <1>5, <1>6, <1>7, <1>8

\* The part that the code takes p for.
TakenPart(p) == IF p.part = "notBetween" THEN WC!NotAmong({p.from, p.to}) ELSE p

LEMMA ItemFields ==
    ASSUME NEW t, NEW cs
    PROVE  WC!item(t, cs).typeCode = t /\ WC!item(t, cs).chars = cs
  BY DEF WC!item

LEMMA AlikeOne == Alike(ItemOf(WC!One), TakenPart(WC!One))
<1>1. WC!One.part = "any" /\ TakenPart(WC!One) = WC!One /\ ItemOf(WC!One).typeCode = "any"
  BY ItemFields DEF ItemOf, WC!One, TakenPart
<1>2. \A c : WC!Accepts(WC!One, c)
  BY <1>1 DEF WC!Accepts
<1> QED BY <1>1, <1>2 DEF Alike

LEMMA AlikeMany == Alike(ItemOf(WC!Many), TakenPart(WC!Many))
<1>1. WC!Many.part = "all" /\ TakenPart(WC!Many) = WC!Many /\ ItemOf(WC!Many).typeCode = "all"
  BY ItemFields DEF ItemOf, WC!Many, TakenPart
<1> QED BY <1>1 DEF Alike

LEMMA AlikeChar ==
    ASSUME NEW a
    PROVE  Alike(ItemOf(WC!Char(a)), TakenPart(WC!Char(a)))
<1> DEFINE p == WC!Char(a)
           i == ItemOf(p)
<1>1. p.part = "char" /\ p.char = a
  BY DEF WC!Char
<1>2. TakenPart(p) = p
  BY <1>1 DEF TakenPart
<1>3. i.typeCode = "normal" /\ i.chars = {a}
  <2>1. i = WC!item("normal", {a})
    BY <1>1 DEF ItemOf
  <2> QED BY <2>1, ItemFields
<1> HIDE DEF p, i
<1>4. \A c : WC!contains(i, c) <=> c = a
  BY <1>3 DEF WC!contains
<1>5. \A c : WC!Accepts(p, c) <=> c = a
  BY <1>1 DEF WC!Accepts
<1>6. Alike(i, p)
  BY <1>1, <1>3, <1>4, <1>5 DEF Alike
<1> QED BY <1>2, <1>6 DEF p, i

LEMMA AlikeAmong ==
    ASSUME NEW T
    PROVE  Alike(ItemOf(WC!Among(T)), TakenPart(WC!Among(T)))
<1> DEFINE p == WC!Among(T)
           i == ItemOf(p)
<1>1. p.part = "among" /\ p.chars = T
  BY DEF WC!Among
<1>2. TakenPart(p) = p
  BY <1>1 DEF TakenPart
<1>3. i.typeCode = "set" /\ i.chars = T
  <2>1. i = WC!item("set", T)
    BY <1>1 DEF ItemOf
  <2> QED BY <2>1, ItemFields
<1> HIDE DEF p, i
<1>4. \A c : WC!contains(i, c) <=> c \in T
  BY <1>3 DEF WC!contains
<1>5. \A c : WC!Accepts(p, c) <=> c \in T
  BY <1>1 DEF WC!Accepts
<1>6. Alike(i, p)
  BY <1>1, <1>3, <1>4, <1>5 DEF Alike
<1> QED BY <1>2, <1>6 DEF p, i

LEMMA AlikeNegated ==
    ASSUME NEW T
    PROVE  Alike(WC!item("neg", T), WC!NotAmong(T))
<1> DEFINE p == WC!NotAmong(T)
           i == WC!item("neg", T)
<1>1. p.part = "notAmong" /\ p.chars = T
  BY DEF WC!NotAmong
<1>3. i.typeCode = "neg" /\ i.chars = T
  BY ItemFields
<1> HIDE DEF p, i
<1>4. \A c : WC!contains(i, c) <=> c \notin T
  BY <1>3 DEF WC!contains
<1>5. \A c : WC!Accepts(p, c) <=> c \notin T
  BY <1>1 DEF WC!Accepts
<1>6. Alike(i, p)
  BY <1>1, <1>3, <1>4, <1>5 DEF Alike
<1> QED BY <1>6 DEF p, i

LEMMA AlikeNotAmong ==
    ASSUME NEW T
    PROVE  Alike(ItemOf(WC!NotAmong(T)), TakenPart(WC!NotAmong(T)))
<1>1. WC!NotAmong(T).part = "notAmong" /\ WC!NotAmong(T).chars = T
  BY DEF WC!NotAmong
<1>2. TakenPart(WC!NotAmong(T)) = WC!NotAmong(T) /\ ItemOf(WC!NotAmong(T)) = WC!item("neg", T)
  BY <1>1 DEF TakenPart, ItemOf
<1> QED BY <1>2, AlikeNegated

LEMMA AlikeNotBetween ==
    ASSUME NEW a, NEW b
    PROVE  Alike(ItemOf(WC!NotBetween(a, b)), TakenPart(WC!NotBetween(a, b)))
<1>1. WC!NotBetween(a, b).part = "notBetween" /\ WC!NotBetween(a, b).from = a /\ WC!NotBetween(a, b).to = b
  BY DEF WC!NotBetween
<1>2. TakenPart(WC!NotBetween(a, b)) = WC!NotAmong({a, b}) /\ ItemOf(WC!NotBetween(a, b)) = WC!item("neg", {a, b})
  BY <1>1 DEF TakenPart, ItemOf
<1> QED BY <1>2, AlikeNegated

LEMMA AlikeBetween ==
    ASSUME NEW a \in Int, NEW b \in Int, a <= b
    PROVE  Alike(ItemOf(WC!Between(a, b)), TakenPart(WC!Between(a, b)))
<1> DEFINE p == WC!Between(a, b)
           i == ItemOf(p)
<1>1. p.part = "between" /\ p.from = a /\ p.to = b
  BY DEF WC!Between
<1>2. TakenPart(p) = p
  BY <1>1 DEF TakenPart
<1>3. i.typeCode = "range" /\ i.chars = {a, b}
  <2>1. i = WC!item("range", {a, b})
    BY <1>1 DEF ItemOf
  <2> QED BY <2>1, ItemFields
<1> HIDE DEF p, i
<1>4. \A c \in 0 .. 255 : WC!contains(i, c) <=> a <= c /\ c <= b
  <2>1. \A c : WC!contains(i, c) <=> (\E d \in {a, b} : d <= c) /\ (\E d \in {a, b} : c <= d)
    BY <1>3 DEF WC!contains
  <2>2. \A c \in 0 .. 255 : (\E d \in {a, b} : d <= c) <=> a <= c
    OBVIOUS
  <2>3. \A c \in 0 .. 255 : (\E d \in {a, b} : c <= d) <=> c <= b
    OBVIOUS
  <2> QED BY <2>1, <2>2, <2>3
<1>5. \A c \in 0 .. 255 : WC!Accepts(p, c) <=> a <= c /\ c <= b
  BY <1>1 DEF WC!Accepts
<1>6. Alike(i, p)
  BY <1>1, <1>3, <1>4, <1>5 DEF Alike
<1> QED BY <1>2, <1>6 DEF p, i

LEMMA AlikePart ==
    ASSUME NEW p, WC!IsPart(p)
    PROVE  Alike(ItemOf(p), TakenPart(p))
<1>1. \/ p = WC!One \/ p = WC!Many
      \/ \E c : p = WC!Char(c)
      \/ \E T : p = WC!Among(T)
      \/ \E T : p = WC!NotAmong(T)
      \/ \E a, b \in Int : p = WC!Between(a, b) /\ a <= b
      \/ \E a, b : p = WC!NotBetween(a, b)
  <2>1. \A x \in WC!Plain : x \in Int
    BY DEF WC!Plain
  <2> QED BY <2>1 DEF WC!IsPart
<1>2. CASE p = WC!One
  BY <1>2, AlikeOne
<1>3. CASE p = WC!Many
  BY <1>3, AlikeMany
<1>4. CASE \E c : p = WC!Char(c)
  BY <1>4, AlikeChar
<1>5. CASE \E T : p = WC!Among(T)
  BY <1>5, AlikeAmong
<1>6. CASE \E T : p = WC!NotAmong(T)
  BY <1>6, AlikeNotAmong
<1>7. CASE \E a, b \in Int : p = WC!Between(a, b) /\ a <= b
  BY <1>7, AlikeBetween
<1>8. CASE \E a, b : p = WC!NotBetween(a, b)
  BY <1>8, AlikeNotBetween
<1> QED BY <1>1, <1>2, <1>3, <1>4, <1>5, <1>6, <1>7, <1>8
-----------------------------------------------------------------------------
(* Globs                                                                   *)

\* The bytes of the first i parts, for every i.
Flattens(seqs, n, f) == f = [i \in 1 .. n |-> IF i = 1 THEN seqs[i] ELSE f[i - 1] \o seqs[i]]

LEMMA FlattensFacts ==
    ASSUME NEW seqs, NEW n \in Nat, NEW f, Flattens(seqs, n, f)
    PROVE  /\ f = [i \in 1 .. n |-> f[i]]
           /\ \A i \in 1 .. n : f[i] = IF i = 1 THEN seqs[i] ELSE f[i - 1] \o seqs[i]
  BY DEF Flattens

LEMMA FlattensMore ==
    ASSUME NEW seqs, NEW n \in Nat, NEW f, Flattens(seqs, n, f)
    PROVE  \E h : Flattens(seqs, n + 1, h)
<1> DEFINE last == IF n + 1 = 1 THEN seqs[n + 1] ELSE f[n] \o seqs[n + 1]
<1> HIDE DEF last
<1> DEFINE h == [i \in 1 .. n + 1 |-> IF i = n + 1 THEN last ELSE f[i]]
<1>1. /\ h[n + 1] = last
      /\ \A i \in 1 .. n : h[i] = f[i]
      /\ h = [i \in 1 .. n + 1 |-> h[i]]
  OBVIOUS
<1> HIDE DEF h
<1>2. ASSUME NEW i \in 1 .. n + 1 PROVE h[i] = IF i = 1 THEN seqs[i] ELSE h[i - 1] \o seqs[i]
  <2>1. CASE i = n + 1
    <3>1. i - 1 = n /\ (i # 1 => n \in 1 .. n)
      BY <2>1
    <3>2. i # 1 => h[i - 1] = f[n]
      BY <1>1, <3>1
    <3> QED BY <1>1, <2>1, <3>2 DEF last
  <2>2. CASE i # n + 1
    <3>1. i \in 1 .. n /\ (i # 1 => i - 1 \in 1 .. n)
      BY <2>2
    <3>2. h[i] = f[i] /\ (i # 1 => h[i - 1] = f[i - 1])
      BY <1>1, <3>1
    <3> QED BY <3>1, <3>2, FlattensFacts
  <2> QED BY <2>1, <2>2
<1>3. Flattens(seqs, n + 1, h)
  BY <1>1, <1>2 DEF Flattens
<1> QED BY <1>3

LEMMA FlattensExists ==
    ASSUME NEW seqs, NEW n \in Nat
    PROVE  \E f : Flattens(seqs, n, f)
<1> DEFINE Bad == {m \in Nat : ~ \E f : Flattens(seqs, m, f)}
<1> SUFFICES ASSUME Bad # {} PROVE FALSE
  OBVIOUS
<1>1. PICK m \in Bad : \A k \in Bad : m <= k
  <2>1. Bad \in SUBSET Nat
    OBVIOUS
  <2> HIDE DEF Bad
  <2> QED BY <2>1, LeastMember
<1>2. CASE m = 0
  <2> DEFINE f == [i \in 1 .. 0 |-> i]
  <2>1. \A i : i \notin 1 .. 0
    OBVIOUS
  <2>2. Flattens(seqs, 0, f)
    BY <2>1 DEF Flattens
  <2> QED BY <1>1, <1>2, <2>2
<1>3. CASE m # 0
  <2>1. m - 1 \in Nat /\ ~ (m <= m - 1) /\ (m - 1) + 1 = m
    BY <1>3
  <2>2. PICK f : Flattens(seqs, m - 1, f)
    BY <1>1, <2>1
  <2>3. \E h : Flattens(seqs, (m - 1) + 1, h)
    BY <2>1, <2>2, FlattensMore
  <2> QED BY <1>1, <2>1, <2>3
<1> QED BY <1>2, <1>3

LEMMA FlattenSeqIs ==
    ASSUME NEW seqs, Len(seqs) \in Nat, Len(seqs) # 0
    PROVE  \E f : Flattens(seqs, Len(seqs), f) /\ WC!FlattenSeq(seqs) = f[Len(seqs)]
<1>1. WC!FlattenSeq(seqs) = (CHOOSE f : Flattens(seqs, Len(seqs), f))[Len(seqs)]
  BY DEF WC!FlattenSeq, Flattens
<1>2. \E f : Flattens(seqs, Len(seqs), f)
  BY FlattensExists
<1> QED BY <1>1, <1>2

LEMMA Appended ==
    ASSUME NEW g, NEW n \in Nat, n # 0
    PROVE  Append([i \in 1 .. n - 1 |-> ItemOf(g[i])], ItemOf(g[n])) = [i \in 1 .. n |-> ItemOf(g[i])]
<1> DEFINE a == [i \in 1 .. n - 1 |-> ItemOf(g[i])]
           T == {ItemOf(g[i]) : i \in 1 .. n}
<1>1. a \in Seq(T) /\ Len(a) = n - 1 /\ \A i \in 1 .. n - 1 : a[i] = ItemOf(g[i])
  <2>1. \A i \in 1 .. n - 1 : i \in 1 .. n
    OBVIOUS
  <2>2. \A i \in 1 .. n - 1 : ItemOf(g[i]) \in T
    BY <2>1
  <2>3. n - 1 \in Nat
    OBVIOUS
  <2> HIDE DEF T
  <2> QED BY <2>2, <2>3
<1>2. ItemOf(g[n]) \in T
  OBVIOUS
<1> HIDE DEF a, T
<1>3. PICK x \in T : x = ItemOf(g[n])
  BY <1>2
<1>4. Append(a, x) \in Seq(T) /\ Len(Append(a, x)) = n /\ Append(a, x)[n] = x /\ \A i \in 1 .. n - 1 : Append(a, x)[i] = a[i]
  BY <1>1, AppendProperties
<1>5. \A i \in 1 .. n : i = n \/ i \in 1 .. n - 1
  OBVIOUS
<1>6. \A i \in 1 .. n : Append(a, x)[i] = ItemOf(g[i])
  BY <1>1, <1>3, <1>4, <1>5
<1>7. Append(a, x) = [i \in 1 .. n |-> Append(a, x)[i]]
  <2>1. PICK t \in Seq(T) : t = Append(a, x)
    BY <1>4
  <2>2. Len(t) = n
    BY <1>4, <2>1
  <2>3. t = [i \in 1 .. n |-> t[i]]
    BY <2>2
  <2> QED BY <2>1, <2>3
<1>8. Append(a, x) = [i \in 1 .. n |-> ItemOf(g[i])]
  BY <1>6, <1>7
<1> QED BY <1>3, <1>8 DEF a

\* CompilePattern makes one item of every part.
LEMMA PatternIs ==
    ASSUME NEW g, WC!IsGlob(g)
    PROVE  WC!CompilePattern(WC!Notation(g)) = [i \in 1 .. Len(g) |-> ItemOf(g[i])]
<1> DEFINE N == Len(g)
           seqs == [i \in DOMAIN g |-> WC!Written(g[i])]
           Items(n) == [i \in 1 .. n |-> ItemOf(g[i])]
<1>1. N \in Nat /\ DOMAIN g = 1 .. N /\ \A i \in 1 .. N : WC!IsPart(g[i])
  BY DEF WC!IsGlob
<1>2. /\ WC!Notation(g) = WC!FlattenSeq(seqs)
      /\ Len(seqs) = N /\ \A i \in 1 .. N : seqs[i] = WC!Written(g[i])
      /\ seqs = [i \in 1 .. N |-> seqs[i]]
  BY <1>1 DEF WC!Notation
<1>3. WC!compiler = Ready(<<>>, {})
  BY DEF WC!compiler, Ready
<1>4. \A items, set : Ready(items, set).items = items
  BY DEF Ready, WC!Loop
<1> HIDE DEF N, seqs
<1>5. CASE N = 0
  <2>1. seqs = <<>>
    BY <1>2, <1>5
  <2>2. WC!FlattenSeq(seqs) = <<>>
    BY <1>2, <1>5, <2>1 DEF WC!FlattenSeq
  <2>3. WC!compile(WC!compiler, <<>>) = WC!compiler
    <3>1. Len(<<>>) \in Nat
      OBVIOUS
    <3> QED BY <3>1, RunsNone, RunsCompiles
  <2>4. WC!CompilePattern(WC!Notation(g)) = <<>>
    BY <1>2, <1>3, <1>4, <2>2, <2>3 DEF WC!CompilePattern
  <2>5. Items(N) = <<>>
    BY <1>5
  <2> QED BY <2>4, <2>5 DEF N
<1>6. CASE N # 0
  <2>1. PICK f : Flattens(seqs, N, f) /\ WC!FlattenSeq(seqs) = f[N]
    BY <1>1, <1>2, <1>6, FlattenSeqIs
  <2>2. \A n \in 1 .. N : f[n] = IF n = 1 THEN seqs[n] ELSE f[n - 1] \o seqs[n]
    BY <1>1, <2>1, FlattensFacts
  <2> DEFINE Good(n) == f[n] \in Seq(0 .. 255) /\ \E s : Runs(WC!compiler, f[n], Ready(Items(n), s))
             Bad == {n \in 1 .. N : ~Good(n)}
  <2>3. ASSUME NEW n \in 1 .. N, n # 1 => Good(n - 1) PROVE Good(n)
    <3>1. WC!IsPart(g[n]) /\ seqs[n] = WC!Written(g[n]) /\ n \in Nat /\ n # 0
      BY <1>1, <1>2
    <3> HIDE DEF Items
    <3>2. \A set : Compiles(Items(n - 1), set, seqs[n], ItemOf(g[n]))
      BY <3>1, CompilesPart
    <3>3. Append(Items(n - 1), ItemOf(g[n])) = Items(n)
      BY <3>1, Appended DEF Items
    <3>4. seqs[n] \in Seq(0 .. 255) /\ \A set : \E s : Runs(Ready(Items(n - 1), set), seqs[n], Ready(Items(n), s))
      BY <3>2, <3>3 DEF Compiles
    <3>5. CASE n = 1
      <4>1. Items(n - 1) = <<>>
        BY <3>5 DEF Items
      <4> QED BY <1>3, <2>2, <3>4, <3>5, <4>1
    <3>6. CASE n # 1
      <4>1. PICK set : Runs(WC!compiler, f[n - 1], Ready(Items(n - 1), set))
        BY <2>3, <3>6
      <4>2. PICK s : Runs(Ready(Items(n - 1), set), seqs[n], Ready(Items(n), s))
        BY <3>4
      <4>3. PICK a \in Seq(0 .. 255), b \in Seq(0 .. 255) : a = f[n - 1] /\ b = seqs[n]
        BY <2>3, <3>4, <3>6
      <4>4. Runs(WC!compiler, a \o b, Ready(Items(n), s))
        BY <4>1, <4>2, <4>3, RunsConcat
      <4>5. f[n] = a \o b
        BY <2>2, <3>6, <4>3
      <4>6. a \o b \in Seq(0 .. 255)
        OBVIOUS
      <4> QED BY <4>4, <4>5, <4>6
    <3> QED BY <3>5, <3>6
  <2>4. ASSUME Bad # {} PROVE FALSE
    <3>1. PICK n \in Bad : \A k \in Bad : n <= k
      <4> HIDE DEF Good
      <4>1. \A n \in 1 .. N : n \in Nat
        BY <1>1
      <4>2. Bad \in SUBSET Nat /\ Bad # {}
        BY <2>4, <4>1
      <4> HIDE DEF Bad
      <4> QED BY <4>2, LeastMember
    <3> HIDE DEF Good
    <3>2. n \in 1 .. N /\ ~Good(n) /\ (n # 1 => n - 1 \in 1 .. N /\ ~ (n <= n - 1))
      BY <1>1, <3>1
    <3>3. n # 1 => Good(n - 1)
      BY <3>1, <3>2
    <3> QED BY <2>3, <3>2, <3>3
  <2>5. Good(N)
    <3>1. N \in 1 .. N
      BY <1>1, <1>6
    <3> HIDE DEF Good
    <3> QED BY <2>4, <3>1
  <2> HIDE DEF Items
  <2>6. PICK s : Runs(WC!compiler, f[N], Ready(Items(N), s))
    BY <2>5
  <2>7. Len(f[N]) \in Nat
    BY <2>5
  <2>8. WC!compile(WC!compiler, f[N]) = Ready(Items(N), s)
    BY <2>6, <2>7, RunsCompiles
  <2>9. WC!CompilePattern(WC!Notation(g)) = Items(N)
    BY <1>2, <1>4, <2>1, <2>8 DEF WC!CompilePattern
  <2> QED BY <2>9 DEF Items, N
<1> QED BY <1>5, <1>6

LEMMA MatchesIs ==
    ASSUME NEW g, DOMAIN g = 1 .. Len(g), NEW name
    PROVE  WC!Matches(g, name) <=> Cut(g, name, Len(name), Len(g))
<1>1. \A cut \in [0 .. Len(g) -> 0 .. Len(name)] :
          (\A i \in DOMAIN g : IF g[i].part = "all" THEN cut[i - 1] <= cut[i]
                               ELSE cut[i] = cut[i - 1] + 1 /\ WC!Accepts(g[i], name[cut[i]]))
          <=> \A i \in 1 .. Len(g) : Piece(g[i], name, cut[i - 1], cut[i])
  BY DEF Piece
<1> QED BY <1>1 DEF WC!Matches, Cut, Cuts

\* The glob that the code takes g for: it reads [^a-b] as [^ab].
TakenFor(g) == [i \in DOMAIN g |-> TakenPart(g[i])]

\* CompilePattern and IsMatch tell the names that this glob matches from all
\* others.
LEMMA GlobMatch ==
    ASSUME NEW g, WC!IsGlob(g), NEW name \in Seq(0 .. 255)
    PROVE  WC!IsMatch(WC!CompilePattern(WC!Notation(g)), name) <=> WC!Matches(TakenFor(g), name)
<1> DEFINE h == TakenFor(g)
           items == WC!CompilePattern(WC!Notation(g))
<1>1. Len(g) \in Nat /\ DOMAIN g = 1 .. Len(g) /\ \A i \in 1 .. Len(g) : WC!IsPart(g[i])
  BY DEF WC!IsGlob
<1>2. Len(h) = Len(g) /\ DOMAIN h = 1 .. Len(h) /\ \A i \in 1 .. Len(h) : h[i] = TakenPart(g[i])
  BY <1>1 DEF TakenFor
<1>3. items = [i \in 1 .. Len(g) |-> ItemOf(g[i])]
  BY PatternIs
<1> HIDE DEF h, items
<1>4. Len(items) = Len(h) /\ \A i \in 1 .. Len(h) : items[i] = ItemOf(g[i])
  BY <1>1, <1>2, <1>3
<1>5. \A i \in 1 .. Len(h) : Alike(items[i], h[i])
  BY <1>1, <1>2, <1>4, AlikePart
<1>6. WC!IsMatch(items, name) <=> Cut(h, name, Len(name), Len(h))
  BY <1>1, <1>2, <1>4, <1>5, MatchIs
<1>7. WC!Matches(h, name) <=> Cut(h, name, Len(name), Len(h))
  BY <1>2, MatchesIs
<1> QED BY <1>6, <1>7 DEF h, items

\* [^ab] accepts what [^a-b] does, and more.
LEMMA TakenAccepts ==
    ASSUME NEW p, WC!IsPart(p), NEW c, WC!Accepts(p, c), p.part # "all"
    PROVE  WC!Accepts(TakenPart(p), c)
<1>1. CASE p.part # "notBetween"
  BY <1>1 DEF TakenPart
<1>2. CASE p.part = "notBetween"
  <2>1. p.from \in Int /\ p.to \in Int /\ p.from <= p.to
    <3>1. {p.from, p.to} \subseteq WC!Plain /\ p.from <= p.to
      BY <1>2 DEF WC!IsPart, WC!One, WC!Many, WC!Char
    <3> QED BY <3>1 DEF WC!Plain
  <2>2. c \notin p.from .. p.to
    BY <1>2 DEF WC!Accepts
  <2>3. c \notin {p.from, p.to}
    BY <2>1, <2>2
  <2>4. PICK T : T = {p.from, p.to}
    OBVIOUS
  <2>5. WC!Accepts(WC!NotAmong(T), c)
    BY <2>3, <2>4 DEF WC!Accepts, WC!NotAmong
  <2> QED BY <1>2, <2>4, <2>5 DEF TakenPart
<1> QED BY <1>1, <1>2

\* So it matches what g matches, and nothing else if g has no such part.
LEMMA GlobTaken ==
    ASSUME NEW g, WC!IsGlob(g), NEW name
    PROVE  /\ WC!Matches(g, name) => WC!Matches(TakenFor(g), name)
           /\ ~WC!NegatedRange(g) /\ WC!Matches(TakenFor(g), name) => WC!Matches(g, name)
<1>1. Len(g) \in Nat /\ DOMAIN g = 1 .. Len(g) /\ \A i \in 1 .. Len(g) : WC!IsPart(g[i])
  BY DEF WC!IsGlob
<1>2. PICK h : h = TakenFor(g)
  OBVIOUS
<1>3. Len(h) = Len(g) /\ DOMAIN h = 1 .. Len(h) /\ \A i \in 1 .. Len(h) : h[i] = TakenPart(g[i])
  BY <1>1, <1>2 DEF TakenFor
<1>4. \A i \in 1 .. Len(g) : h[i].part = "all" <=> g[i].part = "all"
  BY <1>3 DEF TakenPart, WC!NotAmong
<1>5. ASSUME NEW i \in 1 .. Len(g), NEW from, NEW to, Piece(g[i], name, from, to) PROVE Piece(h[i], name, from, to)
  <2>1. CASE g[i].part = "all"
    BY <1>4, <1>5, <2>1 DEF Piece
  <2>2. CASE g[i].part # "all"
    <3>1. to = from + 1 /\ WC!Accepts(g[i], name[to])
      BY <1>5, <2>2 DEF Piece
    <3>2. WC!Accepts(TakenPart(g[i]), name[to])
      BY <1>1, <2>2, <3>1, TakenAccepts
    <3> QED BY <1>3, <1>4, <2>2, <3>1, <3>2 DEF Piece
  <2> QED BY <2>1, <2>2
<1>6. Cut(g, name, Len(name), Len(g)) => Cut(h, name, Len(name), Len(h))
  BY <1>3, <1>5 DEF Cut, Cuts
<1>7. WC!Matches(g, name) => WC!Matches(h, name)
  BY <1>1, <1>3, <1>6, MatchesIs
<1>8. ASSUME ~WC!NegatedRange(g) PROVE h = g
  <2>1. \A i \in 1 .. Len(g) : h[i] = g[i]
    BY <1>1, <1>3, <1>8 DEF WC!NegatedRange, TakenPart
  <2>2. g = [i \in 1 .. Len(g) |-> g[i]] /\ h = [i \in 1 .. Len(g) |-> h[i]]
    BY <1>1, <1>2, <1>3 DEF WC!IsGlob, TakenFor
  <2> QED BY <2>1, <2>2
<1> QED BY <1>2, <1>7, <1>8
-----------------------------------------------------------------------------
(* The inductive invariant of the scans                                    *)

Bounds ==
    /\ table \in Tables /\ range \in Tables
    /\ index \in Nat /\ cursor \in Nat /\ count \in Nat
    /\ mode \in {"none", "KEYS", "Keys", "DictScan"}
    /\ mode \in {"KEYS", "DictScan"} => glob \in Globs

\* A table that Clear has not made yet is empty.
Contents ==
    /\ present \in [Tables -> SUBSET Keys]
    /\ \A t \in Tables : IsFiniteSet(present[t]) /\ (t > table => present[t] = {})

\* The history of a scan frames what it looks at, in the table it ranges over
\* too; that one is the current table unless no key has stayed.
Framed ==
    /\ always \subseteq atStart /\ atStart \subseteq Keys /\ IsFiniteSet(atStart)
    /\ since \subseteq ever /\ IsFiniteSet(since) /\ ever \subseteq Keys
    /\ Scanning => always \subseteq present[table] /\ present[table] \subseteq since
    /\ ~Scanning => always = {} /\ since = {} /\ ever = {}
    /\ mode \in {"KEYS", "Keys"} => present[range] \subseteq since /\ (always # {} => range = table)

\* The scan m is asked for the key k.
Asks(m, g, k) == m \in {"KEYS", "DictScan"} => WC!Matches(TakenFor(g), k)

\* The call has come to keys behind it, and comes to those of the last shard;
\* of the keys that stayed and are asked for no other is behind the scan.
Passed ==
    /\ seen \subseteq since /\ rest \subseteq since /\ seen \cap rest = {}
    /\ \A k \in seen \cup rest : spread[k] < index
    /\ found \subseteq ever /\ \A k \in found : Asks(mode, glob, k)
    /\ \A k \in always : Asks(mode, glob, k) /\ spread[k] < index => k \in found \cup seen \cup rest

\* The result of KEYS and DictScan: the keys passed that are asked for.
Took(p, S, m, g) ==
    /\ p \in Seq(Keys)
    /\ \A i, j \in 1 .. Len(p) : p[i] = p[j] => i = j
    /\ \A k : k \in Ext!ToSet(p) <=> k \in S /\ Asks(m, g, k)

\* The result of Keys, made with n slots, when i of its slots are written: the
\* slots behind are blank until all n are written; then every second key passed
\* is written over the one before.
Kept(p, i, n, S) ==
    /\ i \in Nat /\ p \in Seq(Keys \cup {Blank})
    /\ \A a, b \in 1 .. Len(p) : p[a] = p[b] /\ p[a] # Blank => a = b
    /\ \A a \in 1 .. Len(p) : p[a] # Blank => p[a] \in S
    /\ \A a \in 1 .. Len(p) : p[a] = Blank <=> a > i /\ i < n
    /\ i < n => Len(p) = n /\ Cardinality(S) = i /\ S \ Ext!ToSet(p) = {}
    /\ i >= n => /\ i <= Len(p) /\ Len(p) <= i + 1
                 /\ Cardinality(S) = i + Len(p) - n
                 /\ Cardinality(S \ Ext!ToSet(p)) <= i - n

Filed ==
    /\ mode \in {"KEYS", "DictScan"} => Took(page, seen, mode, glob)
    /\ mode = "Keys" => Kept(page, filled, count, seen)
    /\ mode = "none" => page = <<>>

\* While every key has stayed, Keys has room for no more than these keys, and
\* DictScan is not asked for all of them.
Sized ==
    /\ mode = "DictScan" /\ glob = <<WC!Many>> => count < Cardinality(atStart)
    /\ mode = "Keys" => count <= Cardinality(since)
    /\ mode = "Keys" /\ always = atStart => found = {} /\ count = Cardinality(atStart)

ScanInd == Bounds /\ Contents /\ Framed /\ Passed /\ Filed /\ Sized

LEMMA ToSetIs == \A s : Ext!ToSet(s) = {s[i] : i \in DOMAIN s}
BY DEF Ext!ToSet

\* The keys of a shard are finitely many.
LEMMA ShardIs ==
    ASSUME Contents, NEW t \in Tables, NEW s
    PROVE  Shard(t, s) \subseteq present[t] /\ Shard(t, s) \in SUBSET Keys /\ \A k \in Shard(t, s) : spread[k] = s
<1>1. present[t] \subseteq Keys
  BY DEF Contents
<1> QED BY <1>1 DEF Shard

\* KEYS and DictScan take the keys that their glob asks for.
LEMMA MatchAsks ==
    ASSUME Bounds, mode \in {"KEYS", "DictScan"}, NEW k \in Keys
    PROVE  WC!IsMatch(pattern[glob], k) <=> Asks(mode, glob, k)
<1>1. PICK g \in Globs : g = glob
  BY DEF Bounds
<1>2. WC!IsGlob(g)
  BY GlobsAssumption
<1>3. k \in Seq(0 .. 255)
  BY KeysAssumption
<1>4. WC!IsMatch(WC!CompilePattern(WC!Notation(g)), k) <=> WC!Matches(TakenFor(g), k)
  BY <1>2, <1>3, GlobMatch
<1>5. pattern[glob] = WC!CompilePattern(WC!Notation(g))
  BY <1>1 DEF pattern
<1> QED BY <1>1, <1>4, <1>5 DEF Asks

LEMMA TookNothing == \A m, g : Took(<<>>, {}, m, g)
BY DEF Took, Ext!ToSet

\* One more key, which is taken or not.
LEMMA TookMore ==
    ASSUME NEW p, NEW S, NEW m, NEW g, Took(p, S, m, g), NEW k \in Keys, k \notin S,
           NEW T, T = S \cup {k}, NEW q, q = IF Asks(m, g, k) THEN Append(p, k) ELSE p
    PROVE  Took(q, T, m, g)
<1>1. /\ p \in Seq(Keys) /\ Len(p) \in Nat /\ DOMAIN p = 1 .. Len(p)
      /\ \A i, j \in 1 .. Len(p) : p[i] = p[j] => i = j
      /\ \A x : x \in Ext!ToSet(p) <=> x \in S /\ Asks(m, g, x)
  BY DEF Took
<1>2. CASE ~Asks(m, g, k)
  BY <1>1, <1>2 DEF Took
<1>3. CASE Asks(m, g, k)
  <2>1. q = Append(p, k)
    BY <1>3
  <2>2. /\ q \in Seq(Keys) /\ Len(q) = Len(p) + 1 /\ DOMAIN q = 1 .. Len(q) /\ q[Len(p) + 1] = k
        /\ \A i \in 1 .. Len(p) : q[i] = p[i]
    BY <1>1, <2>1
  <2>3. \A i \in 1 .. Len(q) : i \in 1 .. Len(p) \/ i = Len(p) + 1
    BY <1>1, <2>2
  <2>4. \A i \in 1 .. Len(p) : i \in 1 .. Len(q)
    BY <1>1, <2>2
  <2>5. \A i \in 1 .. Len(p) : p[i] \in S
    BY <1>1, ToSetIs
  <2>6. \A i, j \in 1 .. Len(q) : q[i] = q[j] => i = j
    BY <1>1, <2>2, <2>3, <2>5
  <2>7. \A x : x \in Ext!ToSet(p) <=> \E i \in 1 .. Len(p) : p[i] = x
    BY <1>1, ToSetIs
  <2>8. \A x : x \in Ext!ToSet(q) <=> \E i \in 1 .. Len(q) : q[i] = x
    BY <2>2, ToSetIs
  <2>9. Len(p) + 1 \in 1 .. Len(q)
    BY <1>1, <2>2
  <2>10. \A x : x \in Ext!ToSet(q) <=> x \in Ext!ToSet(p) \/ x = k
    <3>1. ASSUME NEW x, x \in Ext!ToSet(q) PROVE x \in Ext!ToSet(p) \/ x = k
      BY <2>2, <2>3, <2>7, <2>8, <3>1
    <3>2. ASSUME NEW x, x \in Ext!ToSet(p) \/ x = k PROVE x \in Ext!ToSet(q)
      BY <2>2, <2>4, <2>7, <2>8, <2>9, <3>2
    <3> QED BY <3>1, <3>2
  <2>11. \A x : x \in Ext!ToSet(q) <=> x \in T /\ Asks(m, g, x)
    BY <1>1, <1>3, <2>10
  <2> QED BY <2>2, <2>6, <2>11 DEF Took
<1> QED BY <1>2, <1>3

LEMMA BlankIs == Blank \notin Keys
BY KeysAssumption DEF Blank

\* Keys begins with blanks.
LEMMA KeptNothing ==
    ASSUME NEW n \in Nat
    PROVE  Kept(Blanks(n), 0, n, {})
<1>1. PICK p : p = Blanks(n)
  OBVIOUS
<1>2. /\ p \in Seq(Keys \cup {Blank}) /\ Len(p) = n /\ \A a \in 1 .. n : p[a] = Blank
  BY <1>1 DEF Blanks
<1>3. {} \ Ext!ToSet(p) = {} /\ Cardinality({}) = 0
  BY FS_EmptySet
<1>4. PICK E : E = {}
  OBVIOUS
<1>5. Kept(p, 0, n, E)
  <2>1. E \ Ext!ToSet(p) = {} /\ Cardinality(E) = 0 /\ Cardinality(E \ Ext!ToSet(p)) = 0
    BY <1>3, <1>4
  <2>2. \A a \in 1 .. n : a > 0
    OBVIOUS
  <2> QED BY <1>2, <2>1, <2>2 DEF Kept
<1> QED BY <1>1, <1>4, <1>5

\* The next key is written to the next slot, over what is there.
LEMMA KeptWrite ==
    ASSUME NEW p, NEW i, NEW n \in Nat, NEW S, Kept(p, i, n, S), S \subseteq Keys, IsFiniteSet(S),
           NEW k \in Keys, k \notin S, i < Len(p),
           NEW T, T = S \cup {k}, NEW q, q = [p EXCEPT ![i + 1] = k]
    PROVE  Kept(q, i + 1, n, T)
<1>1. /\ i \in Nat /\ p \in Seq(Keys \cup {Blank}) /\ Len(p) \in Nat /\ DOMAIN p = 1 .. Len(p)
      /\ \A a, b \in 1 .. Len(p) : p[a] = p[b] /\ p[a] # Blank => a = b
      /\ \A a \in 1 .. Len(p) : p[a] # Blank => p[a] \in S
      /\ \A a \in 1 .. Len(p) : p[a] = Blank <=> a > i /\ i < n
      /\ i < n => Len(p) = n /\ Cardinality(S) = i /\ S \ Ext!ToSet(p) = {}
      /\ i >= n => /\ i <= Len(p) /\ Len(p) <= i + 1
                   /\ Cardinality(S) = i + Len(p) - n
                   /\ Cardinality(S \ Ext!ToSet(p)) <= i - n
  BY DEF Kept
<1>2. /\ q \in Seq(Keys \cup {Blank}) /\ Len(q) = Len(p) /\ DOMAIN q = 1 .. Len(p)
      /\ \A a \in 1 .. Len(p) : q[a] = IF a = i + 1 THEN k ELSE p[a]
      /\ i + 1 \in 1 .. Len(p)
  BY <1>1
<1>3. Cardinality(T) = Cardinality(S) + 1 /\ IsFiniteSet(T)
  BY FS_AddElement
<1>4. Cardinality(S) \in Nat
  BY FS_CardinalityType
<1>5. PICK o : o = p[i + 1]
  OBVIOUS
<1>6. ASSUME NEW x \in T, x \notin Ext!ToSet(q) PROVE x \in S \ Ext!ToSet(p) \/ x = o
  <2>1. q[i + 1] = k /\ k \in Ext!ToSet(q)
    BY <1>2, ToSetIs
  <2>2. x \in S
    BY <1>6, <2>1
  <2>3. ASSUME x \in Ext!ToSet(p) PROVE x = o
    <3>1. PICK a \in 1 .. Len(p) : x = p[a]
      BY <1>1, <2>3, ToSetIs
    <3>2. a # i + 1 => q[a] = x /\ q[a] \in Ext!ToSet(q)
      BY <1>2, <3>1, ToSetIs
    <3> QED BY <1>5, <1>6, <3>1, <3>2
  <2> QED BY <2>2, <2>3
<1>7. \A a, b \in 1 .. Len(q) : q[a] = q[b] /\ q[a] # Blank => a = b
  <2>1. \A a \in 1 .. Len(p) : p[a] # k
    BY <1>1, BlankIs
  <2> QED BY <1>1, <1>2, <2>1
<1>8. \A a \in 1 .. Len(q) : q[a] # Blank => q[a] \in T
  BY <1>1, <1>2
<1>9. k # Blank
  BY BlankIs
<1>10. \A a \in 1 .. Len(q) : q[a] = Blank <=> a > i + 1 /\ i + 1 < n
  <2>1. ASSUME NEW a \in 1 .. Len(q), q[a] = Blank PROVE a > i + 1 /\ i + 1 < n
    <3>1. a # i + 1 /\ p[a] = Blank /\ a \in 1 .. Len(p)
      BY <1>2, <1>9, <2>1
    <3>2. a > i /\ i < n /\ Len(p) = n
      BY <1>1, <3>1
    <3> QED BY <1>1, <3>1, <3>2
  <2>2. ASSUME NEW a \in 1 .. Len(q), a > i + 1, i + 1 < n PROVE q[a] = Blank
    <3>1. a # i + 1 /\ a > i /\ i < n /\ a \in 1 .. Len(p)
      BY <1>1, <1>2, <2>2
    <3> QED BY <1>1, <1>2, <3>1
  <2> QED BY <2>1, <2>2
<1>11. CASE i < n
  <2>1. o = Blank
    BY <1>1, <1>2, <1>5, <1>11
  <2>2. o \notin T
    BY <2>1, BlankIs
  <2>3. T \ Ext!ToSet(q) = {}
    BY <1>1, <1>6, <1>11, <2>2
  <2>4. Len(q) = n /\ Cardinality(T) = i + 1
    BY <1>1, <1>2, <1>3, <1>11
  <2>5. Cardinality(T \ Ext!ToSet(q)) = 0
    BY <2>3, FS_EmptySet
  <2>6. PICK j : j = i + 1
    OBVIOUS
  <2>7. j \in Nat /\ (j >= n => j = n)
    BY <1>1, <1>11, <2>6
  <2>8. \A a \in 1 .. Len(q) : q[a] = Blank <=> a > j /\ j < n
    BY <1>10, <2>6
  <2>9. j < n => Len(q) = n /\ Cardinality(T) = j /\ T \ Ext!ToSet(q) = {}
    BY <2>3, <2>4, <2>6
  <2>10. j >= n => /\ j <= Len(q) /\ Len(q) <= j + 1
                   /\ Cardinality(T) = j + Len(q) - n
                   /\ Cardinality(T \ Ext!ToSet(q)) <= j - n
    <3>1. ASSUME NEW u, NEW v, NEW w, u = n, v = j, w = 0, j = n
          PROVE  j <= u /\ u <= j + 1 /\ v = j + u - n /\ w <= j - n
      BY <2>7, <3>1
    <3> QED BY <2>4, <2>5, <2>6, <2>7, <3>1
  <2>11. Kept(q, j, n, T)
    BY <1>2, <1>7, <1>8, <2>7, <2>8, <2>9, <2>10 DEF Kept
  <2> QED BY <2>6, <2>11
<1>12. CASE ~ (i < n)
  <2>1. Len(p) = i + 1 /\ i >= n
    BY <1>1, <1>12
  <2>2. PICK U, V : U = S \ Ext!ToSet(p) /\ V = T \ Ext!ToSet(q)
    OBVIOUS
  <2>3. IsFiniteSet(U) /\ Cardinality(U) \in Nat /\ Cardinality(U) <= i - n
    <3>1. IsFiniteSet(U)
      BY <2>2, FS_Subset
    <3> QED BY <1>1, <2>1, <2>2, <3>1, FS_CardinalityType
  <2>4. PICK W : W = U \cup {o}
    OBVIOUS
  <2>5. IsFiniteSet(W) /\ Cardinality(W) <= Cardinality(U) + 1
    <3>1. IsFiniteSet(W) /\ (o \in U => Cardinality(W) = Cardinality(U)) /\ (o \notin U => Cardinality(W) = Cardinality(U) + 1)
      BY <2>3, <2>4, FS_AddElement
    <3> QED BY <2>3, <3>1
  <2>6. V \subseteq W
    BY <1>6, <2>2, <2>4
  <2>7. Cardinality(V) <= Cardinality(W) /\ Cardinality(V) \in Nat /\ Cardinality(W) \in Nat
    <3>1. IsFiniteSet(V) /\ Cardinality(V) <= Cardinality(W)
      BY <2>5, <2>6, FS_Subset
    <3> QED BY <2>5, <3>1, FS_CardinalityType
  <2>8. Cardinality(T \ Ext!ToSet(q)) <= i + 1 - n
    BY <1>1, <2>2, <2>3, <2>5, <2>7
  <2>9. Cardinality(T) = i + 1 + Len(q) - n
    BY <1>1, <1>2, <1>3, <2>1
  <2>10. i + 1 <= Len(q) /\ Len(q) <= i + 1 + 1 /\ ~ (i + 1 < n)
    BY <1>1, <1>2, <2>1
  <2> QED BY <1>1, <1>2, <1>7, <1>8, <1>10, <2>8, <2>9, <2>10 DEF Kept
<1> QED BY <1>11, <1>12

\* Or, when there is none, appended.
LEMMA KeptAppend ==
    ASSUME NEW p, NEW i, NEW n \in Nat, NEW S, Kept(p, i, n, S), S \subseteq Keys, IsFiniteSet(S),
           NEW k \in Keys, k \notin S, ~ (i < Len(p)),
           NEW T, T = S \cup {k}, NEW q, q = Append(p, k)
    PROVE  Kept(q, i, n, T)
<1>1. /\ i \in Nat /\ p \in Seq(Keys \cup {Blank}) /\ Len(p) \in Nat /\ DOMAIN p = 1 .. Len(p)
      /\ \A a, b \in 1 .. Len(p) : p[a] = p[b] /\ p[a] # Blank => a = b
      /\ \A a \in 1 .. Len(p) : p[a] # Blank => p[a] \in S
      /\ \A a \in 1 .. Len(p) : p[a] = Blank <=> a > i /\ i < n
      /\ i < n => Len(p) = n /\ Cardinality(S) = i /\ S \ Ext!ToSet(p) = {}
      /\ i >= n => /\ i <= Len(p) /\ Len(p) <= i + 1
                   /\ Cardinality(S) = i + Len(p) - n
                   /\ Cardinality(S \ Ext!ToSet(p)) <= i - n
  BY DEF Kept
<1>2. i >= n /\ Len(p) = i
  <2>1. i \in Nat /\ Len(p) \in Nat /\ (i < n => Len(p) = n) /\ (i >= n => i <= Len(p))
    BY <1>1
  <2> QED BY <2>1
<1>3. /\ q \in Seq(Keys \cup {Blank}) /\ Len(q) = i + 1 /\ DOMAIN q = 1 .. i + 1
      /\ q[i + 1] = k
      /\ \A a \in 1 .. i : q[a] = p[a]
  BY <1>1, <1>2
<1>4. (\A a \in 1 .. i + 1 : a \in 1 .. i \/ a = i + 1) /\ i + 1 \in 1 .. i + 1 /\ \A a \in 1 .. i : a \in 1 .. i + 1
  <2>1. i \in Nat
    BY <1>1
  <2> QED BY <2>1
<1>5. k # Blank
  BY BlankIs
<1>6. \A a, b \in 1 .. Len(q) : q[a] = q[b] /\ q[a] # Blank => a = b
  <2>1. \A a \in 1 .. i : p[a] # k
    BY <1>1, <1>2, BlankIs
  <2> QED BY <1>1, <1>2, <1>3, <1>4, <2>1
<1>7. \A a \in 1 .. Len(q) : q[a] # Blank => q[a] \in T
  BY <1>1, <1>2, <1>3, <1>4
<1>8. \A a \in 1 .. Len(q) : q[a] # Blank
  BY <1>1, <1>2, <1>3, <1>4, <1>5
<1>9. T \ Ext!ToSet(q) \subseteq S \ Ext!ToSet(p)
  <2>1. k \in Ext!ToSet(q)
    BY <1>3, <1>4, ToSetIs
  <2>2. Ext!ToSet(p) \subseteq Ext!ToSet(q)
    <3>1. DOMAIN p = 1 .. i
      BY <1>1, <1>2
    <3>2. \A a \in DOMAIN p : a \in DOMAIN q /\ q[a] = p[a]
      BY <1>3, <1>4, <3>1
    <3> QED BY <3>2, ToSetIs
  <2> QED BY <2>1, <2>2
<1>10. PICK U, V : U = S \ Ext!ToSet(p) /\ V = T \ Ext!ToSet(q)
  OBVIOUS
<1>11. IsFiniteSet(U)
  BY <1>10, FS_Subset
<1>12. IsFiniteSet(V) /\ Cardinality(V) <= Cardinality(U)
  BY <1>9, <1>10, <1>11, FS_Subset
<1>13. Cardinality(U) \in Nat /\ Cardinality(V) \in Nat
  BY <1>11, <1>12, FS_CardinalityType
<1>14. Cardinality(T \ Ext!ToSet(q)) <= i - n
  BY <1>1, <1>2, <1>10, <1>12, <1>13
<1>15. Cardinality(T) = Cardinality(S) + 1
  BY FS_AddElement
<1>16. Cardinality(T) = i + Len(q) - n /\ i <= Len(q) /\ Len(q) <= i + 1
  BY <1>1, <1>2, <1>3, <1>15
<1> QED BY <1>1, <1>2, <1>3, <1>6, <1>7, <1>8, <1>14, <1>16 DEF Kept

LEMMA InitScan == Init => ScanInd
<1> SUFFICES ASSUME Init PROVE ScanInd
  OBVIOUS
<1>1. 0 \in Tables /\ 0 \in Nat
  BY CountsAssumption DEF Tables
<1>2. IsFiniteSet({})
  BY FS_EmptySet
<1>3. Bounds
  BY <1>1 DEF Init, Bounds
<1>4. Contents
  BY <1>2 DEF Init, Contents
<1>5. Framed /\ Passed /\ Filed /\ Sized
  BY <1>2 DEF Init, Framed, Scanning, Passed, Filed, Sized
<1> QED BY <1>3, <1>4, <1>5 DEF ScanInd

LEMMA PutScan ==
    ASSUME ScanInd, NEW k \in Keys, Put(k)
    PROVE  ScanInd'
<1>1. /\ Bounds /\ Contents /\ Framed /\ Passed /\ Filed /\ Sized
      /\ present' = [present EXCEPT ![table] = @ \cup {k}]
      /\ since' = IF Scanning THEN since \cup {k} ELSE {}
      /\ ever' = IF Scanning THEN ever \cup {k} ELSE {}
      /\ table' = table /\ mode' = mode /\ range' = range /\ glob' = glob /\ index' = index /\ rest' = rest
      /\ cursor' = cursor /\ count' = count /\ page' = page /\ filled' = filled /\ found' = found
      /\ seen' = seen /\ atStart' = atStart /\ always' = always
  BY DEF ScanInd, Put, scanvars
<1>2. Bounds'
  BY <1>1 DEF Bounds
<1>3. table \in Tables /\ \A t \in Tables : present'[t] = IF t = table THEN present[t] \cup {k} ELSE present[t]
  BY <1>1 DEF Bounds, Contents
<1>4. IsFiniteSet(present[table] \cup {k})
  <2>1. IsFiniteSet(present[table])
    BY <1>3, <1>1 DEF Contents
  <2> QED BY <2>1, FS_AddElement
<1>5. Contents'
  <2>1. present' \in [Tables -> SUBSET Keys]
    BY <1>1 DEF Contents
  <2>2. ASSUME NEW t \in Tables PROVE IsFiniteSet(present'[t]) /\ (t > table => present'[t] = {})
    <3>1. t = table => ~ (t > table)
      BY DEF Tables
    <3> QED BY <1>1, <1>3, <1>4, <3>1 DEF Contents
  <2> QED BY <1>1, <2>1, <2>2 DEF Contents
<1>6. IsFiniteSet(since) /\ since \subseteq ever /\ ever \subseteq Keys /\ (~Scanning => since = {} /\ ever = {})
  BY <1>1 DEF Framed
<1>7. /\ since \subseteq since' /\ ever \subseteq ever' /\ since' \subseteq ever' /\ ever' \subseteq Keys
      /\ Scanning => k \in since'
      /\ ~Scanning => since' = {} /\ ever' = {}
  BY <1>1, <1>6
<1>8. IsFiniteSet(since') /\ Cardinality(since) <= Cardinality(since') /\ Cardinality(since) \in Nat /\ Cardinality(since') \in Nat
  <2>1. IsFiniteSet(since \cup {k})
    BY <1>6, FS_AddElement
  <2>2. IsFiniteSet({})
    BY FS_EmptySet
  <2>3. IsFiniteSet(since')
    BY <1>1, <2>1, <2>2
  <2>4. Cardinality(since) <= Cardinality(since')
    BY <1>7, <2>3, FS_Subset
  <2> QED BY <1>6, <2>3, <2>4, FS_CardinalityType
<1>9. Framed'
  <2>1. range \in Tables
    BY <1>1 DEF Bounds
  <2>2. Scanning' <=> Scanning
    BY <1>1 DEF Scanning
  <2>3. mode \in {"KEYS", "Keys"} => Scanning
    BY DEF Scanning
  <2> QED BY <1>1, <1>3, <1>7, <1>8, <2>1, <2>2, <2>3 DEF Framed
<1>10. Passed'
  BY <1>1, <1>7 DEF Passed
<1>11. Filed'
  BY <1>1 DEF Filed
<1>12. Sized'
  <2>1. mode = "Keys" => count <= Cardinality(since') /\ count \in Nat
    BY <1>1, <1>8 DEF Sized, Bounds
  <2> QED BY <1>1, <2>1 DEF Sized
<1> QED BY <1>2, <1>5, <1>9, <1>10, <1>11, <1>12 DEF ScanInd

LEMMA RemoveScan ==
    ASSUME ScanInd, NEW k \in Keys, Remove(k)
    PROVE  ScanInd'
<1>1. /\ Bounds /\ Contents /\ Framed /\ Passed /\ Filed /\ Sized
      /\ present' = [present EXCEPT ![table] = @ \ {k}]
      /\ always' = always \ {k}
      /\ table' = table /\ mode' = mode /\ range' = range /\ glob' = glob /\ index' = index /\ rest' = rest
      /\ cursor' = cursor /\ count' = count /\ page' = page /\ filled' = filled /\ found' = found
      /\ seen' = seen /\ since' = since /\ atStart' = atStart /\ ever' = ever
  BY DEF ScanInd, Remove, scanvars
<1>2. Bounds'
  BY <1>1 DEF Bounds
<1>3. table \in Tables /\ \A t \in Tables : present'[t] = IF t = table THEN present[t] \ {k} ELSE present[t]
  BY <1>1 DEF Bounds, Contents
<1>4. \A t \in Tables : present'[t] \subseteq present[t]
  BY <1>3
<1>5. Contents'
  <2>1. present' \in [Tables -> SUBSET Keys]
    BY <1>1 DEF Contents
  <2>2. ASSUME NEW t \in Tables PROVE IsFiniteSet(present'[t]) /\ (t > table => present'[t] = {})
    <3>1. IsFiniteSet(present[t])
      BY <1>1 DEF Contents
    <3>2. IsFiniteSet(present'[t])
      BY <1>4, <3>1, FS_Subset
    <3> QED BY <1>1, <1>4, <3>2 DEF Contents
  <2> QED BY <1>1, <2>1, <2>2 DEF Contents
<1>6. Framed'
  <2>1. range \in Tables
    BY <1>1 DEF Bounds
  <2>2. Scanning' <=> Scanning
    BY <1>1 DEF Scanning
  <2> QED BY <1>1, <1>3, <1>4, <2>1, <2>2 DEF Framed
<1>7. Passed' /\ Filed'
  BY <1>1 DEF Passed, Filed
<1>8. always' = atStart => always = atStart
  BY <1>1 DEF Framed
<1>9. Sized'
  BY <1>1, <1>8 DEF Sized
<1> QED BY <1>2, <1>5, <1>6, <1>7, <1>9 DEF ScanInd

LEMMA ClearScan ==
    ASSUME ScanInd, Clear
    PROVE  ScanInd'
<1>1. /\ Bounds /\ Contents /\ Framed /\ Passed /\ Filed /\ Sized
      /\ table < MaxClears /\ table' = table + 1 /\ always' = {}
      /\ present' = present /\ mode' = mode /\ range' = range /\ glob' = glob /\ index' = index /\ rest' = rest
      /\ cursor' = cursor /\ count' = count /\ page' = page /\ filled' = filled /\ found' = found
      /\ seen' = seen /\ since' = since /\ atStart' = atStart /\ ever' = ever
  BY DEF ScanInd, Clear, scanvars
<1>2. table \in Int /\ table' \in Tables /\ table' > table
  BY <1>1, CountsAssumption DEF Bounds, Tables
<1>3. Bounds'
  BY <1>1, <1>2 DEF Bounds
<1>4. present[table'] = {}
  BY <1>1, <1>2 DEF Contents
<1>5. Contents'
  <2>1. \A t \in Tables : t > table' => t > table
    BY <1>1, <1>2 DEF Tables
  <2> QED BY <1>1, <2>1 DEF Contents
<1>6. Framed'
  BY <1>1, <1>4 DEF Framed, Scanning
<1>7. Passed' /\ Filed'
  BY <1>1 DEF Passed, Filed
<1>8. always' = atStart => always = atStart
  BY <1>1 DEF Framed
<1>9. Sized'
  BY <1>1, <1>8 DEF Sized
<1> QED BY <1>3, <1>5, <1>6, <1>7, <1>9 DEF ScanInd

\* A scan begins with the current table, and everything before it.
LEMMA BeginScan ==
    ASSUME ScanInd, NEW m \in {"KEYS", "Keys", "DictScan"}, NEW g, m \in {"KEYS", "DictScan"} => g \in Globs,
           NEW n \in Nat, NEW r, Begin(m, g, n, r),
           m = "Keys" => n = Size /\ r = Blanks(n),
           m \in {"KEYS", "DictScan"} => r = <<>>,
           m = "DictScan" => ~AllAtOnce(g, n)
    PROVE  ScanInd'
<1>1. /\ Bounds /\ Contents /\ Framed /\ Passed /\ mode = "none"
      /\ mode' = m /\ glob' = g /\ range' = table /\ index' = 0 /\ cursor' = 0 /\ count' = n
      /\ page' = r /\ filled' = 0 /\ found' = {} /\ seen' = {} /\ rest' = rest
      /\ since' = present[table] /\ atStart' = present[table] /\ always' = present[table] /\ ever' = present[table]
      /\ present' = present /\ table' = table
  BY DEF ScanInd, Begin, Call
<1>2. rest = {}
  BY <1>1 DEF Passed, Framed, Scanning
<1>3. table \in Tables /\ present[table] \subseteq Keys /\ IsFiniteSet(present[table])
  BY <1>1 DEF Bounds, Contents
<1>4. \A k \in Keys : spread[k] \in Nat
  BY ShardsAssumption DEF Shards
<1>5. Bounds' /\ Contents'
  BY <1>1 DEF Bounds, Contents
<1>6. Framed'
  BY <1>1, <1>3 DEF Framed, Scanning
<1>7. Passed'
  <2>1. ASSUME NEW k \in present[table], spread[k] < 0 PROVE FALSE
    BY <1>3, <1>4, <2>1
  <2> QED BY <1>1, <1>2, <2>1 DEF Passed
<1>8. Filed'
  <2>1. m \in {"KEYS", "DictScan"} => Took(r, {}, m, g)
    BY TookNothing
  <2>2. m = "Keys" => Kept(r, 0, n, {})
    BY KeptNothing
  <2> QED BY <1>1, <2>1, <2>2 DEF Filed
<1>9. Sized'
  <2>1. Cardinality(present[table]) \in Nat
    BY <1>3, FS_CardinalityType
  <2>2. m = "DictScan" /\ g = <<WC!Many>> => n < Cardinality(present[table])
    BY <2>1 DEF AllAtOnce, Size
  <2>3. m = "Keys" => n = Cardinality(present[table])
    BY DEF Size
  <2> QED BY <1>1, <2>1, <2>2, <2>3 DEF Sized
<1> QED BY <1>5, <1>6, <1>7, <1>8, <1>9 DEF ScanInd

LEMMA BeginKEYSScan ==
    ASSUME ScanInd, NEW g \in Globs, BeginKEYS(g)
    PROVE  ScanInd'
<1>1. PICK r : r = <<>> /\ Begin("KEYS", g, 0, r)
  BY DEF BeginKEYS
<1> QED BY <1>1, BeginScan

LEMMA BeginKeysScan ==
    ASSUME ScanInd, BeginKeys
    PROVE  ScanInd'
<1>1. PICK n, g, r : n = Size /\ r = Blanks(n) /\ Begin("Keys", g, n, r)
  BY DEF BeginKeys
<1>2. IsFiniteSet(present[table])
  BY DEF ScanInd, Bounds, Contents
<1>3. n \in Nat
  BY <1>1, <1>2, FS_CardinalityType DEF Size
<1> QED BY <1>1, <1>3, BeginScan

LEMMA BeginDictScanScan ==
    ASSUME ScanInd, NEW g \in ScanGlobs, NEW n \in Counts, BeginDictScan(g, n)
    PROVE  ScanInd'
<1>1. PICK r : r = <<>> /\ ~AllAtOnce(g, n) /\ Begin("DictScan", g, n, r)
  BY DEF BeginDictScan
<1>2. n \in Nat /\ g \in Globs
  BY CountsAssumption, GlobsAssumption
<1> QED BY <1>1, <1>2, BeginScan

\* The keys of one more shard of a table are to come.
LEMMA ShardScan ==
    ASSUME ScanInd, Scanning, NEW t \in Tables,
           always # {} => t = table, present[t] \subseteq since,
           rest = {}, rest' = Shard(t, index), index' = index + 1, range' = t,
           mode \in {"KEYS", "Keys"} => t = range,
           UNCHANGED <<present, table, mode, glob, cursor, count, page, filled, found, seen, since, atStart, always, ever>>
    PROVE  ScanInd'
<1>1. /\ Bounds /\ Contents /\ Framed /\ Passed /\ Filed /\ Sized
      /\ present' = present /\ table' = table /\ mode' = mode /\ glob' = glob
      /\ cursor' = cursor /\ count' = count /\ page' = page /\ filled' = filled /\ found' = found
      /\ seen' = seen /\ since' = since /\ atStart' = atStart /\ always' = always /\ ever' = ever
  BY DEF ScanInd
<1>2. index \in Nat
  BY <1>1 DEF Bounds
<1>3. rest' \subseteq present[t] /\ \A k \in rest' : spread[k] = index
  BY <1>1, ShardIs
<1>4. Bounds' /\ Contents' /\ Filed' /\ Sized'
  BY <1>1, <1>2 DEF Bounds, Contents, Filed, Sized
<1>5. Framed'
  BY <1>1 DEF Framed, Scanning
<1>6. \A k \in Keys : spread[k] \in Nat
  BY ShardsAssumption DEF Shards
<1>7. seen \subseteq Keys /\ always \subseteq Keys
  BY <1>1 DEF Passed, Framed
<1>8. \A k \in seen : spread[k] < index /\ spread[k] < index + 1
  BY <1>1, <1>2, <1>6, <1>7 DEF Passed
<1>9. \A k \in rest' : spread[k] < index + 1 /\ k \notin seen
  BY <1>2, <1>3, <1>8
<1>10. ASSUME NEW k \in always, Asks(mode, glob, k), spread[k] < index + 1
       PROVE  k \in found \cup seen \cup rest'
  <2>1. k \in present[t] /\ spread[k] \in Nat
    BY <1>1, <1>6, <1>7 DEF Framed
  <2>2. CASE spread[k] < index
    BY <1>1, <1>10, <2>2 DEF Passed
  <2>3. CASE spread[k] = index
    BY <2>1, <2>3 DEF Shard
  <2> QED BY <1>2, <1>10, <2>1, <2>2, <2>3
<1>11. Passed'
  <2>1. /\ seen \subseteq since /\ rest' \subseteq since /\ seen \cap rest' = {}
        /\ found \subseteq ever /\ \A k \in found : Asks(mode, glob, k)
    BY <1>1, <1>3, <1>9 DEF Passed
  <2> QED BY <1>1, <1>8, <1>9, <1>10, <2>1 DEF Passed
<1> QED BY <1>4, <1>5, <1>11 DEF ScanInd

LEMMA VisitScan ==
    ASSUME ScanInd, Visit
    PROVE  ScanInd'
<1>1. Bounds /\ Framed
  BY DEF ScanInd
<1>2. mode \in {"KEYS", "Keys"} /\ range \in Tables
  BY <1>1 DEF Visit, Bounds
<1>3. PICK t \in Tables : t = range
  BY <1>2
<1>4. Scanning /\ present[t] \subseteq since /\ (always # {} => t = table)
  BY <1>1, <1>2, <1>3 DEF Framed, Scanning
<1>5. /\ rest = {} /\ rest' = Shard(t, index) /\ index' = index + 1 /\ range' = t
      /\ UNCHANGED <<present, table, mode, glob, cursor, count, page, filled, found, seen, since, atStart, always, ever>>
  BY <1>3 DEF Visit
<1> QED BY <1>3, <1>4, <1>5, ShardScan

LEMMA VisitPageScan ==
    ASSUME ScanInd, VisitPage
    PROVE  ScanInd'
<1>1. Bounds /\ Framed
  BY DEF ScanInd
<1>2. mode = "DictScan" /\ Scanning /\ table \in Tables
  BY <1>1 DEF VisitPage, Bounds, Scanning
<1>3. PICK t \in Tables : t = table
  BY <1>2
<1>4. present[t] \subseteq since
  BY <1>1, <1>2, <1>3 DEF Framed
<1>5. /\ rest = {} /\ rest' = Shard(t, index) /\ index' = index + 1 /\ range' = t
      /\ UNCHANGED <<present, table, mode, glob, cursor, count, page, filled, found, seen, since, atStart, always, ever>>
  BY <1>3 DEF VisitPage
<1> QED BY <1>2, <1>3, <1>4, <1>5, ShardScan

\* A key that was to come has been passed.
LEMMA PassScan ==
    ASSUME ScanInd, Scanning, NEW k \in Keys, k \in rest, rest' = rest \ {k}, seen' = seen \cup {k}, Filed',
           UNCHANGED <<present, table, mode, range, glob, index, cursor, count, found, since, atStart, always, ever>>
    PROVE  ScanInd'
<1>1. /\ Bounds /\ Contents /\ Framed /\ Passed /\ Sized
      /\ present' = present /\ table' = table /\ mode' = mode /\ range' = range /\ glob' = glob /\ index' = index
      /\ cursor' = cursor /\ count' = count /\ found' = found
      /\ since' = since /\ atStart' = atStart /\ always' = always /\ ever' = ever
  BY DEF ScanInd
<1>2. Bounds' /\ Contents' /\ Sized'
  BY <1>1 DEF Bounds, Contents, Sized
<1>3. Framed'
  BY <1>1 DEF Framed, Scanning
<1>4. seen' \cup rest' = seen \cup rest /\ seen' \cap rest' = {}
  BY <1>1 DEF Passed
<1>5. /\ \A x \in seen' \cup rest' : spread[x] < index
      /\ \A x \in always : Asks(mode, glob, x) /\ spread[x] < index => x \in found \cup seen' \cup rest'
  BY <1>1, <1>4 DEF Passed
<1>6. seen' \subseteq since /\ rest' \subseteq since
  BY <1>1 DEF Passed
<1>7. Passed'
  BY <1>1, <1>4, <1>5, <1>6 DEF Passed
<1> QED BY <1>2, <1>3, <1>7 DEF ScanInd

LEMMA TakeScan ==
    ASSUME ScanInd, NEW k \in Keys, Take(k)
    PROVE  ScanInd'
<1>1. /\ mode \in {"KEYS", "DictScan"} /\ k \in rest /\ rest' = rest \ {k} /\ seen' = seen \cup {k}
      /\ page' = IF WC!IsMatch(pattern[glob], k) THEN Append(page, k) ELSE page
      /\ UNCHANGED <<present, table, mode, range, glob, index, cursor, count, found, since, atStart, always, ever>>
  BY DEF Take
<1>2. k \notin seen /\ Scanning
  BY <1>1 DEF ScanInd, Passed, Scanning
<1>3. WC!IsMatch(pattern[glob], k) <=> Asks(mode, glob, k)
  BY <1>1, MatchAsks DEF ScanInd
<1>4. Took(page, seen, mode, glob)
  BY <1>1 DEF ScanInd, Filed
<1>5. PICK q, T : q = page' /\ T = seen' /\ T = seen \cup {k} /\ q = IF Asks(mode, glob, k) THEN Append(page, k) ELSE page
  BY <1>1, <1>3
<1>6. Took(q, T, mode, glob)
  BY <1>2, <1>4, <1>5, TookMore
<1>7. Filed'
  BY <1>1, <1>5, <1>6 DEF Filed
<1> QED BY <1>1, <1>2, <1>7, PassScan

LEMMA FillScan ==
    ASSUME ScanInd, NEW k \in Keys, Fill(k)
    PROVE  ScanInd'
<1>1. /\ mode = "Keys" /\ k \in rest /\ rest' = rest \ {k} /\ seen' = seen \cup {k}
      /\ IF filled < Len(page)
           THEN page' = [page EXCEPT ![filled + 1] = k] /\ filled' = filled + 1
           ELSE page' = Append(page, k) /\ filled' = filled
      /\ UNCHANGED <<present, table, mode, range, glob, index, cursor, count, found, since, atStart, always, ever>>
  BY DEF Fill
<1>2. k \notin seen /\ Scanning /\ seen \subseteq since
  BY <1>1 DEF ScanInd, Passed, Scanning
<1>3. IsFiniteSet(since) /\ since \subseteq Keys /\ count \in Nat
  BY DEF ScanInd, Framed, Bounds
<1>4. IsFiniteSet(seen) /\ seen \subseteq Keys
  BY <1>2, <1>3, FS_Subset
<1>5. Kept(page, filled, count, seen)
  BY <1>1 DEF ScanInd, Filed
<1>6. PICK q, T : q = page' /\ T = seen' /\ T = seen \cup {k}
  BY <1>1
<1>7. Kept(q, filled', count, T)
  <2>1. CASE filled < Len(page)
    <3>1. q = [page EXCEPT ![filled + 1] = k] /\ filled' = filled + 1
      BY <1>1, <1>6, <2>1
    <3>2. Kept(q, filled + 1, count, T)
      BY <1>2, <1>3, <1>4, <1>5, <1>6, <2>1, <3>1, KeptWrite
    <3> QED BY <3>1, <3>2
  <2>2. CASE ~ (filled < Len(page))
    <3>1. q = Append(page, k) /\ filled' = filled
      BY <1>1, <1>6, <2>2
    <3>2. Kept(q, filled, count, T)
      BY <1>2, <1>3, <1>4, <1>5, <1>6, <2>2, <3>1, KeptAppend
    <3> QED BY <3>1, <3>2
  <2> QED BY <2>1, <2>2
<1>8. Filed'
  BY <1>1, <1>6, <1>7 DEF Filed
<1> QED BY <1>1, <1>2, <1>8, PassScan

LEMMA NextPageScan ==
    ASSUME ScanInd, NextPage
    PROVE  ScanInd'
<1>1. /\ Bounds /\ Contents /\ Framed /\ Passed /\ Filed /\ Sized
      /\ mode = "DictScan" /\ rest = {} /\ found' = found \cup Ext!ToSet(page) /\ rest' = rest
      /\ filled' = 0 /\ seen' = {} /\ since' = present[table]
      /\ present' = present /\ table' = table /\ glob' = glob
      /\ atStart' = atStart /\ always' = always /\ ever' = ever
  BY DEF ScanInd, NextPage, Call
<1>2. /\ table \in Tables /\ index \in Nat /\ count \in Nat /\ Scanning /\ Scanning'
      /\ IsFiniteSet(present[table]) /\ Cardinality(present[table]) \in Nat
  <2>1. table \in Tables /\ index \in Nat /\ count \in Nat /\ IsFiniteSet(present[table]) /\ Scanning
    BY <1>1 DEF Bounds, Contents, Scanning
  <2>2. Scanning'
    BY <1>1 DEF NextPage, Call, Scanning
  <2> QED BY <2>1, <2>2, FS_CardinalityType
<1>3. Contents'
  BY <1>1 DEF Contents
<1>4. \A k : k \in Ext!ToSet(page) <=> k \in seen /\ Asks(mode, glob, k)
  BY <1>1 DEF Filed, Took
<1>5. found' \subseteq ever /\ \A k \in found' : Asks(mode, glob, k)
  BY <1>1, <1>4 DEF Passed, Framed
<1>6. \A k \in always : Asks(mode, glob, k) /\ spread[k] < index => k \in found'
  BY <1>1, <1>4 DEF Passed
<1>7. present[table] \subseteq ever /\ always \subseteq present[table]
  BY <1>1, <1>2 DEF Framed
<1>8. CASE AllAtOnce(glob, count)
  <2>1. PICK n, r : n = Size /\ r = Blanks(n) /\ mode' = "Keys" /\ count' = n /\ page' = r
    BY <1>8 DEF NextPage, Call
  <2>2. range' = table /\ index' = 0 /\ cursor' = 0 /\ n = Cardinality(present[table]) /\ n \in Nat
    BY <1>2, <1>8, <2>1 DEF NextPage, Size
  <2>3. Bounds'
    BY <1>1, <1>2, <2>1, <2>2 DEF Bounds
  <2>4. Framed'
    BY <1>1, <1>2, <1>7, <2>1, <2>2 DEF Framed
  <2>5. Passed'
    <3>1. ASSUME NEW k \in always, spread[k] < 0 PROVE FALSE
      BY <1>1, <3>1, ShardsAssumption DEF Framed, Shards
    <3>2. \A k : Asks("Keys", glob, k)
      BY DEF Asks
    <3> QED BY <1>1, <1>5, <2>1, <2>2, <3>1, <3>2 DEF Passed
  <2>6. Filed'
    <3>1. Kept(r, 0, n, {})
      BY <2>1, <2>2, KeptNothing
    <3> QED BY <1>1, <2>1, <3>1 DEF Filed
  <2>7. always # atStart
    <3> SUFFICES ASSUME always = atStart PROVE FALSE
      OBVIOUS
    <3>1. Cardinality(atStart) <= Cardinality(present[table]) /\ IsFiniteSet(atStart)
      BY <1>2, <1>7, FS_Subset
    <3>2. Cardinality(atStart) \in Nat
      BY <3>1, FS_CardinalityType
    <3>3. count < Cardinality(atStart) /\ count >= Cardinality(present[table])
      BY <1>1, <1>8 DEF Sized, AllAtOnce, Size
    <3> QED BY <1>2, <3>1, <3>2, <3>3
  <2>8. Sized'
    BY <1>1, <2>1, <2>2, <2>7 DEF Sized
  <2> QED BY <1>3, <2>3, <2>4, <2>5, <2>6, <2>8 DEF ScanInd
<1>9. CASE ~AllAtOnce(glob, count)
  <2>1. cursor' = index /\ mode' = "DictScan" /\ range' = range /\ index' = index /\ count' = count /\ page' = <<>>
    BY <1>9 DEF NextPage, Call
  <2>2. Bounds'
    BY <1>1, <1>2, <2>1 DEF Bounds
  <2>3. Framed'
    BY <1>1, <1>2, <1>7, <2>1 DEF Framed
  <2>4. Passed'
    BY <1>1, <1>5, <1>6, <2>1 DEF Passed
  <2>5. Filed'
    <3>1. Took(<<>>, {}, "DictScan", glob)
      BY TookNothing
    <3> QED BY <1>1, <2>1, <3>1 DEF Filed
  <2>6. Sized'
    BY <1>1, <2>1 DEF Sized
  <2> QED BY <1>3, <2>2, <2>3, <2>4, <2>5, <2>6 DEF ScanInd
<1> QED BY <1>8, <1>9

LEMMA EndScan ==
    ASSUME ScanInd, End
    PROVE  ScanInd'
<1>1. /\ Bounds /\ Contents
      /\ mode' = "none" /\ range' = 0 /\ index' = 0 /\ cursor' = 0 /\ count' = 0 /\ page' = <<>> /\ filled' = 0
      /\ found' = {} /\ seen' = {} /\ since' = {} /\ atStart' = {} /\ always' = {} /\ ever' = {}
      /\ rest' = {} /\ present' = present /\ table' = table
  BY DEF ScanInd, End, Finished
<1>2. IsFiniteSet({}) /\ 0 \in Tables
  BY FS_EmptySet, CountsAssumption DEF Tables
<1>3. Bounds' /\ Contents'
  BY <1>1, <1>2 DEF Bounds, Contents
<1>4. Framed'
  BY <1>1, <1>2 DEF Framed, Scanning
<1>5. Passed' /\ Filed' /\ Sized'
  BY <1>1 DEF Passed, Filed, Sized
<1> QED BY <1>3, <1>4, <1>5 DEF ScanInd

LEMMA NextScan == ScanInd /\ [Next]_vars => ScanInd'
<1> SUFFICES ASSUME ScanInd, [Next]_vars PROVE ScanInd'
  OBVIOUS
<1>1. ASSUME NEW k \in Keys, Put(k) PROVE ScanInd'
  BY <1>1, PutScan
<1>2. ASSUME NEW k \in Keys, Remove(k) PROVE ScanInd'
  BY <1>2, RemoveScan
<1>3. CASE Clear
  BY <1>3, ClearScan
<1>4. ASSUME NEW g \in Globs, BeginKEYS(g) PROVE ScanInd'
  BY <1>4, BeginKEYSScan
<1>5. CASE BeginKeys
  BY <1>5, BeginKeysScan
<1>6. ASSUME NEW g \in ScanGlobs, NEW n \in Counts, BeginDictScan(g, n) PROVE ScanInd'
  BY <1>6, BeginDictScanScan
<1>7. CASE Visit
  BY <1>7, VisitScan
<1>8. CASE VisitPage
  BY <1>8, VisitPageScan
<1>9. CASE NextPage
  BY <1>9, NextPageScan
<1>10. CASE End
  BY <1>10, EndScan
<1>11. ASSUME NEW k \in Keys, Take(k) PROVE ScanInd'
  BY <1>11, TakeScan
<1>12. ASSUME NEW k \in Keys, Fill(k) PROVE ScanInd'
  BY <1>12, FillScan
<1>13. CASE UNCHANGED vars
  <2>1. /\ Bounds /\ Contents /\ Framed /\ Passed /\ Filed /\ Sized
        /\ present' = present /\ table' = table /\ mode' = mode /\ range' = range /\ glob' = glob
        /\ index' = index /\ rest' = rest /\ cursor' = cursor /\ count' = count /\ page' = page /\ filled' = filled
        /\ found' = found /\ seen' = seen /\ since' = since
        /\ atStart' = atStart /\ always' = always /\ ever' = ever
    BY <1>13 DEF ScanInd, vars, scanvars
  <2>2. Bounds' /\ Contents' /\ Filed' /\ Sized'
    BY <2>1 DEF Bounds, Contents, Filed, Sized
  <2>3. Framed'
    BY <2>1 DEF Framed, Scanning
  <2>4. Passed'
    BY <2>1 DEF Passed
  <2> QED BY <2>2, <2>3, <2>4 DEF ScanInd
<1> QED BY <1>1, <1>2, <1>3, <1>4, <1>5, <1>6, <1>7, <1>8, <1>9, <1>10, <1>11, <1>12, <1>13 DEF Next, ScanStep

LEMMA ScanInvariant == Spec => []ScanInd
<1> QED BY InitScan, NextScan, PTL DEF Spec

\* What the glob matches is asked for, and nothing else unless it has a part
\* [^a-b].
LEMMA WantedIs ==
    ASSUME Bounds, NEW S
    PROVE  /\ \A k \in Wanted(S) : k \in S /\ Asks(mode, glob, k)
           /\ ~WC!NegatedRange(glob) => \A k \in S : Asks(mode, glob, k) => k \in Wanted(S)
<1>1. CASE mode \in {"KEYS", "DictScan"}
  <2>1. PICK g \in Globs : g = glob
    BY <1>1 DEF Bounds
  <2>2. WC!IsGlob(g)
    BY GlobsAssumption
  <2>3. \A k : /\ WC!Matches(g, k) => WC!Matches(TakenFor(g), k)
               /\ ~WC!NegatedRange(g) /\ WC!Matches(TakenFor(g), k) => WC!Matches(g, k)
    BY <2>2, GlobTaken
  <2> QED BY <1>1, <2>1, <2>3 DEF Wanted, Asks
<1>2. CASE mode \notin {"KEYS", "DictScan"}
  BY <1>2 DEF Wanted, Asks
<1> QED BY <1>1, <1>2

\* Whatever the other goroutines insert, remove or clear meanwhile, a scan
\* that holds one shard's lock at a time reports every key that it is asked
\* for and that stays from its start to its end, except that Keys may lose one
\* of them for every two keys inserted while it runs; only keys that were there
\* at some time of it, each once in a call, and asked for unless the pattern
\* has a part [^a-b]; and an empty string only if a key was removed: ForEach,
\* Keys and DictScan of ConcurrentDict, for any keys, spread, globs, counts and
\* number of calls of Clear.
THEOREM ScansExact == Spec => []ScanExact
<1>1. ASSUME ScanInd PROVE ScanExact
  <2>1. Bounds /\ Contents /\ Framed /\ Passed /\ Filed /\ Sized
    BY <1>1 DEF ScanInd
  <2>2. /\ \A k \in Wanted(always) : k \in always /\ Asks(mode, glob, k)
        /\ ~WC!NegatedRange(glob) => \A k \in ever : Asks(mode, glob, k) => k \in Wanted(ever)
    BY <2>1, WantedIs
  <2>3. Blank \notin ever /\ Blank \notin always /\ Blank \notin seen
    BY <2>1, BlankIs DEF Framed, Passed
  <2>4. ASSUME Finished, NEW k \in always, Asks(mode, glob, k) PROVE k \in found \cup seen
    <3>1. index \in Nat /\ index >= shardCount /\ k \in Keys /\ rest = {}
      BY <2>1, <2>4 DEF Finished, Bounds, Framed
    <3>2. spread[k] < index
      BY <3>1, ShardsAssumption DEF Shards
    <3> QED BY <2>1, <2>4, <3>1, <3>2 DEF Passed
  <2>5. mode = "Keys" => Kept(page, filled, count, seen)
    BY <2>1 DEF Filed
  <2>6. mode = "Keys" => IsFiniteSet(seen) /\ Cardinality(seen) <= Cardinality(since)
                         /\ Cardinality(seen) \in Nat /\ Cardinality(since) \in Nat
    <3>1. IsFiniteSet(since) /\ seen \subseteq since
      BY <2>1 DEF Framed, Passed
    <3>2. IsFiniteSet(seen) /\ Cardinality(seen) <= Cardinality(since)
      BY <3>1, FS_Subset
    <3> QED BY <3>1, <3>2, FS_CardinalityType
  <2>7. ScanComplete
    <3> SUFFICES ASSUME Finished PROVE 2 * Cardinality(Wanted(always) \ Reported) <= Unforeseen
      BY DEF ScanComplete
    <3>1. PICK L : L = Wanted(always) \ Reported
      OBVIOUS
    <3>2. \A k \in L : k \in seen /\ k \notin Ext!ToSet(page) /\ Asks(mode, glob, k)
      BY <2>2, <2>3, <2>4, <3>1 DEF Reported
    <3>3. CASE mode = "Keys"
      <4>1. PICK U : U = seen \ Ext!ToSet(page)
        OBVIOUS
      <4>2. IsFiniteSet(U) /\ L \subseteq U
        BY <2>6, <3>2, <3>3, <4>1, FS_Subset
      <4>3. IsFiniteSet(L) /\ Cardinality(L) <= Cardinality(U)
        BY <4>2, FS_Subset
      <4>4. Cardinality(L) \in Nat /\ Cardinality(U) \in Nat
        BY <4>2, <4>3, FS_CardinalityType
      <4>5. count <= Cardinality(since) /\ count \in Nat /\ filled \in Nat /\ Len(page) \in Nat
        BY <2>1, <2>5, <3>3 DEF Sized, Bounds, Kept
      <4>6. 2 * Cardinality(U) <= Cardinality(since) - count
        <5>1. CASE filled < count
          <6>1. U = {}
            BY <2>5, <3>3, <4>1, <5>1 DEF Kept
          <6>2. Cardinality(U) = 0
            BY <6>1, FS_EmptySet
          <6> QED BY <2>6, <3>3, <4>5, <6>2
        <5>2. CASE filled >= count
          <6>1. filled <= Len(page) /\ Cardinality(seen) = filled + Len(page) - count /\ Cardinality(U) <= filled - count
            BY <2>5, <3>3, <4>1, <5>2 DEF Kept
          <6> QED BY <2>6, <3>3, <4>4, <4>5, <6>1
        <5> QED BY <4>5, <5>1, <5>2
      <4>7. Unforeseen = Cardinality(since) - count
        BY <3>3 DEF Unforeseen
      <4> QED BY <2>6, <3>1, <3>3, <4>3, <4>4, <4>5, <4>6, <4>7
    <3>4. CASE mode # "Keys"
      <4>1. Took(page, seen, mode, glob)
        BY <2>1, <3>4 DEF Filed, Finished, Scanning, Bounds
      <4>2. L = {}
        BY <3>2, <4>1 DEF Took
      <4>3. Cardinality(L) = 0 /\ Unforeseen = 0
        BY <3>4, <4>2, FS_EmptySet DEF Unforeseen
      <4> QED BY <3>1, <4>3
    <3> QED BY <3>3, <3>4
  <2>8. ASSUME NEW k \in Reported PROVE k \in ever /\ Asks(mode, glob, k)
    <3>1. k \in found \/ (k \in Ext!ToSet(page) /\ k # Blank)
      BY <2>8 DEF Reported
    <3>2. CASE k \in found
      BY <2>1, <3>2 DEF Passed
    <3>3. CASE k \in Ext!ToSet(page) /\ k # Blank
      <4>1. mode # "none"
        <5> SUFFICES ASSUME mode = "none" PROVE FALSE
          OBVIOUS
        <5>1. page = <<>>
          BY <2>1 DEF Filed
        <5> QED BY <3>3, <5>1 DEF Ext!ToSet
      <4>2. seen \subseteq ever
        BY <2>1 DEF Passed, Framed
      <4>3. CASE mode = "Keys"
        <5>1. page \in Seq(Keys \cup {Blank}) /\ \A a \in 1 .. Len(page) : page[a] # Blank => page[a] \in seen
          BY <2>5, <4>3 DEF Kept
        <5>2. DOMAIN page = 1 .. Len(page)
          BY <5>1
        <5>3. k \in seen
          BY <3>3, <5>1, <5>2, ToSetIs
        <5> QED BY <4>2, <4>3, <5>3 DEF Asks
      <4>4. CASE mode # "Keys"
        <5>1. Took(page, seen, mode, glob)
          BY <2>1, <4>1, <4>4 DEF Filed, Bounds
        <5> QED BY <3>3, <4>2, <5>1 DEF Took
      <4> QED BY <4>3, <4>4
    <3> QED BY <3>1, <3>2, <3>3
  <2>9. \A i, j \in 1 .. Len(page) : page[i] = page[j] /\ page[i] # Blank => i = j
    <3>1. CASE mode = "Keys"
      BY <2>5, <3>1 DEF Kept
    <3>2. CASE mode \in {"KEYS", "DictScan"}
      BY <2>1, <3>2 DEF Filed, Took
    <3>3. CASE mode = "none"
      BY <2>1, <3>3 DEF Filed
    <3> QED BY <2>1, <3>1, <3>2, <3>3 DEF Bounds
  <2>10. ASSUME Finished, always = atStart PROVE Blank \notin Ext!ToSet(page)
    <3>1. CASE mode = "Keys"
      <4>1. found = {} /\ count = Cardinality(atStart)
        BY <2>1, <2>10, <3>1 DEF Sized
      <4>2. \A k : Asks(mode, glob, k)
        BY <3>1 DEF Asks
      <4>3. atStart \subseteq seen
        BY <2>4, <2>10, <4>1, <4>2
      <4>4. count <= Cardinality(seen)
        BY <2>6, <3>1, <4>1, <4>3, FS_Subset
      <4>5. filled \in Nat /\ count \in Nat
        BY <2>1, <2>5, <3>1 DEF Bounds, Kept
      <4>6. ~ (filled < count)
        BY <2>5, <3>1, <4>4, <4>5 DEF Kept
      <4>7. page \in Seq(Keys \cup {Blank}) /\ \A a \in 1 .. Len(page) : page[a] # Blank
        BY <2>5, <3>1, <4>6 DEF Kept
      <4>8. DOMAIN page = 1 .. Len(page)
        BY <4>7
      <4> QED BY <4>7, <4>8, ToSetIs
    <3>2. CASE mode # "Keys"
      <4>1. Took(page, seen, mode, glob)
        BY <2>1, <2>10, <3>2 DEF Filed, Finished, Scanning, Bounds
      <4> QED BY <2>3, <4>1 DEF Took
    <3> QED BY <3>1, <3>2
  <2>11. ScanSound
    BY <2>2, <2>8, <2>9, <2>10 DEF ScanSound
  <2> QED BY <2>7, <2>11 DEF ScanExact
<1> QED BY <1>1, ScanInvariant, PTL

\* KEYS finds every name that its glob matches, and no other unless the glob
\* has a part [^a-b]: for every glob in the notation of execKeys' comment and
\* every name, CompilePattern and the table that IsMatch fills agree with the
\* cuts of the name into what the parts of the glob stand for.
THEOREM GlobsExact == Spec => []GlobExact
<1>1. ASSUME ScanInd PROVE GlobExact
  <2> SUFFICES ASSUME mode = "KEYS", NEW k \in Names
               PROVE  /\ WC!Matches(glob, k) => WC!IsMatch(pattern[glob], k)
                      /\ WC!IsMatch(pattern[glob], k) => WC!Matches(glob, k) \/ WC!NegatedRange(glob)
    BY DEF GlobExact
  <2>1. PICK g \in Globs : g = glob
    BY <1>1 DEF ScanInd, Bounds
  <2>2. WC!IsGlob(g) /\ k \in Seq(0 .. 255)
    BY GlobsAssumption, NamesAssumption
  <2>3. WC!IsMatch(WC!CompilePattern(WC!Notation(g)), k) <=> WC!Matches(TakenFor(g), k)
    BY <2>2, GlobMatch
  <2>4. /\ WC!Matches(g, k) => WC!Matches(TakenFor(g), k)
        /\ ~WC!NegatedRange(g) /\ WC!Matches(TakenFor(g), k) => WC!Matches(g, k)
    BY <2>2, GlobTaken
  <2>5. pattern[glob] = WC!CompilePattern(WC!Notation(g))
    BY <2>1 DEF pattern
  <2> QED BY <2>1, <2>3, <2>4, <2>5
<1> QED BY <1>1, ScanInvariant, PTL
=============================================================================
