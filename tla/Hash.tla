-------------------------------- MODULE Hash --------------------------------
(***************************************************************************)
(* datastruct/hash: fields and values, in a listpack (a slice of pairs)    *)
(* until there are many or one of them is long, in a map from then on.     *)
(***************************************************************************)
EXTENDS Strings, Sequences, FiniteSets

LOCAL Ext == INSTANCE SequencesExt

CONSTANT listpackMax   \* hashMaxListpackEntries

ASSUME ListpackMaxAssumption == listpackMax \in Nat

MakeHash == [encoding |-> "listpack", listpack |-> <<>>, dict |-> <<>>]

Fields(h) ==
    IF h.encoding = "listpack" THEN [i \in 1 .. Len(h.listpack) |-> h.listpack[i].field]
    ELSE Ext!SetToSeq(DOMAIN h.dict)

HashLen(h) == IF h.encoding = "listpack" THEN Len(h.listpack) ELSE Cardinality(DOMAIN h.dict)

HashExists(h, f) == f \in Ext!ToSet(Fields(h))

\* The first entry of the listpack with the field.
IndexOf(h, f) == Ext!SelectInSeq(h.listpack, LAMBDA e : e.field = f)

HashGet(h, f) == IF h.encoding = "listpack" THEN h.listpack[IndexOf(h, f)].value ELSE h.dict[f]

\* The hash as a function, as GetAll returns it.
GetAll(h) == [f \in Ext!ToSet(Fields(h)) |-> HashGet(h, f)]

HashConverted(h) == [encoding |-> "hashtable", listpack |-> <<>>, dict |-> GetAll(h)]

\* A full listpack is converted even if the field is there already.
HashSetField(h, f, v) ==
    LET full == Len(h.listpack) >= listpackMax \/ {f, v} \cap Long # {}
        g == IF h.encoding = "listpack" /\ full THEN HashConverted(h) ELSE h
    IN  IF g.encoding = "listpack"
        THEN IF HashExists(g, f) THEN [g EXCEPT !.listpack[IndexOf(g, f)].value = v]
             ELSE [g EXCEPT !.listpack = Append(@, [field |-> f, value |-> v])]
        ELSE [g EXCEPT !.dict = [x \in DOMAIN @ \cup {f} |-> IF x = f THEN v ELSE @[x]]]

\* The last entry of a listpack moves into the gap.
HashDelete(h, f) ==
    IF ~HashExists(h, f) THEN h
    ELSE IF h.encoding = "listpack"
    THEN [h EXCEPT !.listpack = Ext!Front([h.listpack EXCEPT ![IndexOf(h, f)] = Ext!Last(h.listpack)])]
    ELSE [h EXCEPT !.dict = [x \in DOMAIN @ \ {f} |-> @[x]]]
=============================================================================
