------------------------------ MODULE Strings -------------------------------
(***************************************************************************)
(* The strings that commands take as members, fields and values.  They are *)
(* opaque: parse is what strconv.ParseInt makes of one, format what        *)
(* strconv.FormatInt writes, order how Go compares them, Long the ones     *)
(* that are too long for a listpack.                                       *)
(***************************************************************************)
EXTENDS Integers

CONSTANTS
    Members,
    NotInt,    \* what is no integer
    parse,     \* the integer that a string stands for, or NotInt
    format,    \* the string that is written for an integer
    order,     \* the rank of a string among them
    Long       \* longer than hashMaxListpackValue

ASSUME NotIntAssumption == NotInt \notin Int
ASSUME ParseAssumption == DOMAIN parse = Members /\ \A m \in Members : parse[m] \in Int \cup {NotInt}
ASSUME FormatAssumption ==
    \A m \in Members : parse[m] # NotInt =>
        LET written == format[parse[m]] IN written \in Members /\ parse[written] = parse[m]
ASSUME OrderAssumption ==
    order \in [Members -> Nat] /\ \A m, n \in Members : order[m] = order[n] => m = n
=============================================================================
