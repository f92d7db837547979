\* Up to three messages, one of them torn.
CONSTANTS
    Messages <- MCMessages
    Null = Null
    NotInt = NotInt
    MaxSent = 3
    MaxTorn = 1
SPECIFICATION Spec
INVARIANTS
    ParserInv
PROPERTIES
    EndsWithAll
CHECK_DEADLOCK FALSE
