SPECIFICATION Spec
CONSTANTS
    Half = 4
    CodeLen = 2
    Attempts = 2
    Digits = {6}
    Letters = {7}
    Taken <- TakenCodes
    MaxLen = 6
INVARIANTS
    TypeOK
    HonestServed
    OutcomeInBytes
\* A request is parsed once.
CHECK_DEADLOCK FALSE
