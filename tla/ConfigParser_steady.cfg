SPECIFICATION Spec
CONSTANTS
    Chars <- Full
    Bounds <- Files
INVARIANTS
    TypeOK
    OpenChain
    BackIsUnderWay
    RoundTrip
    MakesTrees
    AcceptsTheGrammar
    TokensAreWhole
PROPERTY ParseEnds
CHECK_DEADLOCK FALSE
