SPECIFICATION Spec
CONSTANTS
    Names <- FewNames
    Tops <- AllTops
    Retyped <- OneRetyped
    Terms <- AllTerms
INVARIANTS
    TypeOK
    RowsAreEncoded
    ViewShowsSent
    EditShowsSent
    SearchMissesNothing
PROPERTY EditKeepsRow
