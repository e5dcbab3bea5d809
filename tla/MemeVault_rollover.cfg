\* The sixth digit: ids 99998 to 100001, three new memes in one life.
SPECIFICATION Spec
CONSTANTS
    Contents = {"cat"}
    Blank = "blank"
    Partial = "partial"
    Id = {10000, 99998, 99999, 100000, 100001}
    MaxDraws = 34
    MaxForms = 0
    Descriptors = 1
    SeedRows <- OldRows
PROPERTY NewMemeIsFresh
