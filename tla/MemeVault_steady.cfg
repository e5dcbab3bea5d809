\* Two ids, the second in use at first, and the empty id that a cut edit form
\* leaves (0); one new meme in each life of the server, any number of lives; one
\* open edit page; one leaked connection before the handler cannot open its files.
SPECIFICATION Spec
CONSTANTS
    Contents = {"cat"}
    Blank = "cut"
    Partial = "cut"
    Id = {0, 10000, 10001}
    MaxDraws = 20
    MaxForms = 1
    Descriptors = 1
    SeedRows <- SecondRow
INVARIANTS TypeOK AnswerIsStored
PROPERTIES NewMemeIsFresh TokenKeepsWorking TokenStaysGone PagesStayCurrent ImplementsStore
