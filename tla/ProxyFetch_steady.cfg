\* Eleven answers, bodies of five parts cut anywhere.  A fetch really ends.
SPECIFICATION FairSpec
CONSTANT Answers <- AllAnswers
INVARIANTS TypeOK NothingLost OnePieceIsExact LinksRewritten
PROPERTY FetchEnds
CHECK_DEADLOCK FALSE
