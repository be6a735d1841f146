SPECIFICATION FairSpec
CONSTANTS
    Clients = {c1}
    MaxReadBytes = 2
    MaxLength = 3
    MaxChanges = 2
    None = None
INVARIANTS
    AnswerIsOfOneContent
    PagesJoin
PROPERTIES
    NoLostUpdate
    PagingEnds
