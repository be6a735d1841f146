SPECIFICATION FairSpec
CONSTANTS
    Call = Call
    NoRecord = NoRecord
INVARIANTS
    ResultMeansJoined
    DefinitiveMeansNotStarted
    InterruptionIsTrue
    OkIsEarned
    DirectoriesAreHeld
PROPERTIES
    EveryCallIsAnswered
    CallImplementsLedger
