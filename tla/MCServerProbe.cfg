SPECIFICATION FairSpec
CONSTANTS
    Contents = {"full", "empty"}
    StateCooldown = 1
    CacheCooldown = 2
    MaxAge = 4
INVARIANT
    TypeOK
PROPERTIES
    AnswersAreRecent
    RequestsAnswered
