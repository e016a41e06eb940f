SPECIFICATION FairSpec
CONSTANTS
    Chars <- OneLetter
    SecretLimit = 1
    Requests = {"r1", "r2"}
    Identities <- Users
    Me = "me"
    Offers <- AllOffers
    Password <- Passwords
    OutputSize = 3
    Revocable = {"r1"}
    MaxRounds = 2
    MaxFailures = 1
INVARIANTS
    TypeOK
    GrantsAreEarned
    EveryRequestIsCarried
PROPERTIES
    AnswersArriveWhole
    CallbacksFindLive
    EveryRequestAnswered
CHECK_DEADLOCK FALSE
