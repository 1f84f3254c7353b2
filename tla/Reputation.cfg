SPECIFICATION Spec
CONSTANTS
    new = new
    old = old
    a = a
    b = b
    c = c
    desk1 = desk1
    Wallets <- MCWallets
    Responses <- MCResponses
    Respondent <- MCRespondent
    Weighted <- MCTwoWeighted
    Submission <- MCSubmission
    Established <- MCEstablished
    StartScore = 15
    Desks <- MCOneDesk
    ModerateEarly = FALSE
    MaxModerations = 3
    MaxFailures = 1
INVARIANTS
    TypeOK
    RejectedNeverGains
    RaceStillScores
PROPERTIES
    ScoreMovesWithVerdicts
    ScoringEnds
CHECK_DEADLOCK FALSE
