CONSTANTS
    Answers <- MCAnswers
    MaxToolSignatures = 4
    MaxFailedWrites = 1
    Routes <- MCRoutes
    Questions <- MCQuestions
    OptionsOf <- MCOptionsOf
SPECIFICATION ConversationSpec
INVARIANTS
    TypeOK
    StreamLegal
    NoFalseSuccess
    CallsKept
    SignatureKept
    ReasonKept
    UsageRecorded
    UsageKept
    LoopCloses
    WordsSent
    PlainGoesOn
    SignaturesRestored
    SignaturesRight
    OptionsKept
PROPERTY Relayed
CHECK_DEADLOCK FALSE
