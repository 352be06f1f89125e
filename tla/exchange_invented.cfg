CONSTANTS
    Answers <- MCAnswers
    MaxToolSignatures = 4
    MaxFailedWrites = 1
    Routes <- MCRoutes
    Questions <- MCQuestions
    OptionsOf <- MCOptionsOf
SPECIFICATION ConversationSpec
INVARIANT NoInventedCalls
CHECK_DEADLOCK FALSE
