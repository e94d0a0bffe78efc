SPECIFICATION FairSpec
CONSTANT Goal = 3
INVARIANT OneAnswerPerRound
PROPERTY GameEnds
CHECK_DEADLOCK FALSE
