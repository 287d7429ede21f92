SPECIFICATION Spec
PROPERTY ChallengesAreAnswered
CHECK_DEADLOCK FALSE
