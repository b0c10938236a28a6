SPECIFICATION EngineSpec
CONSTANTS
  MaxStepOccurrences = 4
  Durations = {1, 2}
  MaxSteps = 2
  MaxRepeat = 3
  MaxOffset = 7
  Limits = {2, 9}
INVARIANTS AnswersTheChain FinishedMeansNothingLeft UnfinishedHasNext
