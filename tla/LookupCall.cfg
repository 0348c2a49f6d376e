SPECIFICATION FairSpec
CONSTANTS
  Kinds = {"cgroups", "apps"}
  KeySeqs <- MCKeySeqs
  Answers <- MCAnswers
  Generations = 2
  Proposal = 64
  Grants = {24, 42, 64}
  Buffers = {40, 168, 232}
  Ceiling = 280
  OverflowLimit = 3
  MaxItems = 3
  MaxSubcalls = 2
  MaxBytes = 260
CHECK_DEADLOCK FALSE
INVARIANTS AnswersEveryKey RefusedForGenerationOnly ReserveHolds LongestPrefix
PROPERTIES CallReturns
