SPECIFICATION FairSpec
CONSTANTS
  Turns = {t1, t2}
  MaxTokens = 2
INVARIANTS SpokenInOrder CompleteMeansSpoken
PROPERTIES EveryTurnEnds
