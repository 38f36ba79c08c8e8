\* A call over at most three files in batches of two; one retry of a step, two of a batch.
SPECIFICATION FairSpec
CONSTANTS
    MaxFiles = 3
    BatchSize = 2
    Retries <- OneRetry
    BatchAttempts = 3
INVARIANTS NoFileLeftOut
PROPERTIES OnlyTheLiveIsHeard EveryCallReturns LoopsEnd
CHECK_DEADLOCK FALSE
