SPECIFICATION FairSpec
CONSTANTS
    ThreadCount = 3
    Seed = 5
    Solving <- MCSolving
    MaxTries = 2
    MaxCalls = 2
INVARIANTS MinerTypeOK OneSolution ThreadCountExact NoNonceTwice
PROPERTIES FoundReturns ThreadsStop
