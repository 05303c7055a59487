SPECIFICATION FairSpec
CONSTANTS
    Instances <- MCInstances
    MaxItems = 2
    MaxCalls = 1
    MaxLimit = 2
    MaxCredit = 2
INVARIANTS PokesAreHeard
PROPERTIES ItemsAreReached
