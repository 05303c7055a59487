SPECIFICATION FairSpec
CONSTANTS
    p1 = p1
    p2 = p2
    t1 = t1
    t2 = t2
    a = a
    b = b
    None = None
    Producers <- TwoProducers
    Takers <- TwoTakers
    Ids <- TwoIds
    NumShards = 2
    Shard <- OwnShards
    Priorities = {0, 1}
    MaxItems = 4
    Setups <- SmallSetups
    MaxPurges = 1
INVARIANTS IdsMatchItems ChannelSound
PROPERTIES TakesFirst GroupsComplete
CHECK_DEADLOCK FALSE
