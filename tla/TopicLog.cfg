SPECIFICATION FairSpec
CONSTANTS
    p1 = p1
    p2 = p2
    s1 = s1
    s2 = s2
    None = None
    Publishers <- TwoPublishers
    Subs <- TwoSubs
    Owner = s1
    Chunk = 1
    Limits = {0, 1}
    MaxPayloads = 2
INVARIANTS PositionsAgree
PROPERTIES ImplementsFanout NobodyLeftBehind
