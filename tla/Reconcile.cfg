CONSTANTS
    a = a
    b = b
    Nodes = {a, b}
    OnDisk <- Forked
    Numbered = 4
    MaxBlocks = 5
    MaxFailures = 2
    Seeds <- SeedsOfB
    MaxInvs = 1
SPECIFICATION FairSpec
INVARIANTS HashLinked
PROPERTIES
    CommonBlocksKept
    AdoptsTheAnnounced
    PeersAgree
    HeightsConverge
