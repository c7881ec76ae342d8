SPECIFICATION FairSpec
CONSTANTS
    p1 = p1
    p2 = p2
    None = None
    Pools <- MCPools
    Owners = {o1, o2, o3}
    PoolSize <- MCPoolSize
    Sizes = {1, 2}
    WordBits = 2
    MaxWords = 2
    MaxAccess = 1
    OutOfMemory = FALSE
    UlongMax = 9
INVARIANTS TypeOK PoolsSound ClientsKeepTheirs
PROPERTIES DefragAllocSucceeds TransferExhaustive LoopsEnd
