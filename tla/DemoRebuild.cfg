SPECIFICATION FairSpec
CONSTANTS
    t1 = t1  t2 = t2  s1 = s1
    Threads = {t1, t2}  Scripts = {s1}  Poller = t1
    MaxInode = 5  TTL = 2  Mixes <- Shared
INVARIANT NeverHalfBuilt
INVARIANT CacheHonest
PROPERTY Heals
