\* Two names and two addresses for them, room for one in the cache.
SPECIFICATION FairSpec
CONSTANTS
    Domains = {d1, d2}
    Ips = {i1, i2}
    Ports = {53}
    Senders = {c, other}
    InboxLimit = 1
    CacheLimit = 1
    TTL = 1
    MaxIn = 3
    MaxBack = 1
    None = None
INVARIANTS RelayedOnce
PROPERTIES DestFresh AssocEnds
