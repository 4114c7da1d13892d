CONSTANTS
    MaxConns = 2
    Devices = {d1, d2}
    MaxStarts = 2
SPECIFICATION FairSpec
INVARIANT TypeOK
INVARIANT EntryHasReceiver
INVARIANT NewestIsListed
INVARIANT OnlyReconnectsHide
INVARIANT UnreachableWasReplaced
PROPERTY EndedConnectionIsUnlisted
PROPERTY OnlySilenceStalls
CHECK_DEADLOCK FALSE
