CONSTANTS
    Prefixes = {pfxA, pfxB}
    Pkeys = {keyA, keyB}
    SpeedBytes <- MCSpeedBytes
    MadMayFail = TRUE
    JoinMayFail = TRUE
    NoPrefix = NoPrefix
    DefaultPkey = DefaultPkey
SPECIFICATION Spec
INVARIANT TypeOK
INVARIANT BroadcastGroupCurrent
INVARIANT LinkUpOnlyWhenJoined
PROPERTY JoiningResolves
