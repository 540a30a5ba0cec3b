SPECIFICATION FairSpec
CONSTANTS
    Conns = {c1, c2, c3, c4}
    NoConn = NoConn
    MAX_CONNECTION_NUM = 2
INVARIANTS
    TypeOK
    LimitHolds
    SessionsHavePlayers
    NoNullSession
PROPERTIES
    FullForGood
    ConnectsAnswered
    HeartbeatGoesOn
CHECK_DEADLOCK FALSE
