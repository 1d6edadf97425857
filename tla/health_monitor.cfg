SPECIFICATION FairSpec
CONSTANTS
    Component = {c1}
    Conn = {k1, k2}
    NoConn = NoConn
    Policies <- MCTwoPolicies
    DefaultPolicy <- MCPolicy
    RecoverRequests <- MCRequests
    NoRequest = NoRequest
    PipeCapacity = 1
INVARIANTS TypeOK MissesMatchStatus HandlerIsTold
PROPERTIES Refines SilenceIsFatal DeathIsReported
