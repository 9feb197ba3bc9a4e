SPECIFICATION ReconfigFairSpec
CONSTANTS
    Events = {e1}
    Consents = {c1}
    Publishers = {p0, p1, p2}
    BatchLimit = 1
    Refusable = {}
    Null = Null
    Puts = {r1, r2}
    Entries = {""}
    EnvProvider = "kafka"
    EnvBrokers = {""}
    Boot = p0
    ConnectMayFail = FALSE
PROPERTIES
    CommitImpliesPublication
CHECK_DEADLOCK FALSE
