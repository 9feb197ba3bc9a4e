SPECIFICATION PanelSpec
CONSTANTS
    Events = {e1}
    Consents = {c1}
    Publishers = {p0, p1, p2}
    BatchLimit = 1
    Refusable = {}
    Null = Null
    Puts = {r1, r2}
    Entries = {"", "redpanda:9092"}
    EnvProvider = "kafka"
    EnvBrokers = {""}
    Boot = p0
    ConnectMayFail = TRUE
INVARIANTS
    OneWorker
    InForceBetweenPuts
    SavedIsInForce
PROPERTIES
    FormComesBack
    PublishedUnlessDisturbed
CHECK_DEADLOCK FALSE
