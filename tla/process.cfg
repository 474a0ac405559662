SPECIFICATION PartSpec
CONSTANTS
    MaxEdits = 4
    PingMaxAttempts = 6
    PingRetryDelay = 2
    DbInitTimeout = 30
    MaxPing = 30
    Workers = {w1, w2}
    Strays = {s1}
    Main = main
    Reminder = reminder
    QueueCap = 1
    Webhook = TRUE
    MaxOutages = 1
INVARIANTS
    LoggerAsConfigured
    DatabaseAwaited
    TypeOK
    OneAlertPerIncident
    PanicOnlyFromStrays
    StoreOutlivesWorkers
PROPERTY SignalEndsProcess
CHECK_DEADLOCK FALSE
