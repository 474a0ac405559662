SPECIFICATION Spec
CONSTANTS
    Workers = {w1}
    Strays = {s1}
    Main = main
    Reminder = reminder
    QueueCap = 1
    Webhook = TRUE
    MaxOutages = 1
PROPERTY WaitReturns
CHECK_DEADLOCK FALSE
