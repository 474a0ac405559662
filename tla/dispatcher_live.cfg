SPECIFICATION PairSpec
CONSTANTS
    m1 = m1
    m2 = m2
    m3 = m3
    alice = alice
    bob = bob
    link = link
    blank = blank
    site = site
    empty = empty
    Workers = {w1}
    Handlers = {h1}
    Messages = {m1, m2}
    Users = {alice, bob}
    Texts <- AllTexts
    Domains = {site}
    Sender <- PairSender
    Text <- PairText
    NoText = empty
    Blanks = {blank}
    Triggers = {link}
    BadContext = {link}
    DomainsIn <- Links
    QueueSize = 1
    WarnThreshold = 2
    Silent = FALSE
    MaxAttempts = 2
    FilterEnabled = TRUE
    FilterAction = "delete"
    ChatModes = {"none", "ban"}
    NoOwner = NoOwner
    None = None
    MaxTransfers = 1
PROPERTIES
    QueuedHandled
    ShutdownCompletes
    LessonLearned
CHECK_DEADLOCK FALSE
