SPECIFICATION RowSpec
CONSTANTS
    m1 = m1
    m2 = m2
    m3 = m3
    alice = alice
    bob = bob
    link = link
    blank = blank
    site = site
    empty = empty
    Workers = {w1, w2}
    Handlers = {}
    Messages = {m1, m2, m3}
    Users = {alice, bob}
    Texts <- AllTexts
    Domains = {site}
    Sender <- RowSender
    Text <- RowText
    NoText = empty
    Blanks = {blank}
    Triggers = {link}
    BadContext = {}
    DomainsIn <- Links
    QueueSize = 2
    WarnThreshold = 2
    Silent = TRUE
    MaxAttempts = 1
    FilterEnabled = TRUE
    FilterAction = "ban"
    ChatModes = {"none"}
    NoOwner = NoOwner
    None = None
    MaxTransfers = 0
SYMMETRY Perms
INVARIANTS
    TypeOK
    LearnedFromBans
    KnownNotSpared
    WarningsInARow
    OwnerNotTried
PROPERTY ModerationKept
CHECK_DEADLOCK FALSE
