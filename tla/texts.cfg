SPECIFICATION Spec
CONSTANTS
    Names = {"shop"}
    TLDs = {"com"}
    MaxTokens = 7
    Phrases <- OnePhrase
    MaxMarks = 5
    SampleMaxLen = 3
    MaxRunes = 3
    MaxBans = 2
INVARIANTS
    LinksFound
    LevelledAlike
    BansTeach
CHECK_DEADLOCK FALSE
