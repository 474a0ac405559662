SPECIFICATION MCSpec
CONSTANTS
    Commands <- Two
    Requests <- AllRequests
    Chats <- AllChats
    Global = "everywhere"
    Args <- Spellings
    NoArg = ""
    Canon <- Canonical
    Core <- CoreWords
    MaxLessons = 1
    MaxRights = 1
    Posts <- AllPosts
    PostChat <- Where
    Mentions <- Says
    Suspect <- AllPosts
    GlobalOn = TRUE
    GlobalAction = "delete"
    GlobalAllow <- Blank
INVARIANTS RemovedStaysOut AddedUnlessRemoved ChangedByAdmins PunishedAsSet SparedAsSet
PROPERTY TidiedUp
CHECK_DEADLOCK FALSE
