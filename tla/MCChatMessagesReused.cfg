\* As MCChatMessagesFair, with the strings as fiber hands them out.
CONSTANTS
    Servers = {s1}
    Rooms = {a}
    Personas = {p, q}
    Messages = {m}
    IdsRepeat = FALSE
    Elsewhere = Elsewhere
    BuffersReused = TRUE
    BindsSlices = FALSE
    MayFail = FALSE
    MayCrash = FALSE
SPECIFICATION FairSpec
PROPERTIES
    ReadMessagesRemoved
