\* Nothing fails or dies, the parameter strings stay valid, and the driver is
\* the one of go.mod: liveness of the cleanup and of the answers.
CONSTANTS
    Servers = {s1}
    Rooms = {a, b}
    Personas = {p, q}
    Messages = {m, n}
    IdsRepeat = FALSE
    Elsewhere = Elsewhere
    BuffersReused = FALSE
    BindsSlices = FALSE
    MayFail = FALSE
    MayCrash = FALSE
SPECIFICATION FairSpec
PROPERTIES
    ReadMessagesRemoved
    TakersServed
