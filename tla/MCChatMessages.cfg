\* One server, everything that can go wrong: the assumptions of the other runs
\* are special cases of this one.
CONSTANTS
    Servers = {s1}
    Rooms = {a, b}
    Personas = {p, q}
    Messages = {m, n}
    Elsewhere = Elsewhere
    IdsRepeat = TRUE
    BuffersReused = TRUE
    BindsSlices = TRUE
    MayFail = TRUE
    MayCrash = TRUE
SPECIFICATION Spec
SYMMETRY Symmetry
INVARIANTS
    TypeOK
    ReadOnce
    LeavesByOwnFetch
PROPERTIES
    DeletedWhenTaken
    LastOnlyAdvances
    MailboxSpec
