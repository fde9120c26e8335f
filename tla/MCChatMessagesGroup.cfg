\* A message to two receivers, with the driver of go.mod; nothing fails by
\* itself.
CONSTANTS
    Servers = {s1}
    Rooms = {a}
    Personas = {p, q}
    Messages = {m}
    IdsRepeat = FALSE
    Elsewhere = Elsewhere
    BuffersReused = FALSE
    BindsSlices = FALSE
    MayFail = FALSE
    MayCrash = FALSE
SPECIFICATION Spec
PROPERTIES
    ReaderRemoved
