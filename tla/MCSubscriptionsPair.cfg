\* A pair subscribes again; nothing fails.
CONSTANTS
    Servers = {s1}
    Personas = {p, q}
    Ids = {i, j}
    Statuses = {approved, rejected}
    Approved = approved
    MayFail = FALSE
SPECIFICATION Spec
INVARIANTS
    OneSubscriptionPerPair
