\* One server; two personas and three subscriptions, so that a pair can be
\* subscribed twice and each persona can subscribe to the other.
CONSTANTS
    Servers = {s1}
    Personas = {p, q}
    Ids = {i, j, k}
    Statuses = {approved, rejected}
    Approved = approved
    MayFail = TRUE
SPECIFICATION Spec
SYMMETRY Symmetry
INVARIANTS
    TypeOK
PROPERTIES
    CancelledStaysCancelled
    StatusChangesAlone
