\* One server; two wallets and two preferences, so that the link can be led
\* elsewhere under a notice that runs; a list of two receivers, so that one of
\* them can be passed over and the other not, or both entries name the same
\* persona.  One link is enough for one persona to be notifiable and one not,
\* in every order.
CONSTANTS
    Servers = {s1}
    Dids = {a, b}
    Legacy = {}
    Personas = {p, q}
    Prefs = {i, j}
    Links = {k}
    Tokens = {t}
    NoToken = none
    Notices = {n}
    MaxReceivers = 2
    MayFail = TRUE
    NotificationTypes = {message, system, post}
SPECIFICATION FairNoticesSpec
INVARIANTS
    NoticesTypeOK
PROPERTIES
    PushedIsStored
    PushWasWanted
    OnePushEach
    EveryReceiverPushed
