\* A legacy did and two others, so that a migration finds its target free or
\* taken; two rows of preferences for each of two wallets and personas, so that
\* a second row for one of them is possible.
CONSTANTS
    Servers = {s1}
    Dids = {old, a, b}
    Legacy = {old}
    Personas = {p, q}
    Prefs = {i, j}
    Links = {k, l}
    Tokens = {t}
    NoToken = none
    MayFail = TRUE
SPECIFICATION Spec
SYMMETRY Symmetry
INVARIANTS
    TypeOK
    OwnersHaveWallets
    OnePreferencePerWallet
    OneLinkPerPersona
PROPERTIES
    MigrationMovesItsOwn
    AtomicSpec
    LinkFollowsTransfer
