\* Three requests whose statements interleave in every order, on a persona that
\* begins with a profile or without, with media or without; two dids, so that
\* it can be given away, and a member whose role changes at any moment.
CONSTANTS
    Requests = {r1, r2, r3}
    Dids = {a, b}
    Members = {m}
    Self = self
    Profiles = {f, g}
    Media = {k}
    Posts = {x}
    Empty = empty
SPECIFICATION Spec
SYMMETRY Symmetry
INVARIANTS
    PagesTypeOK
    DeletedStays
    ProfilesHavePersonas
PROPERTIES
    ChangesPermitted
    UpdatesAreReal
