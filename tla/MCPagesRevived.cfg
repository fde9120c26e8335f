\* Two requests, one that deletes the persona and one that updates its post.
CONSTANTS
    Requests = {r1, r2}
    Dids = {a}
    Members = {m}
    Self = self
    Profiles = {f}
    Media = {k}
    Posts = {x}
    Empty = empty
SPECIFICATION Spec
SYMMETRY Symmetry
INVARIANT
    DeletedPersonaStays
