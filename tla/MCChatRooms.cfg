\* One server process: its handlers are serialised by the gate.  Two rooms, so
\* that a pair can be given a second one; a third persona, so that a direct
\* room can become a group and a group a direct room.
CONSTANTS
    Servers = {s1}
    Rooms = {a, b}
    Personas = {p, q, x}
    MaxInvited = 2
SPECIFICATION Spec
SYMMETRY Symmetry
INVARIANTS
    TypeOK
PROPERTIES
    CreatesOnlyIfAbsent
    RoomsAppearWhole
