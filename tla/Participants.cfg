SPECIFICATION Spec
CONSTANTS
    p = p
    q = q
    g = g
    h = h
    Ids = {p, q}
    Groups = {g, h}
    Budget <- SmallBudget
SYMMETRY Symmetry
INVARIANTS
    TypeOK
    ParticipantsTrue
    InputsFindTheirParticipant
CHECK_DEADLOCK FALSE
