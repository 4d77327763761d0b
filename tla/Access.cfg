SPECIFICATION Spec
CONSTANTS
    Calls = {c1, c2, c3}
    Users = {u1, u2}
    NoToken = NoToken
    Nobody = Nobody
    Removed = Removed
SYMMETRY Symmetry
CHECK_DEADLOCK FALSE
INVARIANTS
    TypeOK
    OnlyEntitledSucceed
