SPECIFICATION Spec
CONSTANTS
    Conns = {c1, c2, c3}
    Pointers = {p1, p2, p3}
    Sockets = {s1, s2, s3}
    None = None
SYMMETRY Symmetry
CHECK_DEADLOCK FALSE
INVARIANTS WorkersKeepTheirConnection
