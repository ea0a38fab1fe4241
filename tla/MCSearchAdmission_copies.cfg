CONSTANTS
    Handlers = {h1, h2}
    Envelopes = {n1, n3}
    Artifacts = {}
    QueryOf <- MCQueryOf
    NONE = NONE
    n3 = n3
    q1 = q1
    q2 = q2
SYMMETRY Symmetry
SPECIFICATION Spec
INVARIANTS RunsOnce
