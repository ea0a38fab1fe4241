CONSTANTS
    Handlers = {h1, h2, h3}
    Envelopes = {n1, n2}
    Artifacts = {a1}
    QueryOf <- MCQueryOf
    NONE = NONE
    n3 = n3
    q1 = q1
    q2 = q2
SYMMETRY Symmetry
SPECIFICATION Spec
INVARIANTS TypeOK LateCopiesRefused RefusedMeansRan AdmissionInv
