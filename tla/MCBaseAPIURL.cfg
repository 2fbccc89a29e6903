SPECIFICATION Spec
CONSTANTS
    h1 = h1
    h2 = h2
    h3 = h3
    Handler = {h1, h2, h3}
    Configured = {0, 1}
    MaxDocuments = 3
SYMMETRY Symmetry
INVARIANTS
    NeverPlainHttp
    HttpsIsKept
CHECK_DEADLOCK FALSE
