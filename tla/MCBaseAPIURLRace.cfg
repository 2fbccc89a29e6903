SPECIFICATION Spec
CONSTANTS
    h1 = h1
    h2 = h2
    h3 = h3
    Handler = {h1, h2, h3}
    Configured = {0, 1}
    MaxDocuments = 1
SYMMETRY Symmetry
INVARIANT
    EveryDocumentHttps
CHECK_DEADLOCK FALSE
