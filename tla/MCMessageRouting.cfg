SPECIFICATION MCSpec
CONSTANT
    Uuid = {u1}
INVARIANTS
    WrittenIsDeletable
    RepublishKeepsType
    DocumentsAreCollected
CHECK_DEADLOCK FALSE
