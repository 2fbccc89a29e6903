SPECIFICATION Spec
CONSTANTS
    None = None
    Missing = Missing
    Unset = Unset
    Concept <- MCConcept
    TmeID <- MCTmeID
    Events <- MCEvents
INVARIANTS
    TypeOK
    EntriesExact
    NoForeignIDs
    FieldsExact
    SectionConsistent
    ThemeConsistent
CHECK_DEADLOCK FALSE
