SPECIFICATION Spec
CONSTANTS
    Blocks <- AllBlocks
    Contents <- MCContents
    ImageId <- MCImageId
    Nil = "nil"
    Blank = "blank"
INVARIANTS
    TypeOK
    BlocksIndependent
    NoMarkupLeft
    SpacesInPlace
    BestTextIndexed
    MediaOfContent
CHECK_DEADLOCK FALSE
