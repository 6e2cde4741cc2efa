SPECIFICATION Spec
CONSTANTS
    Parts = {"properties", "ducet", "tables", "text", "decomposition", "xml"}
    PropertyBundles <- MCPropertyBundles
    DucetCores <- MCDucetCores
    DucetFiles <- MCDucetFiles
    DucetSequences <- MCDucetSequences
    SegmentFiles <- MCSegmentFiles
    SegmentAtoms <- MCSegmentAtoms
    CharacterProperty <- MCCharacterProperty
    CharacterWidth <- MCCharacterWidth
    SegmentTexts <- MCSegmentTexts
    SpanEmissions <- MCSpanEmissions
    SpanEvents <- MCSpanEvents
    XmlTexts <- MCXmlTexts
INVARIANTS
    UnicodeTablesAreExact
    TextFollowsRules
    DecompositionIsComplete
    XmlIsTiled
PROPERTY
    CallsEnd
CHECK_DEADLOCK FALSE
