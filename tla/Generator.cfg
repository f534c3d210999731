CONSTANTS
    ApiDefs <- AllApiDefs
    Nodes <- AllNodes
    Height <- HeightOf
    Depth = 5
    Width = 3
    IntTexts = {"1"}
    FloatTexts = {"1", "1.5"}
SPECIFICATION Spec
INVARIANTS
    TypeOK
    MergeIsByPath
    MasksSelectEntries
    RenderersNeverFail
CHECK_DEADLOCK FALSE
