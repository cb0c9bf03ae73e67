CONSTANTS
    Names <- MCNames
    X = "x"
    Data = {"d"}
    Globals = {"g"}
    Global0 = "g"
    Subs <- MCSubs
    Locals <- MCLocals
    NbParam <- MCNbParam
    Val = {0, 1}
    MaxDepth = 3
    MaxLets = 2
    NumLocal = 500
    MaxWork = 5
SPECIFICATION Spec
INVARIANTS MapOfCall IndicesPartition IndicesComeBack CellsExist ReadsAgree
PROPERTY LexicalScopes
CHECK_DEADLOCK FALSE
