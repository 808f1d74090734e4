SPECIFICATION GlooxSpec
CONSTANTS
    Streams <- MCStreams
    Tags <- MCTags
    Declared <- MCDeclared
    Piece = 3
    MaxLosses = 1
    Handlers = {h1, h2}
    MaxNodes = 4
    MaxWalks = 2
    Nicks = {n1, n2}
    NoNick = NoNick
    MaxRequests = 3
CHECK_DEADLOCK FALSE
INVARIANTS GlooxTypeOK ReadAsWritten PiecesDoNotMatter UndefinedBy ToldOnce RoomUnderstood OperationsEnd
SYMMETRY Symmetry
