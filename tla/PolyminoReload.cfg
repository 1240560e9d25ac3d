CONSTANTS
    Letter = {"a"}
    Newline = "n"
    NoIndex = NoIndex
    MaxText = 5
    Pastes <- MCPastes
    Piece <- MCPiece
    MaxPieces = 3
    Payload <- MCPayload
    MaxParts = 2
    MaxFrames = 2
    TailKept = 3
    Rows = 3
    Cols = 2
    Shape <- MCShape
    Seeds = {1}
    Bag <- MCBag
    MaxShuffles = 3
    FileCells = 2
    MaxExports = 2
    None = None
    PipeHolds = 3
    PasteText <- MCPasteText
    MaxItems = 2
SPECIFICATION Spec
PROPERTY ReloadKeepsTheScore
