CONSTANTS
    red = red
    green = green
    blue = blue
    Rest = Rest
    Undefined = Undefined
    BytesPerPixel = 2
    ZrleBytesPerPixel = 1
    HextileSize = 2
    ZrleSize = 2
    RunByte = 2
    PackedTogether = TRUE
    TileIndices = 16
    MaxSubrectangles = 2
    MaxCompressedSize = 30
    Width = 3
    Height = 3
    MaxReceiveBufferSize = 16
    MaxCutTextSize = 4
    Scripts <- AllScripts
    MaxConnections = 2
SPECIFICATION Spec
INVARIANTS NothingLeftUnparsed BufferHasRoom
PROPERTY ShownAsMeant
CHECK_DEADLOCK FALSE
