SPECIFICATION MCPaperSpec
CONSTANTS
  InitialH = 1024  GrowPad = 512  Heading <- Headings  Rows = {1, 2, 30}  Block <- Blocks  MaxY = 2400
  Avail = 5  WordLen = {1, 2, 3}  MaxPieces = 4
  Kind <- Directives  Inline = {"plain", "bold", "underline", "big"}  Word <- SomeWords  Width = 6
  MaxLines = 2  LongKind = {"blank", "cut", "h1", "fence", "plain"}  MaxLong = 4  MaxWords = 3
  Paper <- Papers  User = {"u1", "u2"}  OptWidth <- Asked  Upload <- Uploads  Drawing <- Drawings
  Label = {0, 1212}  MaxRows = 2  MaxRestarts = 1
  Name = {"small", "real"}  Template <- Templates
  MazeSize = 3
  WordSize = 3  Words <- NatureWords  WordCount = 3
INVARIANTS   PicturesFit PuzzlesSound
