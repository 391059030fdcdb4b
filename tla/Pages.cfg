SPECIFICATION MCPagesSpec
CONSTANTS
  PageClicks = 3 PageChanges = 2 PageFails = 2
  Writing = {"text1", "text2"} WritingEdits = 5 WritingSends = 0
  Limit = 2 Cap = 1 MaySend = TRUE MayCapsule = TRUE MayFail = TRUE MaxRows = 3 MaxLoads = 1
  SavedStrips = {"s1"} Look = {"soft", "ink"} MaxFrames = 2 MaxFiles = 2 PhotoEdits = 4 MaxEncoding = 2
  SavedDrawings = {101} MaxStrokes = 3 MaxPoints = 2 DrawingSends = 1
  AutoCard = {"body", "file", "qr", "barcode"}
  ToolCard = {"body", "calendar", "now", "weather", "label"}
  PanelInputs = 4 PanelInFlight = 2 PanelMinutes = 1
  Message = {"m1", "m2"} Failing = {"list", "reveal", "retry"} LogClicks = 6 LogInFlight = 2
  Width = {384, 576} Base = {"b1", "b2"} Key = {"k1", "k2"} MaxPuzzles = 2 MaxRestarts = 2 MaxSwitches = 2
INVARIANTS PollsWhilePending WritingIsCurrent CapsulesListed StripWasShown UndoSound PanelIsCurrent
INVARIANTS LogHonest PrintsWhatWasShown
