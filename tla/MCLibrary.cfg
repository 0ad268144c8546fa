SPECIFICATION Spec
CONSTANTS
  FrameFile <- MCFrameFile
  TypeFile <- MCTypeFile
  FrameFiles <- MCFrameFiles
  TypeFiles <- MCTypeFiles
  Paths <- MCPaths
  Owns <- MCOwns
  Subtypes <- MCSubtypes
  Refused <- MCRefused
  Folders <- MCFolders
  NewFrame <- MCNewFrame
  NewType <- MCNewType
  MaxEdits = 2
  MaxChanges = 2
  MaxFailures = 1
  None = None
INVARIANTS LibraryHolds
PROPERTIES NothingLost 
