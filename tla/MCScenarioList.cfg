SPECIFICATION Spec
CONSTANTS
  FieldsOf <- MCFieldsOf
  FrameOrder <- MCFrameOrder
  Spelled <- MCSpelled
  NoName = ""
  NoFrame = "none"
  Fronts = {"desktop", "terminal"}
  Files <- MCFiles
  FileOf <- MCFileOf
  Folders <- MCFolders
  Projects <- MCProjects
  Variables <- MCVariables
  Links <- MCLinks
  Words <- MCWords
  NewName = "Poll"
  MaxSteps = 3
  MaxEdits = 2
  MaxChanges = 2
  MaxStarts = 1
  None = None
  Unparsed = Unparsed
 
PROPERTIES  MovesLeaveNoGap
