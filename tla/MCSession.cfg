SPECIFICATION SessionSpec
CONSTANTS
  link = link
  script = script
  None = None
  Ids = {link}
  Scenarios = {script}
  Configs <- Clients
  Offered = {}
  Projects = {}
  CommandCapacity = 2
  EventCapacity = 1
  NoticeCapacity = 2
  OutgoingCapacity = 1
  FailureCeiling = 1
  MaxGenerations = 2
  MaxLinks = 1
  MayQuit = TRUE
  MayRefuse = FALSE
INVARIANTS SessionInv ShownIsHeld
