SPECIFICATION Spec
CONSTANTS
  link = link
  other = other
  script = script
  None = None
  Ids = {link}
  Scenarios = {script}
  Configs <- NameConfigs
  Offered <- NameOffers
  CommandCapacity = 1
  EventCapacity = 2
  NoticeCapacity = 2
  OutgoingCapacity = 1
  FailureCeiling = 1
  MaxGenerations = 2
  MaxLinks = 1
  MayQuit = TRUE
INVARIANTS NoOrphanTask NoDeadHolder FreedBeforeAnnounced LastWord
PROPERTIES KeepsSlots
