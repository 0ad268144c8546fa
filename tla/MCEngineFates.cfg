SPECIFICATION FairSpec
CONSTANTS
  link = link
  other = other
  script = script
  None = None
  Ids = {link, other}
  Scenarios = {script}
  Configs <- FateConfigs
  Offered <- FateOffers
  CommandCapacity = 1
  EventCapacity = 1
  NoticeCapacity = 2
  OutgoingCapacity = 1
  FailureCeiling = 2
  MaxGenerations = 1
  MaxLinks = 2
  MayQuit = TRUE
INVARIANTS
  TypeOK
  RefusedWithoutPeer
PROPERTIES EndIsNoticed DisconnectHonoured GivesUp QuitStops
