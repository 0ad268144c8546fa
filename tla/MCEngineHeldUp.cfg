SPECIFICATION FairSpec
CONSTANTS
  link = link
  other = other
  script = script
  None = None
  Ids = {link}
  Scenarios = {}
  Configs <- ForeverConfigs
  Offered <- ForeverOffers
  CommandCapacity = 1
  EventCapacity = 1
  NoticeCapacity = 2
  OutgoingCapacity = 1
  FailureCeiling = 1
  MaxGenerations = 1
  MaxLinks = 1
  MayQuit = FALSE
PROPERTIES
  DisconnectNeverHeldUp
