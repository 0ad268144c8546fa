SPECIFICATION Spec
CONSTANTS
  here = here
  there = there
  link = link
  None = None
  Fronts = {"desktop", "terminal"}
  Paths = {here, there}
  Links = {link}
  Disks <- SomeDisks
  MaxTabs = 3
  MaxEdits = 2
  MaxRefused = 1
INVARIANTS TerminalFaithful
PROPERTIES AskedFirst TabsKept
CHECK_DEADLOCK FALSE
