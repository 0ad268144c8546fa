SPECIFICATION Spec
CONSTANTS
  one = one
  other = other
  mode = mode
  flags = flags
  seq = seq
  typo = typo
  Wrong = Wrong
  None = None
  Clients = {one, other}
  Fields = {mode, flags, seq, typo}
  Kinds <- FieldKinds
  Numbers = {1, 2}
  Steps <- WaitThenSend
  Requests <- Rivals
  Autoconnect = 1
  Times = 2
  CommandCapacity = 1
  EventCapacity = 1
  OutgoingCapacity = 1
  MaxRequests = 1
  MaxHeard = 1
  MaxFalls = 1
INVARIANTS ValuesCount
PROPERTIES EveryRequestAnswered RunIsReported
CHECK_DEADLOCK FALSE
