SPECIFICATION FairSpec
CONSTANTS
  Links = {a, b}
  Fields = {key, data}
  Variables = {x}
  a = a
  b = b
  key = key
  data = data
  x = x
  Top = 3
  FieldMax = 2
  PassCeiling = 2
  NoWrap = NoWrap
  None = None
  Scripts <- ExchangeScripts
  Arriving <- ExchangeFrames
  Settings <- ExchangeSettings
  HeardCapacity = 2
  MaxArrivals = 3
INVARIANTS PassInv SameBytesToAll AsManyPassesAsAsked
PROPERTIES EveryTargetAnswered NothingLeftUnsent Heeded EndsInTime
