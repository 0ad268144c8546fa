SPECIFICATION Spec
CONSTANTS
  beat = beat
  order = order
  long = long
  first = first
  second = second
  third = third
  None = None
  Fronts = {"desktop", "terminal"}
  Frames = {beat, order, long}
  Defs = {first, second, third}
  Size <- Lengths
  Filters <- Typed
  MaxLog = 2
  MaxFrames = 5
PROPERTIES FrozenHolds ReadingHolds
