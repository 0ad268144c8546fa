SPECIFICATION WireSpec
CONSTANTS
  Top = 5
  PassCeiling = 7
  NoWrap = NoWrap
  ByteBits = 2
  Absent = Absent
  Frames <- AllFrames
INVARIANTS FramesGoThrough ChecksumsTell InsideItsSpan
PROPERTIES CountsOn
