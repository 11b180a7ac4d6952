SPECIFICATION ReceiptSpec
CONSTANTS
  Int64Max = 2147483647
  NoTimestamp = NoTimestamp
  NoIndex = NoIndex
  Nothing = Nothing
  Absent = Absent
  Unreadable = Unreadable
  Tolerance = 1
  PerSecond = 1000
  Timelines <- MCTimelines
  Recordings <- MCRecordings
  Writers <- MCWriters
  Packing <- MCPacking
  Media <- MCMedia
  Targets <- MCTargets
INVARIANTS
  ProtocolIsKept
  SeekIsNotLate
  AcceptedVideoShowsTheTimeline
  FaithfulRendersAreAccepted
PROPERTIES
  ImplementsFrameStream
  ReadsEnd
CHECK_DEADLOCK FALSE
