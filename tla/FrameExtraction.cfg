SPECIFICATION FairSpec
CONSTANTS
  Timelines <- MCTimelines
  Videos <- MCVideos
  FramesPerDay = 12
  NoVideo = NoVideo
  NoIndex = NoIndex
  Tolerance = 1
INVARIANTS
  WorkbookIsIllustrated
  ProgressAddsUp
  OnlyMissingFramesAreRefused
PROPERTIES
  StoppedExtractionWritesNothing
  ExportEnds
  ImplementsSessionWorker
CHECK_DEADLOCK FALSE
