SPECIFICATION RecordsSpec
CONSTANTS
  YearSizes <- TwoYears
  TimetableSizes <- Slots
  EventSizes <- Fairs
  MarkSizes <- Sheets
  RollSizes <- Days
  ImportSizes <- Files
  SyllabusSizes <- Syllabuses
  AssignmentSizes <- Homework
  PlacementSizes <- Classes
  ReportSizes <- Runners
INVARIANTS
  RecordTypesOK
  TimesAgree
  EventAddsUp
  EditsAreTraced
  CourseworkAddsUp
  BatchesAreTrue
  PlacesAreExplained
CHECK_DEADLOCK FALSE
