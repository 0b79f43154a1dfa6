SPECIFICATION Spec
CONSTANTS
  a1 = a1
  a2 = a2
  Asns = {a1, a2}
  Prefix = {n1, n2}
  TaskLines <- Lines
  MaxLines = 2
  MaxAnswers = 2
  MaxLeaks = 1
  Addresses = {t1, t2}
  MaxItems = 1
  MaxCalls = 1
  Slots = 2
CHECK_DEADLOCK FALSE
INVARIANTS TypeOK FailuresStayLocal ReportsHaveTheirRows SpeedsBelongToEdges RecordsTellTheRun TempFilesHaveCause ScansAsPublished
PROPERTIES SignalStopsNewWork SignalStillEmits EveryCommandEnds
