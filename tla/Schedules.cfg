CONSTANTS
  MonthLengths <- MCMonthLengths
  UnitSeconds <- MCUnitSeconds
  Zones <- MCZones
  WeekLength = 3
  DayLength = 5
  MaxPerDay = 3
  None = None
  Blank = Blank
  Names = {None, "a"}
  Texts = {None, Blank, "t"}
  FormTimes = {None, 1, 3}
  FormDates = {None, 0, 4, 99}
  FormNumbers = {None, 0, 2, 9}
  Largest <- MCLargest
  FormDays = {1, 2}
  FormZones <- MCFormZones
  FormNths <- MCFormNths
  MaxTouched = 4
  StartDates = {0, 4, 13}
  Ends <- MCEnds
  Froms = {0, 22}
  Tos = {24, 90}
  Limits = {2, 99}
  Nows <- MCNows
SPECIFICATION Spec
INVARIANTS
  AnswersTheSchedule
  CollisionsComplete
  PanelAgreesWithRefusal
  SummaryIsExact
  ReviewedHasNoProblems
  PreviewIsWhatIsSaved
  EditKeepsAlarm
