\* A lifetime of one hour for visitors and of two for accounts, dates before, at and after
\* each other's ends, not all of them on the minute. The clock is bounded, so the run may
\* stop.
CONSTANTS
  Minute = 2
  Hour = 4
  Year = 1
  MaxHours = 2
  DefaultHours = 1
  Dates = {3, 4, 6}
  LastTime = 7
  None = None
  Blank = Blank
  NoLink = NoLink
  NoTab = NoTab
  PerHour = 4
  Nows <- MCNows
SPECIFICATION ScheduleSpec
INVARIANTS  EachClickCountedOnce
PROPERTIES AcceptedLinksCanOpen UntouchedSaveKeepsExpiry
CHECK_DEADLOCK FALSE
