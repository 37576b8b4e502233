SPECIFICATION HistorySpec
VIEW AnswerView
SYMMETRY AnyChange
CONSTANTS
  Readers = {own, other}
  Own = own
  Changes = {rise, fall}
  MaxEvents = 3
  Limit = 2
  DayLength = 4
  Opening = 0
  MinuteLength = 2
  MaxTime = 4
  None = None
PROPERTIES NewestFirst NewestAnswered PairsNeverGoBack
