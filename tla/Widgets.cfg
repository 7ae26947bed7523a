SPECIFICATION Spec
CONSTANTS
  Dialogs = {d1, d2}
  Page = page
  Nowhere = nowhere
  MaxZ = 3
  TabCount = 3
  Remote = {2}
  HeaderCount = 3
  ParentOf <- Tree
  Texts = {1, 2, 3}
  Short = 1
  MaxPending = 2
  Inner = "inner"
  Outer = "outer"
  Apart = "beside"
  Outside = "out"
  Inside = "in"
  Limit = 2
  Steps = {1, 2}
  Top = 2
  Fast = 2
  Parent = "parent"
  Child = "child"
  Off = "off"
  OptionCount = 3
  Dead = {2}
  ListCount = 2
  Home <- TwoLists
  Reverts = {1}
  MaxGlides = 2
  ItemCount = 2
  Fields = {"from", "to"}
  NoField = "none"
  Edited = {"to"}
  MonthOf <- TwoMonths
  Today = 1
  Narrow = {2}
  Calendars <- SomeCalendars
  TodaysDate <- Leapday
  Formats <- SomeFormats
  Years = {2023, 2024}
INVARIANTS
  DialogsCorrect
  PanelsCorrect
  MenusCorrect
  NewestAnswerShown
  PressesCorrect
  DragsCorrect
  ValuesCorrect
  TooltipsCorrect
  CalendarIsShared
  DatesCorrect
PROPERTIES ModalKeepsFocus DropsCorrect 
VIEW View
CHECK_DEADLOCK FALSE
