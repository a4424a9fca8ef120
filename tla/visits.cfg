SPECIFICATION Spec
CONSTANTS
  RecentLimit = 3
  HistoryLimit = 4
  Window = 12
  Instants = {191, 192, 284, 298}
  DateDays <- StoreDates
  FullDates <- StoreFullDates
  Messages <- StoreMessages
  HeldMessages <- HeldDays
  Attendants <- PeopleOnVisits
  ModelTexts <- ModelOnVisits
PROPERTIES OfferedDayIsOpen VisitAsAsked VisitNeverReserves
CHECK_DEADLOCK FALSE
