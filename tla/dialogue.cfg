SPECIFICATION Spec
CONSTANTS
  RecentLimit = 2
  HistoryLimit = 3
  Window = 12
  Instants = {10}
  DateDays <- StoreDates
  FullDates <- StoreFullDates
  Messages <- DeviceMessages
  HeldMessages <- HeldTexts
  Attendants <- PeopleOnDevices
  ModelTexts <- ModelOnDevices
PROPERTIES EvaluationOnlyWithForm NoFormForAnotherBrand ConditionGoesToAttendant BuyerKeepsBuying
CHECK_DEADLOCK FALSE
