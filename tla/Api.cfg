\* Sightings on their way through both databases to the clients of the API.
SPECIFICATION Spec
CONSTANTS
  p1 = p1
  p2 = p2
  a1 = a1
  a2 = a2
  None = None
  Peers = {p1, p2}
  Texts <- SomeTexts
  Contacts <- SomeContacts
  Times <- SomeTimes
  Params <- SomeParams
  Day = 1
  FirstSecond <- SomeFirst
  MaxSightings = 3
INVARIANTS
  TypeOK
  AnswersAreSightings
  ActiveByTime
  ClientsSpelled
  ItemsLoseArchOnly
PROPERTIES
  NeverServesReplaced
  CopiesSnapshots
  WrittenIsServed
CHECK_DEADLOCK FALSE
