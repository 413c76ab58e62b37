CONSTANTS
  Users = {ann, bob}
  NoUser = nobody
  MaxSessions = 2
  MaxSends = 3
  MaxLogouts = 2
  MaxFaults = 2
  Burst = 2
  Rate = 1
  Cost = 2
  MaxViolations = 2
  MaxIdle = 3
SPECIFICATION Spec
INVARIANTS
  QuietWhenLeft
  MarksAreOwn
  AnswersAreTrue
  RateLimited
PROPERTIES
  EverySendSettles
  ComesToRest
CHECK_DEADLOCK FALSE
