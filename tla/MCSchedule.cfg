CONSTANTS
  Nobody = Nobody
  Users = {o, p}
  Mods = {o}
  Organizers = {o}
  Tabs = {o, p}
  Notes = {n1, n2}
  WaveIds = {w1, w2}
  SlotIds = {s1, s2, s3}
  Times <- MCTimes
  Millisecond = 2
  MaxSlotLength = 4
  MaxTracks = 2
  MaxVotesPerUser = 2
SPECIFICATION Spec
CONSTRAINT InFocus
SYMMETRY Interchangeable
CHECK_DEADLOCK FALSE
INVARIANTS ScheduleSound BoardMatches OffersWhatIsAllowed
PROPERTIES ClosedWavesAreFinal BudgetRespected
