CONSTANTS
  Nobody = Nobody
  Users = {o, p}
  Mods = {o}
  Organizers = {o}
  Tabs = {o, p}
  Notes = {n1, n2}
  WaveIds = {w1, w2}
  SlotIds = {s1, s2}
  Times <- MCTwoTimes
  Millisecond = 1
  MaxSlotLength = 1
  MaxTracks = 1
  MaxVotesPerUser = 2
SPECIFICATION Spec
SYMMETRY Interchangeable
CHECK_DEADLOCK FALSE
INVARIANT VotesUsedMatches
