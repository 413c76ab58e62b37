CONSTANTS
  NoteW = 6
  NoteH = 4
  SpiralStep = 2
  MaxRings = 6
  None = None
  Users = {o, p}
  Mods = {o}
  Organizers = {o}
  Notes = {n1, n2}
  Regions = {r1, r2}
  Spots <- MCSpots
  Shapes <- MCShapes
  Contents = {a, b}
  MaxOrder = 3
SPECIFICATION Spec
SYMMETRY Interchangeable
INVARIANTS CachesMatch NoOverlap BoardMatches TagsShowTopmost
