SPECIFICATION FairSpec
CONSTANTS
  Users = {"u1", "u2"}
  Conns = {"c1", "c2"}
  UserOf <- MCUserOf
  Notes = {n1}
  Places = {p1}
  OutOfRange = out
  Interval = 2
  NoMove = noMove
  MaxCmds = 3
  MaxSeq = 2
INVARIANTS RepliesSound MovesInOrder
PROPERTIES MovesSpaced MoverMayInteract EveryMoveAnswered
CHECK_DEADLOCK FALSE
