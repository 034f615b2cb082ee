SPECIFICATION RoomSpec
CONSTANTS
  a1 = a1  a2 = a2  s1 = s1  s2 = s2  s3 = s3  p1 = p1  p2 = p2
  x1 = x1  x2 = x2  y1 = y1  r1 = r1  r2 = r2
  Acts = {a1, a2}
  Slots = {s1, s2, s3}
  ActOf <- MCActOf
  Students = {p1, p2}
  Sessions = {x1, x2, y1}
  OwnerOf <- MCOwnerOf
  ScoreOf <- MCScoreOf
  ClassActs = {a1}
  Fits <- MCFits
  Reqs = {r1, r2}
  NoSession = NoSession
  NoSlot = NoSlot
  NoStudent = NoStudent
  Cap = 1
  MaxFaults = 0
  CrClasses = {c1, c2}
  CrStudents = {q1, q2}
  CrTeachers = {t1, t2}
  CrGroups = {g1, g2}
  CrNone = None
  CrSlots = 2
  CrMax = 3
SYMMETRY Symmetry
INVARIANTS Inv CapHeld SettledOnce OneSlotPerSession RegisterHolds
PROPERTIES BoardRefined StandingsStand
CHECK_DEADLOCK FALSE
