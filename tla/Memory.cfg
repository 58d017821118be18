\* Four turns, two faults, and enrolments at any moment.  The bound on turns
\* stops the turn thread; enrolments go on.
SPECIFICATION Spec
CONSTANTS
  People = {p1, p2}
  GUEST = guest
  Nobody = nobody
  Writers = {w1, w2}
  HistoryLimit = 2
  MaxTurns = 4
  MaxFaults = 2
SYMMETRY Symmetry
INVARIANTS TypeOK HistoryHasNoGap DamageNeedsFault LossPerFault
PROPERTIES KnownOrFailed
