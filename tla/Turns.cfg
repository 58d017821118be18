\* Enrolment, guests, acknowledgements, barge-in and a hanging device.
SPECIFICATION FairSpec
CONSTANTS
  People = {p1}
  GUEST = guest
  Utterances = {u1}
  Noise = noise
  Pending = pending
  Failed = failed
  Players = {t1}
  NoPlayer = none
  MaxStuck = 1
  MaxWords = 1
  HistoryLimit = 1
  IdleAck = 0
  WakeAck = TRUE
  BargeIn = TRUE
INVARIANTS OwnHistory AcksSpaced
PROPERTIES TurnsReturn
