\* The user talks over a reply while its playback thread is still starting.
SPECIFICATION Spec
CONSTANTS
  People = {}
  GUEST = guest
  Utterances = {u1}
  Noise = noise
  Pending = pending
  Failed = failed
  Players = {t1, t2, t3}
  NoPlayer = none
  MaxStuck = 1
  MaxWords = 3
  HistoryLimit = 1
  IdleAck = 1
  WakeAck = FALSE
  BargeIn = TRUE
SYMMETRY Symmetry
INVARIANT BargeSilences
