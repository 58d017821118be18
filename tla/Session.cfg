\* Every microphone read returns before disarm's join times out.
SPECIFICATION SessionFairSpec
CONSTANTS
  Listeners = {l1, l2}
  NoListener = none
  Onset = 2
  ReadsInTime = TRUE
  Enrolled = {p1, p2}
  GUEST = guest
  Scores = {1, 2}
  Thresholds = {1, 2}
  Margins = {0, 1}
  SilenceLimit = 2
  MaxFrames = 5
INVARIANTS SessionTypeOK OneListener ErrorMeansDeaf OneMicrophone ClipComplete
PROPERTIES IdentifiedAsTuned DisarmReturns IsDetector
