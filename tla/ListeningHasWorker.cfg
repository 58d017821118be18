SPECIFICATION ConsoleSpec
CONSTANTS
  Workers = {w1, w2}
  NoThread = none
  Enrollers = {e1}
  MaxOutbox = 2
  BargeIn = TRUE
INVARIANT ListeningHasWorker
