SPECIFICATION DisplaySpec
CONSTANTS
  Pages = {w1, w2, w3}
  Connecting = connecting
  Disconnected = disconnected
  MaxRenders = 3
  MaxTasks = 3
INVARIANTS PagesCatchUp
PROPERTIES NeverBack
