SPECIFICATION MenuSpec
CONSTANT LastChoice = 6
INVARIANTS
  IndexIsLabel
PROPERTIES
  SpokenAsShown
