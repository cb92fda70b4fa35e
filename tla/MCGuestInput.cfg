SPECIFICATION FairSpec
CONSTANTS
  NPads = 2
  NButtons = 2
  KeyCodes = {1, 3}
  RingSize = 4
  Grace = 1
  AlarmTime = 2
  MaxStimuli = 3
INVARIANTS
  TypeOK
  ViewConverges
  ShutdownSequence
PROPERTIES
  ProcessEnds
CHECK_DEADLOCK FALSE
