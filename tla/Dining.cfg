\* Three philosophers: everybody holding one chopstick takes one round.
CONSTANTS
  NUM_MEN = 3
  NLOOPS = 1
SPECIFICATION FairSpec
PROPERTY EverybodyFinishes
CHECK_DEADLOCK FALSE
