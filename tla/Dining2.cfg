\* Four philosophers, so that opposite ones do not share a chopstick, two meals each.
CONSTANTS
  NUM_MEN = 4
  NLOOPS = 2
SPECIFICATION FairSpec
INVARIANTS IInv NoForgottenGrant
PROPERTIES ImplementsTable EverybodyFinishes
