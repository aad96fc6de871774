\* Four rounds through two slots. A killed consumer leaves its producer waiting
\* for ever, so a behaviour may stop.
CONSTANTS
  NLOOPS = 4
  MAX_BUF = 2
  Items = {d1, d2}
  NoItem = NoItem
SPECIFICATION FairSpec
INVARIANT IInv
PROPERTIES ImplementsBuffer BothEnd MutexComesBack
CHECK_DEADLOCK FALSE
