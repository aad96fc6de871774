\* Two runs of each program.
CONSTANTS
  Clients = {c1, c2}
  Servers = {s1, s2}
  Nobody = Nobody
  MaxKills = 2
  Rounds = 5
  Stale = 3
SPECIFICATION FairSpec
INVARIANTS IInv Exclusion RepliesMatch CounterMatches ServedOnce
PROPERTIES CallIsAnswered LoopsEnd BothEnd WaitEnds NobodyIsLeft
  RequestsSurviveACrash SilentClientHoldsOnlyItsService ImplementsService
CHECK_DEADLOCK FALSE
