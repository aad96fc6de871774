\* A client is named by the kind of its socket.
CONSTANTS
  Clients = {"tcp", "udp", "uco", "ucl"}
  Nobody = Nobody
  Kind <- MCKind
SPECIFICATION FairSpec
PROPERTY EveryRequestIsAnswered
CHECK_DEADLOCK FALSE
