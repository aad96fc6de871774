CONSTANTS
  Users = {a, b}
  Talkers = {a}
  Nobody = Nobody
  Sockfd = Sockfd
  MAX_CLIENT = 2
  MaxOnline = 3
  MaxLines = 1
SPECIFICATION FairSpec
PROPERTY EverybodyIsServed
CHECK_DEADLOCK FALSE
