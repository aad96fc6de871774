CONSTANTS
  Users = {a, b, c}
  Talkers = {a}
  Nobody = Nobody
  Sockfd = Sockfd
  MAX_CLIENT = 3
  MaxOnline = 3
  MaxLines = 2
SPECIFICATION NamingSpec
INVARIANTS IInv Transcript
PROPERTIES EverybodyIsServed StopsWithServer
CHECK_DEADLOCK FALSE
