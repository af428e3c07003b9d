SPECIFICATION FairSpec
CONSTANTS
  WakeTries = 2
  Settings = 2
  MaxAddress = 2
  MaxLines = 1
INVARIANTS
  NoEarlierAddress
  ConnectIsRegistered
PROPERTY
  CallsReturn
