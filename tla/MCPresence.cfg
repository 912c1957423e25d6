\* Two overlapping sessions of a device, one failed statement.
SPECIFICATION FairSpec
CONSTANTS
  Sessions = {s1, s2}
  TouchInterval = 1
  CacheTTL = 2
  StaleAfter = 3
  OfflineAfter = 4
  Nil = Nil
  MaxFails = 1
PROPERTIES
  NeverLowersAContact
  SilentGoesOffline
  TalkingStaysOnline
