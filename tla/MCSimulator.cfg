\* A moving vehicle, two commands, one line typed, a server that stops reading once.
SPECIFICATION FairSpec
CONSTANTS
  Keys = {1, 3}
  Sends <- Commands
  Speeds = {0, 204}
  opts <- Moving
  AlarmBuffer = 1
  MaxUp = 1
  MaxTyped = 1
  MaxStalls = 1
  Absent = Absent
INVARIANTS OutcomesAreTrue
PROPERTIES ViewConverges CommandsAreAnswered CommandsAreObeyed
