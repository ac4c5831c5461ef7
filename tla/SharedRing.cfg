SPECIFICATION FairSpec
CONSTANTS
  w1 = w1
  w2 = w2
  Writers <- TwoWriters
  RingLength = 2
  IndexRange = 10
  FirstTicket = 8
  MaxTicket = 12
  MaxDeaths = 1
  Builds = {TRUE, FALSE}
INVARIANTS InOrderOnce PassedOverOnlyWhenLapped
PROPERTIES WholeUnlessRaced RecoversFromHole
