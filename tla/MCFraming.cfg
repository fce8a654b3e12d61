CONSTANTS
  Header = 2
  Shortest = 2
  Message <- MCMessage
  MaxFlight = 7
SPECIFICATION FairSpec
INVARIANT TypeOK
INVARIANT Genuine
INVARIANT OnlyCutsMislead
PROPERTY UncutIsAccepted
PROPERTY Realigns
