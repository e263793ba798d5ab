SPECIFICATION FairSpec
CONSTANTS
  c1 = c1
  c2 = c2
  c3 = c3
  Consumers = {c1, c2, c3}
  MaxItems = 3
PROPERTIES
  ItemMeetsConsumer
  CloseReleases
  ImplementsChannel
