SPECIFICATION FairSpec
CONSTANTS
  Proc = {p1, p2}
  Commands = {"compose", "send"}
  MaxBatch = 1
  MaxCompose = 2
  MaxOffer = 1
  MaxFaults = 2
  Exclusive = TRUE
  Crashes = TRUE
  SelfMail = FALSE
  ForeignMids = {}
  Unsupported = {}
  f1 = f1
  f2 = f2
  h2 = h2
  FakeMid = fake
  HeaderMid <- MCHeaderMid
PROPERTIES KeepsPromise OutboxGetsThrough
CHECK_DEADLOCK FALSE
