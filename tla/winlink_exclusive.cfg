SPECIFICATION Spec
CONSTANTS
  Proc = {p1}
  Commands = {"account", "fake", "compose", "receive", "send"}
  MaxBatch = 2
  MaxCompose = 2
  MaxOffer = 2
  MaxFaults = 1
  Exclusive = TRUE
  Crashes = FALSE
  SelfMail = TRUE
  ForeignMids = {f2}
  Unsupported = {}
  f1 = f1
  f2 = f2
  h2 = h2
  FakeMid = fake
  HeaderMid <- MCHeaderMid
INVARIANTS TypeOK SentWasAccepted DeliveredIsKept
PROPERTY KeepsPromise
