SPECIFICATION FairSpec
CONSTANTS
  A = A
  B = B
  C = C
  Call = {A, B, C}
  NoCall = NoCall
  Text = {t1, t2}
  Chunks <- ChunksDef
  Setups <- Started
  Length = 4
  LongKinds = {"CONNECT", "MSG", "FILE", "DISCONNECT"}
  SlipLength = 2
  SlipKinds = {"CONNECT", "MSG", "FILE", "DISCONNECT"}
CHECK_DEADLOCK FALSE
INVARIANTS ConversationHolds HeardWasSaid SavedCameWhole OkMeansDelivered PassedLogsAgree
PROPERTIES ConversationEnds NobodyWaitsForTheGone
