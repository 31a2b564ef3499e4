SPECIFICATION FairSpec
CONSTANTS
  short = short
  long = long
  longest = longest
  Call = {short, long, longest}
  CallBytes <- MCCallBytes
  Byte = {1, 2}
  ChunkBytes = 2
  MaxPacketBytes = 12
  Overhead <- MCOverhead
  Stations = {short, long, longest}
  Peer = short
  Payloads <- MCPayloads
  Retries = {0, 1, 2}
  Ticks = {0, 2}
  MaxRuns = 2
  MaxGather = 3
INVARIANTS TypeOK ReassembledIsSent CountsAddUp
PROPERTIES KeepsDelivery
CHECK_DEADLOCK FALSE
