SPECIFICATION Spec
CONSTANTS
  A = A
  B = B
  Call = {A, B}
  NoCall = NoCall
  Text = {1, 2, 3, 4}
  Chunks = 2
  Given = {"CONNECT", "MSG", "MAIL", "FILE", "DISCONNECT"}
  MaxLines = 4
  MaxFaults = 1
CHECK_DEADLOCK FALSE
INVARIANTS OkIsBoth OnlyFailedConnectSplits
