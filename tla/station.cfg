SPECIFICATION FairSpec
CONSTANTS
  m1 = m1
  m2 = m2
  Text = {m1, m2}
  NoText = NoText
  LineKinds = {"directed-message"}
  Uses <- UsesDef
  MaxRuns = 2
  MaxHeard = 3
INVARIANTS TypeOK AiredAsAsked LogReplaysReport
PROPERTY RunsEnd
