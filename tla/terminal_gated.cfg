CONSTANTS
  h1 = h1
  h2 = h2
  w1 = w1
  Workers = {w1}
  Handlers = {h1, h2}
  InputTty = TRUE
  OutputTty = TRUE
  Operations = {}
  Signals = {}
  Modes <- RawOnly
  PipeCapacity = 1
  PipeMayFill = FALSE
  IoMayFail = FALSE
SPECIFICATION GatedSpec
INVARIANTS TypeOK DrawsOnIntactTerminal ReleasedMeansBaseline BlockedMeansReleased 
