SPECIFICATION RingSpec
CONSTANTS
  Capacity = 14
  LenBytes = 2
  Lengths = {2, 4}
  Val = {a, b}
  SignalMod = 14
INVARIANTS RingTypeOK WritesAreFree WakeIsComing ReaderRunsOn
PROPERTY RingIsFifo
