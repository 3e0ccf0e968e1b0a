SPECIFICATION RingSpec
CONSTANTS
  Capacity = 16
  LenBytes = 2
  Lengths = {1, 4}
  Val = {a, b}
  SignalMod = 5
INVARIANT ReaderRunsOn
