\* Two requests for the temperature, one after the other.
SPECIFICATION FairSpec
CONSTANTS
  Reader = {r1, r2}
  Analog = {62}
  Rate = 1
  Wrap = 2
INVARIANTS
  OneReading
PROPERTIES
  
  RawReaderEnds
CHECK_DEADLOCK FALSE
