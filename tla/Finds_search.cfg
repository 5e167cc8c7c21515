\* Trees with links, cycles and failures; one file with many contents.
SPECIFICATION FairSpec
CONSTANTS
  Letter = {"a", "b"}
  Inputs <- MCInputs
  LineMax = 5
INVARIANTS
  TypeOK
  PathRight
  OnceEach
  AllSearched
  OutputExact
PROPERTIES
  Terminates
CHECK_DEADLOCK FALSE
