SPECIFICATION Spec
CONSTANTS
  t1 = t1
  t2 = t2
  Threads <- MCThreads
  Old = 1
  MaxId = 3
  MaxObjs = 2
  MaxEdits = 2
  Missing = Missing
  MaxReads = 3
  NaN = NaN
  Safe = 20
  MaxText = 5
  NRings = 2
  NGiven = 3
  MaxCopy = 5
  Databases <- MCDatabases
  Unwritable <- MCUnwritable
  Lists <- MCLists
  MaxTouches = 1
  OpNames = {"n", "m"}
  ReadOnly <- MCReadOnly
  MaxOperators = 2
  MaxEvents = 2
SYMMETRY Symmetry
CHECK_DEADLOCK FALSE
INVARIANTS EditsAccounted ReadsAreDerived AcceptedStays SentIsReceived PlanLeadsToNew
INVARIANTS RequestsAreServed PathsAreSound
INVARIANTS MovesAreSound SequencesAgree
PROPERTIES SaveMeansSaved
