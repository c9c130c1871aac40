\* The same, asking for the whole header.
CONSTANTS
  Addresses <- SeamAddresses
  PathIds <- LargePathIds
  MaxHops = 3
SPECIFICATION Spec
INVARIANTS HeaderSurvives
CHECK_DEADLOCK FALSE
