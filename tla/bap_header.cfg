\* Path identities of one octet, and some over the ten bits of the field.
CONSTANTS
  Addresses <- SeamAddresses
  PathIds <- AllPathIds
  MaxHops = 3
SPECIFICATION Spec
INVARIANTS TypeOK OneOctetHeaderSurvives DestinationSurvives
CHECK_DEADLOCK FALSE
