CONSTANTS
  None = None
  Dicts <- NoDicts
  Chips <- ByHand
SPECIFICATION FluentSpec
PROPERTIES
  RoundTrips
