CONSTANTS
  None = None
  Dicts <- MCDicts
  Chips <- NoChips
SPECIFICATION Spec
PROPERTIES
  CountsNeverBreak
