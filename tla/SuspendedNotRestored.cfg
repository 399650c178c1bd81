SPECIFICATION CatalogueSpec
CONSTANTS
  Clerks = {c1}
  Edits = {}
  MaxStock = 1
  MaxSold = 1
  None = None
CHECK_DEADLOCK FALSE
PROPERTY SuspendedNotRestored
